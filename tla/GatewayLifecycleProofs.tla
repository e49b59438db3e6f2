------------------------ MODULE GatewayLifecycleProofs ------------------------
(***************************************************************************)
(* Proofs, for every set of sessions, that stop() leaves no thread and no   *)
(* descriptor behind.                                                       *)
(***************************************************************************)
EXTENDS GatewayLifecycle, TLAPS

(* A gateway that was never started satisfies the inductive invariant. *)
LEMMA InitInvariant == Init => IInv
<1> SUFFICES ASSUME Init PROVE IInv
  OBVIOUS
<1>1. TypeOK
  BY DEF Init, TypeOK
<1>2. ThreadsOK
  BY NobodyAssumption DEF Init, ThreadsOK, AcceptorJoined
<1>3. SessionsOK
  BY NobodyAssumption DEF Init, SessionsOK
<1>4. FdsOK
  BY DEF Init, FdsOK
<1> QED  BY <1>1, <1>2, <1>3, <1>4 DEF IInv

(* Every step of the owner, the acceptor, a worker or a client keeps the    *)
(* inductive invariant.                                                     *)
LEMMA NextInvariant == IInv /\ [Next]_vars => IInv'
<1> SUFFICES ASSUME IInv, [Next]_vars PROVE IInv'
  OBVIOUS
<1> USE NobodyAssumption DEF IInv, AcceptorJoined
<1>1. ASSUME Start PROVE IInv'
  <2>1. TypeOK'
    BY <1>1 DEF Start, ownerVars, acceptorVars, sessionVars, TypeOK, ThreadsOK
  <2>2. ThreadsOK'
    BY <1>1 DEF Start, ownerVars, acceptorVars, sessionVars, TypeOK, ThreadsOK
  <2>3. SessionsOK'
    BY <1>1 DEF Start, ownerVars, acceptorVars, sessionVars, TypeOK, ThreadsOK, SessionsOK
  <2>4. FdsOK'
    BY <1>1 DEF Start, ownerVars, acceptorVars, sessionVars, TypeOK, ThreadsOK, SessionsOK, FdsOK
  <2> QED  BY <2>1, <2>2, <2>3, <2>4
<1>2. ASSUME Stop PROVE IInv'
  <2>1. TypeOK'
    BY <1>2 DEF Stop, ownerVars, acceptorVars, sessionVars, TypeOK, ThreadsOK
  <2>2. ThreadsOK'
    BY <1>2 DEF Stop, ownerVars, acceptorVars, sessionVars, TypeOK, ThreadsOK
  <2>3. SessionsOK'
    BY <1>2 DEF Stop, ownerVars, acceptorVars, sessionVars, TypeOK, ThreadsOK, SessionsOK
  <2>4. FdsOK'
    BY <1>2 DEF Stop, ownerVars, acceptorVars, sessionVars, TypeOK, ThreadsOK, SessionsOK, FdsOK
  <2> QED  BY <2>1, <2>2, <2>3, <2>4
<1>3. ASSUME CloseListener PROVE IInv'
  <2>1. TypeOK'
    BY <1>3 DEF CloseListener, ownerVars, acceptorVars, sessionVars, TypeOK, ThreadsOK
  <2>2. ThreadsOK'
    BY <1>3 DEF CloseListener, ownerVars, acceptorVars, sessionVars, TypeOK, ThreadsOK
  <2>3. SessionsOK'
    BY <1>3 DEF CloseListener, ownerVars, acceptorVars, sessionVars, TypeOK, ThreadsOK, SessionsOK
  <2>4. FdsOK'
    BY <1>3 DEF CloseListener, ownerVars, acceptorVars, sessionVars, TypeOK, ThreadsOK, SessionsOK, FdsOK
  <2> QED  BY <2>1, <2>2, <2>3, <2>4
<1>4. ASSUME JoinAcceptor PROVE IInv'
  <2>1. TypeOK'
    BY <1>4 DEF JoinAcceptor, ownerVars, acceptorVars, sessionVars, TypeOK, ThreadsOK
  <2>2. ThreadsOK'
    BY <1>4 DEF JoinAcceptor, ownerVars, acceptorVars, sessionVars, TypeOK, ThreadsOK
  <2>3. SessionsOK'
    BY <1>4 DEF JoinAcceptor, ownerVars, acceptorVars, sessionVars, TypeOK, ThreadsOK, SessionsOK
  <2>4. FdsOK'
    BY <1>4 DEF JoinAcceptor, ownerVars, acceptorVars, sessionVars, TypeOK, ThreadsOK, SessionsOK, FdsOK
  <2> QED  BY <2>1, <2>2, <2>3, <2>4
<1>5. ASSUME SwapSessions PROVE IInv'
  <2>1. TypeOK'
    BY <1>5 DEF SwapSessions, ownerVars, acceptorVars, sessionVars, TypeOK, ThreadsOK
  <2>2. ThreadsOK'
    BY <1>5 DEF SwapSessions, ownerVars, acceptorVars, sessionVars, TypeOK, ThreadsOK
  <2>3. SessionsOK'
    BY <1>5 DEF SwapSessions, ownerVars, acceptorVars, sessionVars, TypeOK, ThreadsOK, SessionsOK
  <2>4. FdsOK'
    BY <1>5 DEF SwapSessions, ownerVars, acceptorVars, sessionVars, TypeOK, ThreadsOK, SessionsOK, FdsOK
  <2> QED  BY <2>1, <2>2, <2>3, <2>4
<1>6. ASSUME NEW s \in Sessions, StopSession(s) PROVE IInv'
  <2>1. TypeOK'
    BY <1>6 DEF StopSession, ownerVars, acceptorVars, sessionVars, TypeOK, ThreadsOK
  <2>2. ThreadsOK'
    BY <1>6 DEF StopSession, ownerVars, acceptorVars, sessionVars, TypeOK, ThreadsOK
  <2>3. SessionsOK'
    BY <1>6 DEF StopSession, ownerVars, acceptorVars, sessionVars, TypeOK, ThreadsOK, SessionsOK
  <2>4. FdsOK'
    BY <1>6 DEF StopSession, ownerVars, acceptorVars, sessionVars, TypeOK, ThreadsOK, SessionsOK, FdsOK
  <2> QED  BY <2>1, <2>2, <2>3, <2>4
<1>7. ASSUME StopReturn PROVE IInv'
  <2>1. TypeOK'
    BY <1>7 DEF StopReturn, ownerVars, acceptorVars, sessionVars, TypeOK, ThreadsOK
  <2>2. ThreadsOK'
    BY <1>7 DEF StopReturn, ownerVars, acceptorVars, sessionVars, TypeOK, ThreadsOK
  <2>3. SessionsOK'
    BY <1>7 DEF StopReturn, ownerVars, acceptorVars, sessionVars, TypeOK, ThreadsOK, SessionsOK
  <2>4. FdsOK'
    BY <1>7 DEF StopReturn, ownerVars, acceptorVars, sessionVars, TypeOK, ThreadsOK, SessionsOK, FdsOK
  <2> QED  BY <2>1, <2>2, <2>3, <2>4
<1>8. ASSUME StopShutdown PROVE IInv'
  <2>1. TypeOK'
    BY <1>8 DEF StopShutdown, ShutdownFd, ownerVars, acceptorVars, sessionVars, TypeOK, ThreadsOK
  <2>2. ThreadsOK'
    BY <1>8 DEF StopShutdown, ShutdownFd, ownerVars, acceptorVars, sessionVars, TypeOK, ThreadsOK
  <2>3. SessionsOK'
    BY <1>8 DEF StopShutdown, ShutdownFd, ownerVars, acceptorVars, sessionVars, TypeOK, ThreadsOK, SessionsOK
  <2>4. FdsOK'
    BY <1>8 DEF StopShutdown, ShutdownFd, ownerVars, acceptorVars, sessionVars, TypeOK, ThreadsOK, SessionsOK, FdsOK
  <2> QED  BY <2>1, <2>2, <2>3, <2>4
<1>9. ASSUME StopClose PROVE IInv'
  <2>1. TypeOK'
    BY <1>9 DEF StopClose, CloseFd, ownerVars, acceptorVars, sessionVars, TypeOK, ThreadsOK
  <2>2. ThreadsOK'
    BY <1>9 DEF StopClose, CloseFd, ownerVars, acceptorVars, sessionVars, TypeOK, ThreadsOK
  <2>3. SessionsOK'
    BY <1>9 DEF StopClose, CloseFd, ownerVars, acceptorVars, sessionVars, TypeOK, ThreadsOK, SessionsOK
  <2>4. FdsOK'
    BY <1>9 DEF StopClose, CloseFd, ownerVars, acceptorVars, sessionVars, TypeOK, ThreadsOK, SessionsOK, FdsOK
  <2> QED  BY <2>1, <2>2, <2>3, <2>4
<1>10. ASSUME StopClear PROVE IInv'
  <2>1. TypeOK'
    BY <1>10 DEF StopClear, ClearFd, ownerVars, acceptorVars, sessionVars, TypeOK, ThreadsOK
  <2>2. ThreadsOK'
    BY <1>10 DEF StopClear, ClearFd, ownerVars, acceptorVars, sessionVars, TypeOK, ThreadsOK
  <2>3. SessionsOK'
    BY <1>10 DEF StopClear, ClearFd, ownerVars, acceptorVars, sessionVars, TypeOK, ThreadsOK, SessionsOK
  <2>4. FdsOK'
    BY <1>10 DEF StopClear, ClearFd, ownerVars, acceptorVars, sessionVars, TypeOK, ThreadsOK, SessionsOK, FdsOK
  <2> QED  BY <2>1, <2>2, <2>3, <2>4
<1>11. ASSUME StopJoin PROVE IInv'
  <2>1. TypeOK'
    BY <1>11 DEF StopJoin, ownerVars, acceptorVars, sessionVars, TypeOK, ThreadsOK
  <2>2. ThreadsOK'
    BY <1>11 DEF StopJoin, ownerVars, acceptorVars, sessionVars, TypeOK, ThreadsOK
  <2>3. SessionsOK'
    BY <1>11 DEF StopJoin, ownerVars, acceptorVars, sessionVars, TypeOK, ThreadsOK, SessionsOK
  <2>4. FdsOK'
    BY <1>11 DEF StopJoin, ownerVars, acceptorVars, sessionVars, TypeOK, ThreadsOK, SessionsOK, FdsOK
  <2> QED  BY <2>1, <2>2, <2>3, <2>4
<1>12. ASSUME AcceptorLoop PROVE IInv'
  <2>1. TypeOK'
    BY <1>12 DEF AcceptorLoop, ownerVars, acceptorVars, sessionVars, TypeOK, ThreadsOK
  <2>2. ThreadsOK'
    BY <1>12 DEF AcceptorLoop, ownerVars, acceptorVars, sessionVars, TypeOK, ThreadsOK
  <2>3. SessionsOK'
    BY <1>12 DEF AcceptorLoop, ownerVars, acceptorVars, sessionVars, TypeOK, ThreadsOK, SessionsOK
  <2>4. FdsOK'
    BY <1>12 DEF AcceptorLoop, ownerVars, acceptorVars, sessionVars, TypeOK, ThreadsOK, SessionsOK, FdsOK
  <2> QED  BY <2>1, <2>2, <2>3, <2>4
<1>13. ASSUME AcceptClosed PROVE IInv'
  <2>1. TypeOK'
    BY <1>13 DEF AcceptClosed, ownerVars, acceptorVars, sessionVars, TypeOK, ThreadsOK
  <2>2. ThreadsOK'
    BY <1>13 DEF AcceptClosed, ownerVars, acceptorVars, sessionVars, TypeOK, ThreadsOK
  <2>3. SessionsOK'
    BY <1>13 DEF AcceptClosed, ownerVars, acceptorVars, sessionVars, TypeOK, ThreadsOK, SessionsOK
  <2>4. FdsOK'
    BY <1>13 DEF AcceptClosed, ownerVars, acceptorVars, sessionVars, TypeOK, ThreadsOK, SessionsOK, FdsOK
  <2> QED  BY <2>1, <2>2, <2>3, <2>4
<1>14. ASSUME PushSession PROVE IInv'
  <2>1. TypeOK'
    BY <1>14 DEF PushSession, ownerVars, acceptorVars, sessionVars, TypeOK, ThreadsOK
  <2>2. ThreadsOK'
    BY <1>14 DEF PushSession, ownerVars, acceptorVars, sessionVars, TypeOK, ThreadsOK
  <2>3. SessionsOK'
    BY <1>14 DEF PushSession, ownerVars, acceptorVars, sessionVars, TypeOK, ThreadsOK, SessionsOK
  <2>4. FdsOK'
    BY <1>14 DEF PushSession, ownerVars, acceptorVars, sessionVars, TypeOK, ThreadsOK, SessionsOK, FdsOK
  <2> QED  BY <2>1, <2>2, <2>3, <2>4
<1>15. ASSUME SpawnWorker PROVE IInv'
  <2>1. TypeOK'
    BY <1>15 DEF SpawnWorker, ownerVars, acceptorVars, sessionVars, TypeOK, ThreadsOK
  <2>2. ThreadsOK'
    BY <1>15 DEF SpawnWorker, ownerVars, acceptorVars, sessionVars, TypeOK, ThreadsOK
  <2>3. SessionsOK'
    BY <1>15 DEF SpawnWorker, ownerVars, acceptorVars, sessionVars, TypeOK, ThreadsOK, SessionsOK
  <2>4. FdsOK'
    BY <1>15 DEF SpawnWorker, ownerVars, acceptorVars, sessionVars, TypeOK, ThreadsOK, SessionsOK, FdsOK
  <2> QED  BY <2>1, <2>2, <2>3, <2>4
<1>16. ASSUME AcceptError PROVE IInv'
  <2>1. TypeOK'
    BY <1>16 DEF AcceptError, ownerVars, acceptorVars, sessionVars, TypeOK, ThreadsOK
  <2>2. ThreadsOK'
    BY <1>16 DEF AcceptError, ownerVars, acceptorVars, sessionVars, TypeOK, ThreadsOK
  <2>3. SessionsOK'
    BY <1>16 DEF AcceptError, ownerVars, acceptorVars, sessionVars, TypeOK, ThreadsOK, SessionsOK
  <2>4. FdsOK'
    BY <1>16 DEF AcceptError, ownerVars, acceptorVars, sessionVars, TypeOK, ThreadsOK, SessionsOK, FdsOK
  <2> QED  BY <2>1, <2>2, <2>3, <2>4
<1>17. ASSUME NEW s \in Sessions, Accept(s) PROVE IInv'
  <2>1. TypeOK'
    BY <1>17 DEF Accept, ownerVars, acceptorVars, sessionVars, TypeOK, ThreadsOK
  <2>2. ThreadsOK'
    BY <1>17 DEF Accept, ownerVars, acceptorVars, sessionVars, TypeOK, ThreadsOK
  <2>3. SessionsOK'
    BY <1>17 DEF Accept, ownerVars, acceptorVars, sessionVars, TypeOK, ThreadsOK, SessionsOK
  <2>4. FdsOK'
    BY <1>17 DEF Accept, ownerVars, acceptorVars, sessionVars, TypeOK, ThreadsOK, SessionsOK, FdsOK
  <2> QED  BY <2>1, <2>2, <2>3, <2>4
<1>18. ASSUME NEW s \in Sessions, WorkerLoop(s) PROVE IInv'
  <2>1. TypeOK'
    BY <1>18 DEF WorkerLoop, ownerVars, acceptorVars, sessionVars, TypeOK, ThreadsOK
  <2>2. ThreadsOK'
    BY <1>18 DEF WorkerLoop, ownerVars, acceptorVars, sessionVars, TypeOK, ThreadsOK
  <2>3. SessionsOK'
    BY <1>18 DEF WorkerLoop, ownerVars, acceptorVars, sessionVars, TypeOK, ThreadsOK, SessionsOK
  <2>4. FdsOK'
    BY <1>18 DEF WorkerLoop, ownerVars, acceptorVars, sessionVars, TypeOK, ThreadsOK, SessionsOK, FdsOK
  <2> QED  BY <2>1, <2>2, <2>3, <2>4
<1>19. ASSUME NEW s \in Sessions, RecvEnd(s) PROVE IInv'
  <2>1. TypeOK'
    BY <1>19 DEF RecvEnd, ownerVars, acceptorVars, sessionVars, TypeOK, ThreadsOK
  <2>2. ThreadsOK'
    BY <1>19 DEF RecvEnd, ownerVars, acceptorVars, sessionVars, TypeOK, ThreadsOK
  <2>3. SessionsOK'
    BY <1>19 DEF RecvEnd, ownerVars, acceptorVars, sessionVars, TypeOK, ThreadsOK, SessionsOK
  <2>4. FdsOK'
    BY <1>19 DEF RecvEnd, ownerVars, acceptorVars, sessionVars, TypeOK, ThreadsOK, SessionsOK, FdsOK
  <2> QED  BY <2>1, <2>2, <2>3, <2>4
<1>20. ASSUME NEW s \in Sessions, WorkerTest(s) PROVE IInv'
  <2>1. TypeOK'
    BY <1>20 DEF WorkerTest, ownerVars, acceptorVars, sessionVars, TypeOK, ThreadsOK
  <2>2. ThreadsOK'
    BY <1>20 DEF WorkerTest, ownerVars, acceptorVars, sessionVars, TypeOK, ThreadsOK
  <2>3. SessionsOK'
    BY <1>20 DEF WorkerTest, ownerVars, acceptorVars, sessionVars, TypeOK, ThreadsOK, SessionsOK
  <2>4. FdsOK'
    BY <1>20 DEF WorkerTest, ownerVars, acceptorVars, sessionVars, TypeOK, ThreadsOK, SessionsOK, FdsOK
  <2> QED  BY <2>1, <2>2, <2>3, <2>4
<1>21. ASSUME NEW s \in Sessions, WorkerShutdown(s) PROVE IInv'
  <2>1. TypeOK'
    BY <1>21 DEF WorkerShutdown, ShutdownFd, ownerVars, acceptorVars, sessionVars, TypeOK, ThreadsOK
  <2>2. ThreadsOK'
    BY <1>21 DEF WorkerShutdown, ShutdownFd, ownerVars, acceptorVars, sessionVars, TypeOK, ThreadsOK
  <2>3. SessionsOK'
    BY <1>21 DEF WorkerShutdown, ShutdownFd, ownerVars, acceptorVars, sessionVars, TypeOK, ThreadsOK, SessionsOK
  <2>4. FdsOK'
    BY <1>21 DEF WorkerShutdown, ShutdownFd, ownerVars, acceptorVars, sessionVars, TypeOK, ThreadsOK, SessionsOK, FdsOK
  <2> QED  BY <2>1, <2>2, <2>3, <2>4
<1>22. ASSUME NEW s \in Sessions, WorkerClose(s) PROVE IInv'
  <2>1. TypeOK'
    BY <1>22 DEF WorkerClose, CloseFd, ownerVars, acceptorVars, sessionVars, TypeOK, ThreadsOK
  <2>2. ThreadsOK'
    BY <1>22 DEF WorkerClose, CloseFd, ownerVars, acceptorVars, sessionVars, TypeOK, ThreadsOK
  <2>3. SessionsOK'
    BY <1>22 DEF WorkerClose, CloseFd, ownerVars, acceptorVars, sessionVars, TypeOK, ThreadsOK, SessionsOK
  <2>4. FdsOK'
    BY <1>22 DEF WorkerClose, CloseFd, ownerVars, acceptorVars, sessionVars, TypeOK, ThreadsOK, SessionsOK, FdsOK
  <2> QED  BY <2>1, <2>2, <2>3, <2>4
<1>23. ASSUME NEW s \in Sessions, WorkerClear(s) PROVE IInv'
  <2>1. TypeOK'
    BY <1>23 DEF WorkerClear, ClearFd, ownerVars, acceptorVars, sessionVars, TypeOK, ThreadsOK
  <2>2. ThreadsOK'
    BY <1>23 DEF WorkerClear, ClearFd, ownerVars, acceptorVars, sessionVars, TypeOK, ThreadsOK
  <2>3. SessionsOK'
    BY <1>23 DEF WorkerClear, ClearFd, ownerVars, acceptorVars, sessionVars, TypeOK, ThreadsOK, SessionsOK
  <2>4. FdsOK'
    BY <1>23 DEF WorkerClear, ClearFd, ownerVars, acceptorVars, sessionVars, TypeOK, ThreadsOK, SessionsOK, FdsOK
  <2> QED  BY <2>1, <2>2, <2>3, <2>4
<1>24. ASSUME NEW s \in Sessions, RecvData(s) PROVE IInv'
  <2>1. TypeOK'
    <3>1. alive' \in [Sessions -> BOOLEAN]
      BY <1>24, ZenonT(30) DEF RecvData, TypeOK
    <3>2. worker' \in [Sessions -> {"none", "loop", "recv", "test", "shutdown",
                                    "close", "clear", "ended"}]
      BY <1>24 DEF RecvData, TypeOK
    <3>3. UNCHANGED <<ownerVars, acceptorVars, sessions, hasFd, conn, closes>>
      BY <1>24 DEF RecvData
    <3> QED BY <3>1, <3>2, <3>3, Zenon DEF ownerVars, acceptorVars, TypeOK
  <2>2. ThreadsOK'
    BY <1>24 DEF RecvData, ownerVars, acceptorVars, sessionVars, TypeOK, ThreadsOK
  <2>3. SessionsOK'
    BY <1>24 DEF RecvData, ownerVars, acceptorVars, sessionVars, TypeOK, ThreadsOK, SessionsOK
  <2>4. FdsOK'
    BY <1>24 DEF RecvData, ownerVars, acceptorVars, sessionVars, TypeOK, ThreadsOK, SessionsOK, FdsOK
  <2> QED  BY <2>1, <2>2, <2>3, <2>4
<1>25. ASSUME NEW s \in Sessions, PeerClose(s) PROVE IInv'
  <2>1. TypeOK'
    BY <1>25 DEF PeerClose, ownerVars, acceptorVars, sessionVars, TypeOK, ThreadsOK
  <2>2. ThreadsOK'
    BY <1>25 DEF PeerClose, ownerVars, acceptorVars, sessionVars, TypeOK, ThreadsOK
  <2>3. SessionsOK'
    BY <1>25 DEF PeerClose, ownerVars, acceptorVars, sessionVars, TypeOK, ThreadsOK, SessionsOK
  <2>4. FdsOK'
    BY <1>25 DEF PeerClose, ownerVars, acceptorVars, sessionVars, TypeOK, ThreadsOK, SessionsOK, FdsOK
  <2> QED  BY <2>1, <2>2, <2>3, <2>4
<1>26. ASSUME UNCHANGED vars PROVE IInv'
  BY <1>26 DEF vars, ownerVars, acceptorVars, sessionVars, TypeOK, ThreadsOK, SessionsOK, FdsOK
<1> QED
  BY <1>1, <1>2, <1>3, <1>4, <1>5, <1>6, <1>7, <1>8, <1>9, <1>10, <1>11, <1>12, <1>13, <1>14, <1>15, <1>16, <1>17, <1>18, <1>19, <1>20, <1>21, <1>22, <1>23, <1>24, <1>25, <1>26
     DEF Next, Owner, Acceptor, Worker

(* The inductive invariant holds in every reachable state. *)
THEOREM Invariant == Spec => []IInv
<1>1. Init => IInv
  BY InitInvariant
<1>2. IInv /\ [Next]_vars => IInv'
  BY NextInvariant
<1> QED  BY <1>1, <1>2, PTL DEF Spec

(* For any number of sessions, the members and locals keep their types.     *)
THEOREM TypeCorrect == Spec => []TypeOK
<1>1. IInv => TypeOK
  BY DEF IInv
<1> QED  BY <1>1, Invariant, PTL

(* For any number of sessions, a stop() that returned has joined every      *)
(* thread and closed every descriptor.                                      *)
THEOREM StopIsComplete == Spec => []StopJoinsAll
<1>1. ASSUME IInv, owner = "down"
      PROVE  /\ acceptor = "none" /\ ~listening /\ sessions = {}
             /\ snapshot = {} /\ accepting = Nobody
  BY <1>1 DEF IInv, ThreadsOK, AcceptorJoined
<1>2. ASSUME IInv, owner = "down", NEW s \in Sessions
      PROVE  worker[s] \in {"none", "ended"} /\ conn[s] \in {"none", "closed"}
  <2>1. worker[s] \in {"none", "ended"}
    BY <1>1, <1>2 DEF IInv, SessionsOK
  <2>2. s # accepting
    BY <1>1, <1>2, NobodyAssumption
  <2>3. CASE worker[s] = "none"
    BY <1>2, <2>1, <2>2, <2>3 DEF IInv, SessionsOK
  <2>4. CASE worker[s] = "ended"
    BY <1>2, <2>1, <2>4 DEF IInv, FdsOK
  <2> QED  BY <2>1, <2>3, <2>4
<1>3. IInv => StopJoinsAll
  BY <1>1, <1>2 DEF StopJoinsAll
<1> QED  BY <1>3, Invariant, PTL

(* For any number of sessions, stop() never joins a thread that has not     *)
(* been assigned.                                                           *)
THEOREM WorkersAssigned == Spec => []WorkerAssigned
<1>1. IInv => WorkerAssigned
  BY DEF IInv, TypeOK, SessionsOK, WorkerAssigned
<1> QED  BY <1>1, Invariant, PTL

(* For any number of sessions, no worker runs that stop() would not find.   *)
THEOREM NoOrphans == Spec => []NoOrphanWorker
<1>1. IInv => NoOrphanWorker
  BY DEF IInv, SessionsOK, NoOrphanWorker
<1> QED  BY <1>1, Invariant, PTL
=============================================================================
