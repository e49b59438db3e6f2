---------------------------- MODULE DriverProofs ----------------------------
(***************************************************************************)
(* Proofs about Driver, for every set of sessions and any number of orders: *)
(* the drivers around the gateway, from the invariant of the gateway alone. *)
(***************************************************************************)
EXTENDS Driver, GatewayLifecycleProofs

Making == {"fpga", "map", "dpdk", "port", "software"}
Tearing == {"stop", "join", "reset"}

(* The members of the driver have their types. *)
DriverTypes ==
    /\ at \in [{"main", "ctl"} -> Making \cup Tearing \cup {"idle", "feed", "gateway", "poll", "undefined"}]
    /\ kind \in {"none", "fpga", "dpdk", "software"}
    /\ drv \in BOOLEAN /\ gw \in BOOLEAN
    /\ orders \in Nat /\ seen \in Nat /\ reported \in Nat /\ total \in Nat

(* Where the two threads can be: running_ is clear while one tears down,    *)
(* and nobody else is in a call that changes the driver.                    *)
ThreadsApart ==
    /\ at["ctl"] \in Tearing \cup {"idle"}
    /\ at["main"] \in Making <=> kind = "none"
    /\ kind = "none" => at["ctl"] = "idle" /\ ~drv /\ ~gw
    /\ at["main"] \in Tearing \/ at["ctl"] \in Tearing => ~drv
    /\ ~ (at["main"] \in Tearing /\ at["ctl"] \in Tearing)
    /\ at["main"] \in {"feed", "gateway"} => kind = "software" /\ at["ctl"] = "idle" /\ drv
    /\ \A t \in {"main", "ctl"} : at[t] \in {"join", "reset"} => kind = "software"

(* The gateway is up exactly while its driver is, and down again before the *)
(* driver's stop() goes on to the feed.                                     *)
GatewayFollows ==
    /\ kind # "software" => owner = "down" /\ ~gw
    /\ at["main"] \in {"feed", "gateway"} => owner = "down"
    /\ kind = "software" /\ drv /\ at["main"] \notin {"feed", "gateway"} => owner = "up" /\ gw
    /\ \A t \in {"main", "ctl"} :
          /\ at[t] = "stop" /\ kind = "software" => owner = "up"
          /\ at[t] = "join" => owner # "up"
          /\ at[t] = "reset" => owner = "down"
    /\ kind = "software" /\ ~drv /\ at["main"] \notin Tearing /\ at["ctl"] \notin Tearing
          => owner = "down"

(* Each kind of driver holds its own resources, and the EAL may be a        *)
(* leftover.                                                                *)
HeldOK ==
    /\ kind = "none" /\ at["main"] # "map" => held \subseteq {"eal"}
    /\ kind = "none" => held \subseteq {"eal", "fd"}
    /\ kind = "fpga" => held \subseteq {"eal", "fd", "bar"}
    /\ kind = "dpdk" => held \subseteq {"eal", "port"}
    /\ kind = "software" => held \subseteq {"eal", "feed"}
    /\ kind \in {"fpga", "dpdk"} /\ ~drv /\ at["main"] \notin Tearing /\ at["ctl"] \notin Tearing
          => held \subseteq {"eal"}

(* What poll() would report now is still covered by what was received. *)
CountsOK ==
    /\ reported <= total
    /\ kind = "software" /\ gw => reported + Delta(orders) <= total

(* The inductive invariant of the composition. *)
DInv == IInv /\ DriverTypes /\ ThreadsApart /\ GatewayFollows /\ HeldOK /\ CountsOK

(* A driver that has not been made satisfies the invariant. *)
LEMMA DriverInit == DInit => DInv
<1> SUFFICES ASSUME DInit PROVE DInv
  OBVIOUS
<1>1. IInv
  BY InitInvariant DEF DInit
<1>2. DriverTypes /\ ThreadsApart
  BY DEF DInit, DriverTypes, ThreadsApart, Making, Tearing
<1>3. GatewayFollows /\ HeldOK /\ CountsOK
  BY DEF DInit, Init, GatewayFollows, HeldOK, CountsOK, Making, Tearing
<1> QED  BY <1>1, <1>2, <1>3 DEF DInv

(* Whatever the driver does is a step of the gateway's life, or none. *)
LEMMA DriverStepIsGatewayStep == [DNext]_dvars => [Next]_vars
<1> SUFFICES ASSUME [DNext]_dvars PROVE Next \/ UNCHANGED vars
  OBVIOUS
<1>1. CASE Factory
  BY <1>1 DEF Factory, Unavailable, FpgaOpen, FpgaFails, FpgaUp, DpdkInit, DpdkFails,
              DpdkUp, MakeSoftware
<1>2. CASE StartCall \/ OpenFeed \/ StartGateway \/ GatewayFails
  BY <1>2 DEF StartCall, OpenFeed, StartGateway, GatewayFails, Next
<1>3. CASE PollTest \/ PollSoftware \/ PollDestroyed \/ PollDpdk \/ Destroy
  BY <1>3 DEF PollTest, PollSoftware, PollDestroyed, PollDpdk, Destroy
<1>4. CASE \E t \in {"main", "ctl"} : StopCall(t) \/ StopStep(t)
  BY <1>4 DEF StopCall, StopStep, FpgaStop, DpdkStop, StopGateway, ResetGateway,
              ResetFeed, Next
<1>5. CASE GatewayStep
  BY <1>5 DEF GatewayStep, Next
<1>6. CASE \E s \in Sessions : Receive(s)
  BY <1>6 DEF Receive, Next
<1>7. CASE UNCHANGED dvars
  BY <1>7 DEF dvars
<1> QED  BY <1>1, <1>2, <1>3, <1>4, <1>5, <1>6, <1>7 DEF DNext

(* The gateway's own threads neither bring it up nor take an idle one down. *)
LEMMA GatewayStepOwner ==
    ASSUME GatewayStep
    PROVE  /\ owner \in {"down", "up"} => owner' = owner
           /\ owner # "up" => owner' # "up"
<1>1. CASE Owner
  BY <1>1 DEF Owner, CloseListener, JoinAcceptor, SwapSessions, StopSession, StopReturn,
              StopShutdown, StopClose, StopClear, StopJoin
<1>2. CASE Acceptor \/ AcceptError
  BY <1>2 DEF Acceptor, AcceptorLoop, AcceptClosed, PushSession, SpawnWorker, AcceptError,
              ownerVars
<1>3. ASSUME NEW s \in Sessions, Accept(s) \/ Worker(s) \/ PeerClose(s) PROVE owner' = owner
  BY <1>3 DEF Accept, Worker, WorkerLoop, RecvEnd, WorkerTest, WorkerShutdown, WorkerClose,
              WorkerClear, PeerClose, ownerVars
<1> QED  BY <1>1, <1>2, <1>3 DEF GatewayStep

(* No step changes a type. *)
LEMMA TypesKept == DInv /\ DNext => DriverTypes'
<1> SUFFICES ASSUME DInv, DNext PROVE DriverTypes'
  OBVIOUS
<1> USE DEF DInv, DriverTypes, Making, Tearing, countVars, Delta
<1>1. CASE Unavailable
  BY <1>1 DEF Unavailable, NextBackend, Go
<1>2. CASE FpgaOpen
  BY <1>2 DEF FpgaOpen, Go
<1>3. CASE FpgaFails
  BY <1>3 DEF FpgaFails, Go
<1>4. CASE FpgaUp
  BY <1>4 DEF FpgaUp, Made, Go
<1>5. CASE DpdkInit
  BY <1>5 DEF DpdkInit, Go
<1>6. CASE DpdkFails
  BY <1>6 DEF DpdkFails, Go
<1>7. CASE DpdkUp
  BY <1>7 DEF DpdkUp, Made, Go
<1>8. CASE MakeSoftware
  BY <1>8 DEF MakeSoftware, Made, Go
<1>9. CASE StartCall
  BY <1>9 DEF StartCall, BothIdle, Go
<1>10. CASE OpenFeed
  BY <1>10 DEF OpenFeed, Go
<1>11. CASE StartGateway
  BY <1>11 DEF StartGateway, Start, Go
<1>12. CASE GatewayFails
  BY <1>12 DEF GatewayFails, Go
<1>13. CASE PollTest
  BY <1>13 DEF PollTest, Go
<1>14. CASE PollSoftware
  BY <1>14 DEF PollSoftware, Go
<1>15. CASE PollDestroyed
  BY <1>15 DEF PollDestroyed, Go
<1>16. CASE PollDpdk
  BY <1>16, OrdersAssumption DEF PollDpdk, Go
<1>17. CASE Destroy
  BY <1>17 DEF Destroy, BothIdle, Go
<1>18. ASSUME NEW t \in {"main", "ctl"}, StopCall(t) PROVE DriverTypes'
  BY <1>18 DEF StopCall, Go
<1>19. ASSUME NEW t \in {"main", "ctl"}, FpgaStop(t) PROVE DriverTypes'
  BY <1>19 DEF FpgaStop, Go
<1>20. ASSUME NEW t \in {"main", "ctl"}, DpdkStop(t) PROVE DriverTypes'
  BY <1>20 DEF DpdkStop, Go
<1>21. ASSUME NEW t \in {"main", "ctl"}, StopGateway(t) PROVE DriverTypes'
  BY <1>21 DEF StopGateway, Stop, Go
<1>22. ASSUME NEW t \in {"main", "ctl"}, ResetGateway(t) PROVE DriverTypes'
  BY <1>22 DEF ResetGateway, Go
<1>23. ASSUME NEW t \in {"main", "ctl"}, ResetFeed(t) PROVE DriverTypes'
  BY <1>23 DEF ResetFeed, Go
<1>24. CASE GatewayStep
  BY <1>24, GatewayStepOwner DEF GatewayStep, driverVars
<1>25. ASSUME NEW s \in Sessions, Receive(s) PROVE DriverTypes'
  BY <1>25 DEF Receive, RecvData, ownerVars
<1> QED
  BY <1>1, <1>2, <1>3, <1>4, <1>5, <1>6, <1>7, <1>8, <1>9, <1>10, <1>11, <1>12,
         <1>13, <1>14, <1>15, <1>16, <1>17, <1>18, <1>19, <1>20, <1>21,
         <1>22, <1>23, <1>24, <1>25
  DEF DNext, Factory, StopStep

(* No step brings two threads into the driver. *)
LEMMA ApartKept == DInv /\ DNext => ThreadsApart'
<1> SUFFICES ASSUME DInv, DNext PROVE ThreadsApart'
  OBVIOUS
<1> USE DEF DInv, DriverTypes, ThreadsApart, Making, Tearing, countVars
<1>1. CASE Unavailable
  BY <1>1 DEF Unavailable, NextBackend, Go
<1>2. CASE FpgaOpen
  BY <1>2 DEF FpgaOpen, Go
<1>3. CASE FpgaFails
  BY <1>3 DEF FpgaFails, Go
<1>4. CASE FpgaUp
  BY <1>4 DEF FpgaUp, Made, Go
<1>5. CASE DpdkInit
  BY <1>5 DEF DpdkInit, Go
<1>6. CASE DpdkFails
  BY <1>6 DEF DpdkFails, Go
<1>7. CASE DpdkUp
  BY <1>7 DEF DpdkUp, Made, Go
<1>8. CASE MakeSoftware
  BY <1>8 DEF MakeSoftware, Made, Go
<1>9. CASE StartCall
  BY <1>9 DEF StartCall, BothIdle, Go
<1>10. CASE OpenFeed
  BY <1>10 DEF OpenFeed, Go
<1>11. CASE StartGateway
  BY <1>11 DEF StartGateway, Start, Go
<1>12. CASE GatewayFails
  BY <1>12 DEF GatewayFails, Go
<1>13. CASE PollTest
  BY <1>13 DEF PollTest, Go
<1>14. CASE PollSoftware
  BY <1>14 DEF PollSoftware, Go
<1>15. CASE PollDestroyed
  BY <1>15 DEF PollDestroyed, Go
<1>16. CASE PollDpdk
  BY <1>16 DEF PollDpdk, Go
<1>17. CASE Destroy
  BY <1>17 DEF Destroy, BothIdle, Go
<1>18. ASSUME NEW t \in {"main", "ctl"}, StopCall(t) PROVE ThreadsApart'
  BY <1>18 DEF StopCall, Go
<1>19. ASSUME NEW t \in {"main", "ctl"}, FpgaStop(t) PROVE ThreadsApart'
  BY <1>19 DEF FpgaStop, Go
<1>20. ASSUME NEW t \in {"main", "ctl"}, DpdkStop(t) PROVE ThreadsApart'
  BY <1>20 DEF DpdkStop, Go
<1>21. ASSUME NEW t \in {"main", "ctl"}, StopGateway(t) PROVE ThreadsApart'
  BY <1>21 DEF StopGateway, Stop, Go
<1>22. ASSUME NEW t \in {"main", "ctl"}, ResetGateway(t) PROVE ThreadsApart'
  BY <1>22 DEF ResetGateway, Go
<1>23. ASSUME NEW t \in {"main", "ctl"}, ResetFeed(t) PROVE ThreadsApart'
  BY <1>23 DEF ResetFeed, Go
<1>24. CASE GatewayStep
  BY <1>24, GatewayStepOwner DEF GatewayStep, driverVars
<1>25. ASSUME NEW s \in Sessions, Receive(s) PROVE ThreadsApart'
  BY <1>25 DEF Receive, RecvData, ownerVars
<1> QED
  BY <1>1, <1>2, <1>3, <1>4, <1>5, <1>6, <1>7, <1>8, <1>9, <1>10, <1>11, <1>12,
         <1>13, <1>14, <1>15, <1>16, <1>17, <1>18, <1>19, <1>20, <1>21,
         <1>22, <1>23, <1>24, <1>25
  DEF DNext, Factory, StopStep

(* No step separates the driver from its gateway. *)
LEMMA FollowsKept == DInv /\ DNext => GatewayFollows'
<1> SUFFICES ASSUME DInv, DNext PROVE GatewayFollows'
  OBVIOUS
<1> USE DEF DInv, DriverTypes, ThreadsApart, Making, Tearing, countVars, vars, ownerVars,
           GatewayFollows
<1>1. CASE Unavailable
  BY <1>1 DEF Unavailable, NextBackend, Go
<1>2. CASE FpgaOpen
  BY <1>2 DEF FpgaOpen, Go
<1>3. CASE FpgaFails
  BY <1>3 DEF FpgaFails, Go
<1>4. CASE FpgaUp
  BY <1>4 DEF FpgaUp, Made, Go
<1>5. CASE DpdkInit
  BY <1>5 DEF DpdkInit, Go
<1>6. CASE DpdkFails
  BY <1>6 DEF DpdkFails, Go
<1>7. CASE DpdkUp
  BY <1>7 DEF DpdkUp, Made, Go
<1>8. CASE MakeSoftware
  BY <1>8 DEF MakeSoftware, Made, Go
<1>9. CASE StartCall
  BY <1>9 DEF StartCall, BothIdle, Go
<1>10. CASE OpenFeed
  BY <1>10 DEF OpenFeed, Go
<1>11. CASE StartGateway
  BY <1>11 DEF StartGateway, Start, Go
<1>12. CASE GatewayFails
  BY <1>12 DEF GatewayFails, Go
<1>13. CASE PollTest
  BY <1>13 DEF PollTest, Go
<1>14. CASE PollSoftware
  BY <1>14 DEF PollSoftware, Go
<1>15. CASE PollDestroyed
  BY <1>15 DEF PollDestroyed, Go
<1>16. CASE PollDpdk
  BY <1>16 DEF PollDpdk, Go
<1>17. CASE Destroy
  BY <1>17 DEF Destroy, BothIdle, Go
<1>18. ASSUME NEW t \in {"main", "ctl"}, StopCall(t) PROVE GatewayFollows'
  BY <1>18 DEF StopCall, Go
<1>19. ASSUME NEW t \in {"main", "ctl"}, FpgaStop(t) PROVE GatewayFollows'
  BY <1>19 DEF FpgaStop, Go
<1>20. ASSUME NEW t \in {"main", "ctl"}, DpdkStop(t) PROVE GatewayFollows'
  BY <1>20 DEF DpdkStop, Go
<1>21. ASSUME NEW t \in {"main", "ctl"}, StopGateway(t) PROVE GatewayFollows'
  BY <1>21 DEF StopGateway, Stop, Go
<1>22. ASSUME NEW t \in {"main", "ctl"}, ResetGateway(t) PROVE GatewayFollows'
  BY <1>22 DEF ResetGateway, Go
<1>23. ASSUME NEW t \in {"main", "ctl"}, ResetFeed(t) PROVE GatewayFollows'
  BY <1>23 DEF ResetFeed, Go
<1>24. CASE GatewayStep
  BY <1>24, GatewayStepOwner DEF GatewayStep, driverVars
<1>25. ASSUME NEW s \in Sessions, Receive(s) PROVE GatewayFollows'
  BY <1>25 DEF Receive, RecvData, ownerVars
<1> QED
  BY <1>1, <1>2, <1>3, <1>4, <1>5, <1>6, <1>7, <1>8, <1>9, <1>10, <1>11, <1>12,
         <1>13, <1>14, <1>15, <1>16, <1>17, <1>18, <1>19, <1>20, <1>21,
         <1>22, <1>23, <1>24, <1>25
  DEF DNext, Factory, StopStep

(* No step takes or keeps what another kind of driver owns. *)
LEMMA HeldKept == DInv /\ DNext => HeldOK'
<1> SUFFICES ASSUME DInv, DNext PROVE HeldOK'
  OBVIOUS
<1> USE DEF DInv, DriverTypes, ThreadsApart, Making, Tearing, countVars, HeldOK
<1>1. CASE Unavailable
  BY <1>1 DEF Unavailable, NextBackend, Go
<1>2. CASE FpgaOpen
  BY <1>2 DEF FpgaOpen, Go
<1>3. CASE FpgaFails
  BY <1>3 DEF FpgaFails, Go
<1>4. CASE FpgaUp
  BY <1>4 DEF FpgaUp, Made, Go
<1>5. CASE DpdkInit
  BY <1>5 DEF DpdkInit, Go
<1>6. CASE DpdkFails
  BY <1>6 DEF DpdkFails, Go
<1>7. CASE DpdkUp
  BY <1>7 DEF DpdkUp, Made, Go
<1>8. CASE MakeSoftware
  BY <1>8 DEF MakeSoftware, Made, Go
<1>9. CASE StartCall
  BY <1>9 DEF StartCall, BothIdle, Go
<1>10. CASE OpenFeed
  BY <1>10 DEF OpenFeed, Go
<1>11. CASE StartGateway
  BY <1>11 DEF StartGateway, Start, Go
<1>12. CASE GatewayFails
  BY <1>12 DEF GatewayFails, Go
<1>13. CASE PollTest
  BY <1>13 DEF PollTest, Go
<1>14. CASE PollSoftware
  BY <1>14 DEF PollSoftware, Go
<1>15. CASE PollDestroyed
  BY <1>15 DEF PollDestroyed, Go
<1>16. CASE PollDpdk
  BY <1>16 DEF PollDpdk, Go
<1>17. CASE Destroy
  BY <1>17 DEF Destroy, BothIdle, Go
<1>18. ASSUME NEW t \in {"main", "ctl"}, StopCall(t) PROVE HeldOK'
  BY <1>18 DEF StopCall, Go
<1>19. ASSUME NEW t \in {"main", "ctl"}, FpgaStop(t) PROVE HeldOK'
  BY <1>19 DEF FpgaStop, Go
<1>20. ASSUME NEW t \in {"main", "ctl"}, DpdkStop(t) PROVE HeldOK'
  BY <1>20 DEF DpdkStop, Go
<1>21. ASSUME NEW t \in {"main", "ctl"}, StopGateway(t) PROVE HeldOK'
  BY <1>21 DEF StopGateway, Stop, Go
<1>22. ASSUME NEW t \in {"main", "ctl"}, ResetGateway(t) PROVE HeldOK'
  BY <1>22 DEF ResetGateway, Go
<1>23. ASSUME NEW t \in {"main", "ctl"}, ResetFeed(t) PROVE HeldOK'
  BY <1>23 DEF ResetFeed, Go
<1>24. CASE GatewayStep
  BY <1>24, GatewayStepOwner DEF GatewayStep, driverVars
<1>25. ASSUME NEW s \in Sessions, Receive(s) PROVE HeldOK'
  BY <1>25 DEF Receive, RecvData, ownerVars
<1> QED
  BY <1>1, <1>2, <1>3, <1>4, <1>5, <1>6, <1>7, <1>8, <1>9, <1>10, <1>11, <1>12,
         <1>13, <1>14, <1>15, <1>16, <1>17, <1>18, <1>19, <1>20, <1>21,
         <1>22, <1>23, <1>24, <1>25
  DEF DNext, Factory, StopStep

(* No step reports what was not received. *)
LEMMA CountsKept == DInv /\ DNext => CountsOK'
<1> SUFFICES ASSUME DInv, DNext PROVE CountsOK'
  OBVIOUS
<1> USE DEF DInv, DriverTypes, ThreadsApart, Making, Tearing, countVars, CountsOK, Delta
<1>1. CASE Unavailable
  BY <1>1 DEF Unavailable, NextBackend, Go
<1>2. CASE FpgaOpen
  BY <1>2 DEF FpgaOpen, Go
<1>3. CASE FpgaFails
  BY <1>3 DEF FpgaFails, Go
<1>4. CASE FpgaUp
  BY <1>4 DEF FpgaUp, Made, Go
<1>5. CASE DpdkInit
  BY <1>5 DEF DpdkInit, Go
<1>6. CASE DpdkFails
  BY <1>6 DEF DpdkFails, Go
<1>7. CASE DpdkUp
  BY <1>7 DEF DpdkUp, Made, Go
<1>8. CASE MakeSoftware
  BY <1>8 DEF MakeSoftware, Made, Go
<1>9. CASE StartCall
  BY <1>9 DEF StartCall, BothIdle, Go
<1>10. CASE OpenFeed
  BY <1>10 DEF OpenFeed, Go
<1>11. CASE StartGateway
  BY <1>11 DEF StartGateway, Start, Go
<1>12. CASE GatewayFails
  BY <1>12 DEF GatewayFails, Go
<1>13. CASE PollTest
  BY <1>13 DEF PollTest, Go
<1>14. CASE PollSoftware
  BY <1>14 DEF PollSoftware, Go
<1>15. CASE PollDestroyed
  BY <1>15 DEF PollDestroyed, Go
<1>16. CASE PollDpdk
  BY <1>16, OrdersAssumption DEF PollDpdk, Go
<1>17. CASE Destroy
  BY <1>17 DEF Destroy, BothIdle, Go
<1>18. ASSUME NEW t \in {"main", "ctl"}, StopCall(t) PROVE CountsOK'
  BY <1>18 DEF StopCall, Go
<1>19. ASSUME NEW t \in {"main", "ctl"}, FpgaStop(t) PROVE CountsOK'
  BY <1>19 DEF FpgaStop, Go
<1>20. ASSUME NEW t \in {"main", "ctl"}, DpdkStop(t) PROVE CountsOK'
  BY <1>20 DEF DpdkStop, Go
<1>21. ASSUME NEW t \in {"main", "ctl"}, StopGateway(t) PROVE CountsOK'
  BY <1>21 DEF StopGateway, Stop, Go
<1>22. ASSUME NEW t \in {"main", "ctl"}, ResetGateway(t) PROVE CountsOK'
  BY <1>22 DEF ResetGateway, Go
<1>23. ASSUME NEW t \in {"main", "ctl"}, ResetFeed(t) PROVE CountsOK'
  BY <1>23 DEF ResetFeed, Go
<1>24. CASE GatewayStep
  BY <1>24, GatewayStepOwner DEF GatewayStep, driverVars
<1>25. ASSUME NEW s \in Sessions, Receive(s) PROVE CountsOK'
  BY <1>25 DEF Receive, RecvData, ownerVars
<1> QED
  BY <1>1, <1>2, <1>3, <1>4, <1>5, <1>6, <1>7, <1>8, <1>9, <1>10, <1>11, <1>12,
         <1>13, <1>14, <1>15, <1>16, <1>17, <1>18, <1>19, <1>20, <1>21,
         <1>22, <1>23, <1>24, <1>25
  DEF DNext, Factory, StopStep

(* The invariant of the composition, for every set of sessions. *)
THEOREM DriverInvariant == DSpec => []DInv
<1>1. DInit => DInv
  BY DriverInit
<1>2. ASSUME DInv, [DNext]_dvars PROVE DInv'
  <2>1. IInv'
    BY <1>2, DriverStepIsGatewayStep, NextInvariant DEF DInv
  <2>2. CASE DNext
    BY <1>2, <2>1, <2>2, TypesKept, ApartKept, FollowsKept, HeldKept, CountsKept DEF DInv
  <2>3. CASE UNCHANGED dvars
    <3>1. DriverTypes' /\ ThreadsApart'
      BY <1>2, <2>3 DEF dvars, driverVars, countVars, DInv, DriverTypes, ThreadsApart
    <3>2. GatewayFollows' /\ HeldOK' /\ CountsOK'
      BY <1>2, <2>3 DEF dvars, driverVars, countVars, vars, ownerVars, DInv, GatewayFollows,
                        HeldOK, CountsOK, Delta
    <3> QED  BY <2>1, <3>1, <3>2 DEF DInv
  <2> QED  BY <1>2, <2>2, <2>3
<1> QED  BY <1>1, <1>2, PTL DEF DSpec

(* Two calls of stop() never tear one driver down together: the exchange of *)
(* running_ lets one of them through.                                       *)
THEOREM OneTeardown == DSpec => []TeardownOnce
<1>1. DInv => TeardownOnce
  BY DEF DInv, ThreadsApart, TeardownOnce, Stopping, Tearing
<1> QED  BY <1>1, DriverInvariant, PTL

(* A stopped or destroyed driver holds nothing but, after a DPDK start that *)
(* failed, the EAL, and after a failed start() of the software driver its   *)
(* feed.                                                                    *)
THEOREM EverythingReleased == DSpec => []Released
<1>1. ASSUME DInv PROVE Released
  <2>1. kind = "none" /\ at.main # "map" => held \subseteq {"eal"} /\ ~gw
    BY <1>1 DEF DInv, ThreadsApart, HeldOK
  <2>2. BothIdle /\ ~drv => owner = "down" /\ held \subseteq {"eal", "feed"}
    BY <1>1 DEF DInv, DriverTypes, ThreadsApart, GatewayFollows, HeldOK, BothIdle, Making, Tearing
  <2> QED  BY <2>1, <2>2 DEF Released
<1> QED  BY <1>1, DriverInvariant, PTL

(* poll() never reports an order that was not received, over any number of  *)
(* restarts.                                                                *)
THEOREM NothingOverReported == DSpec => []PollNeverOverReports
<1>1. DInv => PollNeverOverReports
  BY DEF DInv, DriverTypes, CountsOK, PollNeverOverReports
<1> QED  BY <1>1, DriverInvariant, PTL

(* The feed is destroyed only when every thread that may publish to it has  *)
(* been joined.                                                             *)
THEOREM FeedSafe == DSpec => FeedOutlivesWorkers
<1> DEFINE Gone == acceptor = "none" /\ \A s \in Sessions : worker[s] \in {"none", "ended"}
<1>1. ASSUME DInv, owner = "down" PROVE Gone
  BY <1>1 DEF DInv, IInv, ThreadsOK, SessionsOK, AcceptorJoined
<1>2. ASSUME DInv, [DNext]_dvars, "feed" \in held, "feed" \notin held' PROVE Gone
  <2>1. DNext
    BY <1>2 DEF dvars, driverVars
  <2>2. kind = "software"
    BY <1>2 DEF DInv, DriverTypes, HeldOK
  <2>3. CASE OpenFeed
    BY <1>1, <1>2, <2>3 DEF OpenFeed, DInv, GatewayFollows
  <2>4. CASE Destroy
    BY <1>1, <1>2, <2>2, <2>4 DEF Destroy, BothIdle, Tearing, DInv, GatewayFollows
  <2>5. ASSUME NEW t \in {"main", "ctl"}, ResetFeed(t) PROVE Gone
    BY <1>1, <1>2, <2>5 DEF ResetFeed, DInv, GatewayFollows
  <2>6. CASE Factory
    BY <2>2, <2>6, <1>2 DEF Factory, Unavailable, NextBackend, FpgaOpen, FpgaFails, FpgaUp,
       DpdkInit, DpdkFails, DpdkUp, MakeSoftware, DInv, ThreadsApart, Making
  <2>7. CASE \/ StartCall \/ StartGateway \/ GatewayFails \/ PollTest \/ PollSoftware
             \/ PollDestroyed \/ PollDpdk \/ GatewayStep \/ \E s \in Sessions : Receive(s)
    BY <1>2, <2>7 DEF StartCall, StartGateway, GatewayFails, PollTest, PollSoftware,
       PollDestroyed, PollDpdk, GatewayStep, Receive, driverVars
  <2>8. ASSUME NEW t \in {"main", "ctl"},
               StopCall(t) \/ FpgaStop(t) \/ DpdkStop(t) \/ StopGateway(t) \/ ResetGateway(t)
        PROVE  Gone
    BY <1>2, <2>8 DEF StopCall, FpgaStop, DpdkStop, StopGateway, ResetGateway
  <2> QED  BY <2>1, <2>3, <2>4, <2>5, <2>6, <2>7, <2>8 DEF DNext, StopStep
<1>3. DInv /\ [DNext]_dvars =>
        [ "feed" \in held /\ "feed" \notin held' =>
            acceptor = "none" /\ \A s \in Sessions : worker[s] \in {"none", "ended"} ]_dvars
  BY <1>2
<1> QED  BY <1>3, DriverInvariant, PTL DEF DSpec, FeedOutlivesWorkers
=============================================================================
