--------------------------- MODULE GatewayLifecycle ---------------------------
(***************************************************************************)
(* Starting and stopping hft::fix::Gateway (mvp/src/fix/gateway.cpp): the   *)
(* thread that owns the gateway calls start() and stop(), the acceptor      *)
(* thread turns connections into sessions, and every session has a worker   *)
(* thread.  What a worker does with its frames is the subject of Gateway;   *)
(* here it only matters that a handler may end the session.                 *)
(***************************************************************************)
EXTENDS Naturals, FiniteSets

CONSTANTS Sessions,  \* the sessions that may ever be accepted
          Nobody     \* no session

ASSUME NobodyAssumption == Nobody \notin Sessions

VARIABLES running,   \* running_
          listening, \* is listen_fd_ an open socket?
          owner,     \* where the owner thread is in start() and stop()
          snapshot,  \* stop()'s local copy of the sessions, not yet joined
          target,    \* the session stop() is shutting down
          acceptor,  \* where the acceptor thread is
          accepting, \* the session the acceptor is setting up
          sessions,  \* sessions_
          worker,    \* where the worker of each session is
          alive,     \* Session::running
          hasFd,     \* is Session::fd >= 0?
          conn,      \* the connection itself: "none", "open", "shut" or "closed"
          closes     \* history: how often close() was called on it

ownerVars    == <<running, listening, owner, snapshot, target>>
acceptorVars == <<acceptor, accepting>>
sessionVars  == <<alive, hasFd, conn, closes>>
vars == <<ownerVars, acceptorVars, sessions, worker, sessionVars>>

-----------------------------------------------------------------------------
Init ==
    /\ running = FALSE /\ listening = FALSE
    /\ owner = "down" /\ snapshot = {} /\ target = Nobody
    /\ acceptor = "none" /\ accepting = Nobody
    /\ sessions = {}
    /\ worker = [s \in Sessions |-> "none"]
    /\ alive = [s \in Sessions |-> TRUE]
    /\ hasFd = [s \in Sessions |-> FALSE]
    /\ conn = [s \in Sessions |-> "none"]
    /\ closes = [s \in Sessions |-> 0]

(* start(): the socket listens, then the acceptor runs.  A start() that     *)
(* fails on the way closes the socket again and changes nothing.            *)
Start ==
    /\ owner = "down"
    /\ owner' = "up" /\ running' = TRUE /\ listening' = TRUE
    /\ acceptor' = "loop"
    /\ UNCHANGED <<snapshot, target, accepting, sessions, worker, sessionVars>>

(* stop(): running_.exchange(false).  A stop() of a gateway that is down    *)
(* returns here and changes nothing.                                        *)
Stop ==
    /\ owner = "up"
    /\ owner' = "listener" /\ running' = FALSE
    /\ UNCHANGED <<listening, snapshot, target, acceptorVars, sessions, worker, sessionVars>>

CloseListener ==
    /\ owner = "listener"
    /\ owner' = "acceptor" /\ listening' = FALSE
    /\ UNCHANGED <<running, snapshot, target, acceptorVars, sessions, worker, sessionVars>>

(* Mutant: the acceptor is not waited for. *)
JoinAcceptor_NoWait ==
    /\ owner = "acceptor" /\ owner' = "swap"
    /\ UNCHANGED <<running, listening, snapshot, target, acceptorVars, sessions,
                   worker, sessionVars>>

JoinAcceptor ==
    /\ owner = "acceptor" /\ acceptor = "ended"
    /\ owner' = "swap" /\ acceptor' = "none"
    /\ UNCHANGED <<running, listening, snapshot, target, accepting, sessions, worker, sessionVars>>

(* snapshot.swap(sessions_) under sessions_mu_. *)
SwapSessions ==
    /\ owner = "swap"
    /\ owner' = "next" /\ snapshot' = sessions /\ sessions' = {}
    /\ UNCHANGED <<running, listening, target, acceptorVars, worker, sessionVars>>

(* Mutant: the worker is joined without waking it. *)
StopSession_NoShutdown(s) ==
    /\ owner = "next" /\ s \in snapshot
    /\ target' = s /\ alive' = [alive EXCEPT ![s] = FALSE]
    /\ owner' = "join"
    /\ UNCHANGED <<running, listening, snapshot, acceptorVars, sessions, worker,
                   hasFd, conn, closes>>

(* The loop over the snapshot; the order is of no consequence. *)
StopSession(s) ==
    /\ owner = "next" /\ s \in snapshot
    /\ target' = s /\ alive' = [alive EXCEPT ![s] = FALSE]
    /\ owner' = IF hasFd[s] THEN "shutdown" ELSE "join"
    /\ UNCHANGED <<running, listening, snapshot, acceptorVars, sessions, worker,
                   hasFd, conn, closes>>

(* The end of the loop: stop() returns. *)
StopReturn ==
    /\ owner = "next" /\ snapshot = {}
    /\ owner' = "down"
    /\ UNCHANGED <<running, listening, snapshot, target, acceptorVars, sessions, worker, sessionVars>>

(* shutdown(s->fd), close(s->fd) and s->fd = -1.  Each call reads fd anew,   *)
(* and does nothing to the connection when it finds -1.                     *)
ShutdownFd(s) ==
    /\ conn' = [conn EXCEPT ![s] = IF hasFd[s] /\ @ = "open" THEN "shut" ELSE @]
    /\ UNCHANGED <<alive, hasFd, closes>>

CloseFd(s) ==
    /\ conn' = [conn EXCEPT ![s] = IF hasFd[s] THEN "closed" ELSE @]
    /\ closes' = [closes EXCEPT ![s] = IF hasFd[s] THEN @ + 1 ELSE @]
    /\ UNCHANGED <<alive, hasFd>>

ClearFd(s) ==
    /\ hasFd' = [hasFd EXCEPT ![s] = FALSE]
    /\ UNCHANGED <<alive, conn, closes>>

StopShutdown ==
    /\ owner = "shutdown" /\ owner' = "close"
    /\ ShutdownFd(target)
    /\ UNCHANGED <<running, listening, snapshot, target, acceptorVars, sessions, worker>>

StopClose ==
    /\ owner = "close" /\ owner' = "clear"
    /\ CloseFd(target)
    /\ UNCHANGED <<running, listening, snapshot, target, acceptorVars, sessions, worker>>

StopClear ==
    /\ owner = "clear" /\ owner' = "join"
    /\ ClearFd(target)
    /\ UNCHANGED <<running, listening, snapshot, target, acceptorVars, sessions, worker>>

(* s->worker.join(), if there is a thread to join. *)
StopJoin ==
    /\ owner = "join" /\ worker[target] \in {"none", "ended"}
    /\ owner' = "next" /\ snapshot' = snapshot \ {target} /\ target' = Nobody
    /\ UNCHANGED <<running, listening, acceptorVars, sessions, worker, sessionVars>>

Owner ==
    \/ CloseListener \/ JoinAcceptor \/ SwapSessions
    \/ \E s \in Sessions : StopSession(s)
    \/ StopReturn \/ StopShutdown \/ StopClose \/ StopClear \/ StopJoin

-----------------------------------------------------------------------------
(* The loop condition of acceptor_loop(). *)
AcceptorLoop ==
    /\ acceptor = "loop"
    /\ acceptor' = IF running THEN "accept" ELSE "ended"
    /\ UNCHANGED <<ownerVars, accepting, sessions, worker, sessionVars>>

(* accept() returns a connection, which gets a Session of its own. *)
Accept(s) ==
    /\ acceptor = "accept" /\ listening /\ conn[s] = "none"
    /\ acceptor' = "push" /\ accepting' = s
    /\ conn' = [conn EXCEPT ![s] = "open"]
    /\ hasFd' = [hasFd EXCEPT ![s] = TRUE]
    /\ UNCHANGED <<ownerVars, sessions, worker, alive, closes>>

(* accept() finds the listener closed: stop() has cleared running_ before. *)
AcceptClosed ==
    /\ acceptor = "accept" /\ ~listening
    /\ acceptor' = "ended"
    /\ UNCHANGED <<ownerVars, accepting, sessions, worker, sessionVars>>

(* accept() fails for another reason.  Only an interrupted accept() of a    *)
(* running gateway is tried again; any other error ends the acceptor.       *)
AcceptError ==
    /\ acceptor = "accept" /\ listening
    /\ \/ acceptor' = "ended"
       \/ running /\ acceptor' = "loop"
    /\ UNCHANGED <<ownerVars, accepting, sessions, worker, sessionVars>>

(* sessions_.push_back(sess) under sessions_mu_. *)
PushSession ==
    /\ acceptor = "push" /\ acceptor' = "spawn"
    /\ sessions' = sessions \cup {accepting}
    /\ UNCHANGED <<ownerVars, accepting, worker, sessionVars>>

SpawnWorker ==
    /\ acceptor = "spawn" /\ acceptor' = "loop" /\ accepting' = Nobody
    /\ worker' = [worker EXCEPT ![accepting] = "loop"]
    /\ UNCHANGED <<ownerVars, sessions, sessionVars>>

Acceptor == AcceptorLoop \/ AcceptClosed \/ PushSession \/ SpawnWorker

-----------------------------------------------------------------------------
(* The loop condition of session_loop(). *)
WorkerLoop(s) ==
    /\ worker[s] = "loop"
    /\ worker' = [worker EXCEPT ![s] = IF alive[s] /\ running THEN "recv" ELSE "test"]
    /\ UNCHANGED <<ownerVars, acceptorVars, sessions, sessionVars>>

(* recv() returns data, and the handlers leave the session up or end it. *)
RecvData(s) ==
    /\ worker[s] = "recv" /\ hasFd[s] /\ conn[s] = "open"
    /\ worker' = [worker EXCEPT ![s] = "loop"]
    /\ \E up \in {alive[s], FALSE} : alive' = [alive EXCEPT ![s] = up]
    /\ UNCHANGED <<ownerVars, acceptorVars, sessions, hasFd, conn, closes>>

(* recv() returns 0 or an error. *)
RecvEnd(s) ==
    /\ worker[s] = "recv" /\ (~hasFd[s] \/ conn[s] # "open")
    /\ worker' = [worker EXCEPT ![s] = "test"]
    /\ UNCHANGED <<ownerVars, acceptorVars, sessions, sessionVars>>

(* if (s->fd >= 0) at the end of session_loop(). *)
WorkerTest(s) ==
    /\ worker[s] = "test"
    /\ worker' = [worker EXCEPT ![s] = IF hasFd[s] THEN "shutdown" ELSE "ended"]
    /\ UNCHANGED <<ownerVars, acceptorVars, sessions, sessionVars>>

WorkerShutdown(s) ==
    /\ worker[s] = "shutdown" /\ worker' = [worker EXCEPT ![s] = "close"]
    /\ ShutdownFd(s)
    /\ UNCHANGED <<ownerVars, acceptorVars, sessions>>

WorkerClose(s) ==
    /\ worker[s] = "close" /\ worker' = [worker EXCEPT ![s] = "clear"]
    /\ CloseFd(s)
    /\ UNCHANGED <<ownerVars, acceptorVars, sessions>>

WorkerClear(s) ==
    /\ worker[s] = "clear" /\ worker' = [worker EXCEPT ![s] = "ended"]
    /\ ClearFd(s)
    /\ UNCHANGED <<ownerVars, acceptorVars, sessions>>

Worker(s) ==
    \/ WorkerLoop(s) \/ RecvEnd(s)
    \/ WorkerTest(s) \/ WorkerShutdown(s) \/ WorkerClose(s) \/ WorkerClear(s)

(* The client closes its end. *)
PeerClose(s) ==
    /\ conn[s] = "open"
    /\ conn' = [conn EXCEPT ![s] = "shut"]
    /\ UNCHANGED <<ownerVars, acceptorVars, sessions, worker, alive, hasFd, closes>>

Next ==
    \/ Start \/ Stop \/ Owner \/ Acceptor \/ AcceptError
    \/ \E s \in Sessions : Accept(s) \/ Worker(s) \/ RecvData(s) \/ PeerClose(s)

(* The threads are scheduled fairly.  Nobody has to call start() or stop(), *)
(* no connection and no data have to arrive, and accept() need not fail.    *)
Fairness ==
    /\ WF_vars(Owner) /\ WF_vars(Acceptor)
    /\ \A s \in Sessions : WF_vars(Worker(s))

Spec == Init /\ [][Next]_vars /\ Fairness

-----------------------------------------------------------------------------
(* Past this point of stop() the acceptor has been joined. *)
AcceptorJoined == owner \in {"swap", "next", "shutdown", "close", "clear", "join", "down"}

(* The variables have the types of the code's members and locals. *)
TypeOK ==
    /\ running \in BOOLEAN /\ listening \in BOOLEAN
    /\ owner \in {"down", "up", "listener", "acceptor", "swap", "next",
                  "shutdown", "close", "clear", "join"}
    /\ snapshot \subseteq Sessions /\ sessions \subseteq Sessions
    /\ target \in Sessions \cup {Nobody}
    /\ acceptor \in {"none", "loop", "accept", "push", "spawn", "ended"}
    /\ accepting \in Sessions \cup {Nobody}
    /\ worker \in [Sessions -> {"none", "loop", "recv", "test", "shutdown",
                               "close", "clear", "ended"}]
    /\ alive \in [Sessions -> BOOLEAN] /\ hasFd \in [Sessions -> BOOLEAN]
    /\ conn \in [Sessions -> {"none", "open", "shut", "closed"}]
    /\ closes \in [Sessions -> Nat]

(* Once stop() has returned no thread of the gateway is left and no         *)
(* descriptor is leaked: the acceptor is joined, every worker has ended,    *)
(* the listener and every connection ever accepted are closed, and          *)
(* sessions_ is empty ("Stop + join all threads", gateway.h).               *)
StopJoinsAll ==
    owner = "down" =>
        /\ acceptor = "none" /\ ~listening /\ sessions = {}
        /\ \A s \in Sessions : /\ worker[s] \in {"none", "ended"}
                              /\ conn[s] \in {"none", "closed"}

(* stop() never looks at a session whose thread the acceptor has not yet    *)
(* assigned to Session::worker: push_back comes before the assignment, but  *)
(* stop() joins the acceptor before it takes the sessions.                  *)
WorkerAssigned == \A s \in snapshot : worker[s] # "none"

(* A worker that runs can be found by stop(): its session is in sessions_   *)
(* or in the snapshot, so none outlives the gateway.                        *)
NoOrphanWorker ==
    \A s \in Sessions :
        worker[s] \notin {"none", "ended"} => s \in sessions \cup snapshot

(* A connection is closed by one close(), whichever of the worker and       *)
(* stop() gets there first: the comment on Session says that the fd they    *)
(* share is atomic (gateway.h:58-59).                                       *)
ClosedOnce == \A s \in Sessions : closes[s] <= 1

-----------------------------------------------------------------------------
(* The progress of the three kinds of threads fits together. *)
ThreadsOK ==
    /\ running <=> owner = "up"
    /\ listening <=> owner \in {"up", "listener"}
    /\ AcceptorJoined <=> acceptor = "none"
    /\ accepting # Nobody <=> acceptor \in {"push", "spawn"}
    /\ target # Nobody <=> owner \in {"shutdown", "close", "clear", "join"}
    /\ target # Nobody => target \in snapshot
    /\ AcceptorJoined /\ owner # "swap" => sessions = {}
    /\ owner \in {"down", "up", "listener", "acceptor", "swap"} => snapshot = {}
    /\ acceptor = "spawn" => accepting \in sessions

(* Every session is where stop() will find it, with its thread. *)
SessionsOK ==
    /\ accepting # Nobody => /\ worker[accepting] = "none"
                             /\ conn[accepting] # "none"
    /\ \A s \in Sessions :
         /\ s \in (sessions \ {accepting}) \cup snapshot => worker[s] # "none"
         /\ worker[s] \notin {"none", "ended"} => s \in sessions \cup snapshot
         /\ worker[s] # "none" => conn[s] # "none"
         /\ conn[s] # "none" => worker[s] # "none" \/ s = accepting

(* A connection is closed before its fd is cleared. *)
FdsOK ==
    /\ owner = "clear" => conn[target] = "closed"
    /\ owner = "join" => ~hasFd[target]
    /\ \A s \in Sessions :
         /\ ~hasFd[s] => conn[s] \in {"none", "closed"}
         /\ worker[s] = "clear" => conn[s] = "closed"
         /\ worker[s] = "ended" => ~hasFd[s]

(* The inductive invariant. *)
IInv == TypeOK /\ ThreadsOK /\ SessionsOK /\ FdsOK
=============================================================================
