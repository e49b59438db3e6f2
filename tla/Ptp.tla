--------------------------------- MODULE Ptp ---------------------------------
(***************************************************************************)
(* hft::ptp::PtpClient (mvp/src/ptp/ptp_client.cpp) and the mock oracle it  *)
(* talks to (ptp_oracle.cpp): a thread that averages clock offsets, any     *)
(* number of threads that call sample() for themselves, one owner that      *)
(* starts and stops the client, and a network that delays, loses and        *)
(* duplicates datagrams.  Clocks do not drift: the master's clock is Theta  *)
(* ahead of steady_clock, CLOCK_REALTIME is Real ahead of it.               *)
(***************************************************************************)
EXTENDS CppInt, FiniteSets

CONSTANTS Config,      \* cfg_.backend
          Users,       \* threads that call sample()
          Ports,       \* ports the kernel hands out, again after a close()
          Theta, Real,
          AlphaDiv,    \* 1 / ewma_alpha
          HasPhc,      \* built with HFT_PTP on Linux?
          MaxNow,      \* bound: the last instant
          MaxNet       \* bound: datagrams under way at once

ASSUME PtpAssumption ==
    /\ Config \in {"auto", "phc", "ptp4l", "mock"}
    /\ Theta \in Int /\ Real \in Int /\ AlphaDiv \in Nat \ {0}
    /\ HasPhc \in BOOLEAN /\ MaxNow \in Nat /\ MaxNet \in Nat /\ "sync" \notin Users

VARIABLES now,         \* steady_clock
          active,      \* active_
          running,     \* running_
          owner,       \* the thread that calls start() and stop()
          sync,        \* where sync_thread_ is
          ex,          \* the exchange each thread is in
          net, oracle, \* datagrams under way; the request the oracle is at
          offset,      \* offset_ewma_ns_
          sampled,     \* sample_count_ # 0
          used, worst  \* history: backends averaged so far, the worst error of a sample

syncVars   == <<offset, sampled, used, worst>>
clientVars == <<active, running, owner>>
vars == <<now, clientVars, sync, ex, net, oracle, syncVars>>

Threads  == Users \cup {"sync"}
Backends == {"phc", "ptp4l", "mock"}

(* The clock a backend measures against, as an offset. *)
Target(b) == IF b = "phc" THEN Theta - Real ELSE Theta

Invalid == [valid |-> FALSE]
Idle == [at |-> "idle"]
Done(s) == [at |-> "done", s |-> s]
Step(th, e) == ex' = [ex EXCEPT ![th] = e]

Init ==
    /\ now = 0 /\ active = "mock"
    /\ running = FALSE /\ owner = "idle" /\ sync = "none"
    /\ ex = [th \in Threads |-> Idle] /\ net = {} /\ oracle = Idle
    /\ offset = 0 /\ sampled = FALSE /\ used = {} /\ worst = 0

Tick ==
    /\ now < MaxNow /\ now' = now + 1
    /\ UNCHANGED <<clientVars, sync, ex, net, oracle, syncVars>>

-----------------------------------------------------------------------------
(* resolve_backend(): what access() finds may change from call to call. *)
Resolve == IF Config # "auto" THEN {Config}
           ELSE (IF HasPhc THEN {"phc"} ELSE {}) \cup {"ptp4l", "mock"}

(* start(); assigning to a std::thread that was not joined would terminate. *)
Start ==
    /\ owner = "idle" /\ ~running
    /\ running' = TRUE /\ active' \in Resolve
    /\ sync' = "test" /\ owner' = IF sync = "none" THEN owner ELSE "terminated"
    /\ UNCHANGED <<now, ex, net, oracle, syncVars>>

(* stop(), and the destructor: first the flag, ... *)
Stop ==
    /\ owner = "idle" /\ running
    /\ running' = FALSE /\ owner' = "joining"
    /\ UNCHANGED <<now, active, sync, ex, net, oracle, syncVars>>

(* ... then join(). *)
Join ==
    /\ owner = "joining" /\ sync = "ended"
    /\ owner' = "idle" /\ sync' = "none"
    /\ UNCHANGED <<now, active, running, ex, net, oracle, syncVars>>

-----------------------------------------------------------------------------
(* sample(), called by a user at any time or by the sync thread. *)
Calls(th) == ex[th].at = "idle" /\ (th = "sync" => sync = "sample")

(* No socket, no device, sample_ptp4l(), or a sendto() that fails. *)
SampleFails(th) ==
    /\ Calls(th) \/ ex[th].at = "send"
    /\ Step(th, Done(Invalid))
    /\ UNCHANGED <<now, clientVars, sync, net, oracle, syncVars>>

(* sample_mock(): a socket of its own, and T1. *)
MockOpen(th) ==
    /\ Calls(th) /\ active = "mock"
    /\ \E p \in Ports :
          /\ \A u \in Threads : ex[u].at \in {"send", "wait"} => ex[u].port # p
          /\ Step(th, [at |-> "send", port |-> p, t1 |-> now])
    /\ UNCHANGED <<now, clientVars, sync, net, oracle, syncVars>>

Under(msg) == IF Cardinality(net) < MaxNet THEN net \cup {msg} ELSE net

MockSend(th) ==
    /\ ex[th].at = "send"
    /\ net' = Under([kind |-> "request", port |-> ex[th].port, t1 |-> ex[th].t1])
    /\ Step(th, [at |-> "wait", port |-> ex[th].port, t1 |-> ex[th].t1])
    /\ UNCHANGED <<now, clientVars, sync, oracle, syncVars>>

(* Mutant: any reply that reaches the socket is taken. *)
Matches_Any(e, r) == TRUE

Matches(e, r) == r.t1 = e.t1

(* The sample of exchange e and reply r at T4 = now.  err is history: the   *)
(* error that the time between T1 and T4 allows.                            *)
MockSample(e, r) ==
    [valid |-> TRUE, by |-> "mock", offset |-> CDiv(r.t2 - e.t1 + r.t3 - now, 2),
     oneWay |-> CDiv(now - e.t1 - (r.t3 - r.t2), 2), err |-> (now - e.t1 + 1) \div 2]

(* recv(), T4 and the arithmetic; a reply to somebody else ends the sample. *)
MockRecv(th) ==
    /\ ex[th].at = "wait"
    /\ \E r \in net :
          /\ r.kind = "reply" /\ r.port = ex[th].port
          /\ Step(th, Done(IF Matches(ex[th], r) THEN MockSample(ex[th], r) ELSE Invalid))
          /\ net' \in {net, net \ {r}}
    /\ UNCHANGED <<now, clientVars, sync, oracle, syncVars>>

(* Mutant: no SO_RCVTIMEO. *)
MockTimeout_Never(th) == FALSE /\ UNCHANGED vars

MockTimeout(th) ==
    /\ ex[th].at = "wait"
    /\ Step(th, Done(Invalid))
    /\ UNCHANGED <<now, clientVars, sync, net, oracle, syncVars>>

(* sample_phc(): the device's clock is read, ...                            *)
PhcRead(th) ==
    /\ Calls(th) /\ active = "phc" /\ HasPhc
    /\ Step(th, [at |-> "phc", t1 |-> now])
    /\ UNCHANGED <<now, clientVars, sync, net, oracle, syncVars>>

(* ... then CLOCK_REALTIME. *)
PhcDone(th) ==
    /\ ex[th].at = "phc"
    /\ Step(th, Done([valid |-> TRUE, by |-> "phc",
                      offset |-> (ex[th].t1 + Theta) - (now + Real),
                      oneWay |-> 0, err |-> now - ex[th].t1]))
    /\ UNCHANGED <<now, clientVars, sync, net, oracle, syncVars>>

(* A user takes its sample away. *)
UserReturn(th) ==
    /\ th # "sync" /\ ex[th].at = "done" /\ Step(th, Idle)
    /\ UNCHANGED <<now, clientVars, sync, net, oracle, syncVars>>

Sampling(th) ==
    \/ SampleFails(th) \/ MockOpen(th) \/ MockSend(th) \/ MockRecv(th)
    \/ MockTimeout(th) \/ PhcRead(th) \/ PhcDone(th) \/ UserReturn(th)

-----------------------------------------------------------------------------
(* The loop of sync_thread_. *)
SyncTest ==
    /\ sync = "test" /\ sync' = IF running THEN "sample" ELSE "ended"
    /\ UNCHANGED <<now, clientVars, ex, net, oracle, syncVars>>

(* The average in doubles, cast back to an integer. *)
Ewma(prev, s) == CDiv(prev * (AlphaDiv - 1) + s, AlphaDiv)

(* Mutant: the first sample is averaged with the initial zero. *)
Fresh_Blended(s) == Ewma(offset, s)

Fresh(s) == IF sampled THEN Ewma(offset, s) ELSE s

SyncStore ==
    LET s == ex["sync"].s
    IN  /\ sync = "sample" /\ ex["sync"].at = "done" /\ Step("sync", Idle)
        /\ IF s.valid
           THEN /\ offset' = Fresh(s.offset) /\ sync' = "count"
                /\ used' = used \cup {s.by}
                /\ worst' = IF s.err > worst THEN s.err ELSE worst
           ELSE sync' = "sleep" /\ UNCHANGED <<offset, used, worst>>
        /\ UNCHANGED <<now, clientVars, net, oracle, sampled>>

SyncCount ==
    /\ sync = "count" /\ sync' = "sleep" /\ sampled' = TRUE
    /\ UNCHANGED <<now, clientVars, ex, net, oracle, offset, used, worst>>

SyncSleep ==
    /\ sync = "sleep" /\ sync' = "test"
    /\ UNCHANGED <<now, clientVars, ex, net, oracle, syncVars>>

SyncThread == SyncTest \/ Sampling("sync") \/ SyncStore \/ SyncCount \/ SyncSleep

-----------------------------------------------------------------------------
(* The loop of ptp_oracle: T2 after recvfrom(), ... *)
OracleRecv ==
    /\ oracle.at = "idle"
    /\ \E m \in net :
          /\ m.kind = "request"
          /\ oracle' = [at |-> "serve", port |-> m.port, t1 |-> m.t1, t2 |-> now + Theta]
          /\ net' \in {net, net \ {m}}
    /\ UNCHANGED <<now, clientVars, sync, ex, syncVars>>

(* ... T3 and the answer. *)
OracleReply ==
    /\ oracle.at = "serve" /\ oracle' = Idle
    /\ net' = Under([kind |-> "reply", port |-> oracle.port, t1 |-> oracle.t1,
                     t2 |-> oracle.t2, t3 |-> now + Theta])
    /\ UNCHANGED <<now, clientVars, sync, ex, syncVars>>

Lose ==
    /\ \E m \in net : net' = net \ {m}
    /\ UNCHANGED <<now, clientVars, sync, ex, oracle, syncVars>>

Next ==
    \/ Tick \/ Start \/ Stop \/ Join
    \/ \E u \in Users : Sampling(u)
    \/ SyncThread \/ OracleRecv \/ OracleReply \/ Lose

(* The scheduler runs the sync thread, recv() gives up after its timeout,   *)
(* sleep_for() returns, and a join() of a thread that has ended returns.    *)
Spec == Init /\ [][Next]_vars /\ WF_vars(SyncThread) /\ WF_vars(Join)

-----------------------------------------------------------------------------
(* The members have their types, and after start() the backend is resolved. *)
TypeOK ==
    /\ now \in 0..MaxNow /\ active \in Backends
    /\ running \in BOOLEAN /\ owner \in {"idle", "joining", "terminated"}
    /\ sync \in {"none", "test", "sample", "count", "sleep", "ended"}
    /\ \A th \in Threads : ex[th].at \in {"idle", "send", "wait", "phc", "done"}
    /\ offset \in Int /\ sampled \in BOOLEAN /\ used \subseteq Backends /\ worst \in Nat

(* A valid sample, whoever took it and whatever else the network delivered  *)
(* to its port, is off by no more than the time the exchange took allows,   *)
(* and its one-way delay is neither negative nor longer than that.          *)
SampleSane ==
    \A th \in Threads : ex[th].at = "done" /\ ex[th].s.valid =>
        LET s == ex[th].s
        IN  Abs(s.offset - Target(s.by)) <= s.err /\ 0 <= s.oneWay /\ s.oneWay <= s.err

(* offset_ns() is zero until there is a sample (ptp_client.h:84-85); from   *)
(* then on, across restarts and changes of backend, it lies between the     *)
(* offsets of the clocks that were sampled, up to the worst error of one    *)
(* sample: the rounding of the averages never adds to it.                   *)
OffsetAccurate ==
    IF used = {} THEN offset = 0
    ELSE \E a, b \in used : Target(a) - worst <= offset /\ offset <= Target(b) + worst

(* start() never finds the thread of an earlier start() unjoined. *)
NoTerminate == owner # "terminated"

(* stop() returns, although its thread may sit in recv(). *)
SyncThreadStops == owner = "joining" ~> owner # "joining"
=============================================================================
