------------------------------ MODULE PtpProofs ------------------------------
(***************************************************************************)
(* For any number of threads, any clocks, any smoothing factor, and a       *)
(* network of any size: every valid sample is as good as its round trip,    *)
(* the average is as good as the samples, and start() and stop() keep to    *)
(* one sync thread.                                                         *)
(*                                                                          *)
(* The argument: a request leaves after the T1 it carries, so a reply that  *)
(* carries T1 was stamped between T1 and the present (Exchanges, Network).  *)
(* An average of two integers, rounded towards zero, is between them, so    *)
(* the hull of the samples is never left (Average).                         *)
(***************************************************************************)
EXTENDS Ptp, TLAPS

USE PtpAssumption

Stamp(t, n) == t \in Nat /\ t <= n

GoodSample(s) ==
    /\ s.by \in Backends /\ s.offset \in Int /\ s.err \in Nat
    /\ Abs(s.offset - Target(s.by)) <= s.err
    /\ 0 <= s.oneWay /\ s.oneWay <= s.err

(* Exchange e, datagram m and the oracle's request o, as seen at instant n. *)
GoodExchange(e, n) ==
    /\ e.at \in {"idle", "send", "wait", "phc", "done"}
    /\ e.at \in {"send", "wait", "phc"} => Stamp(e.t1, n)
    /\ e.at = "done" /\ e.s.valid => GoodSample(e.s)

GoodMessage(m, n) ==
    /\ Stamp(m.t1, n)
    /\ m.kind = "reply" => /\ m.t2 \in Int /\ m.t3 \in Int /\ m.t1 + Theta <= m.t2
                           /\ m.t2 <= m.t3 /\ m.t3 <= n + Theta

GoodRequest(o, n) ==
    o.at = "serve" => Stamp(o.t1, n) /\ o.t2 \in Int /\ o.t1 + Theta <= o.t2 /\ o.t2 <= n + Theta

Clock == now \in 0..MaxNow

Exchanges ==
    /\ ex = [th \in Threads |-> ex[th]]
    /\ \A th \in Threads : GoodExchange(ex[th], now)

Network == GoodRequest(oracle, now) /\ \A m \in net : GoodMessage(m, now)

(* One thread, from start() to the end of stop(). *)
Control ==
    /\ active \in Backends /\ running \in BOOLEAN /\ owner \in {"idle", "joining"}
    /\ sync \in {"none", "test", "sample", "count", "sleep", "ended"}
    /\ owner = "joining" => ~running
    /\ owner = "idle" /\ ~running => sync = "none"

Average ==
    /\ offset \in Int /\ sampled \in BOOLEAN /\ used \subseteq Backends /\ worst \in Nat
    /\ IF sync = "count" THEN used # {} ELSE (sampled <=> used # {})
    /\ sampled => used # {}
    /\ OffsetAccurate

IInv == Clock /\ Exchanges /\ Network /\ Control /\ Average

-----------------------------------------------------------------------------
(* What is true of a stamp stays true as time passes. *)
LEMMA Later ==
    ASSUME NEW n \in Nat, NEW k \in Nat, n <= k
    PROVE  /\ \A e : GoodExchange(e, n) => GoodExchange(e, k)
           /\ \A m : GoodMessage(m, n) => GoodMessage(m, k)
           /\ \A o : GoodRequest(o, n) => GoodRequest(o, k)
<1>1. \A t : Stamp(t, n) => Stamp(t, k)
  BY DEF Stamp
<1>2. \A e : GoodExchange(e, n) => GoodExchange(e, k)
  BY <1>1 DEF GoodExchange
<1>3. \A m : GoodMessage(m, n) => GoodMessage(m, k)
  BY <1>1 DEF GoodMessage
<1>4. \A o : GoodRequest(o, n) => GoodRequest(o, k)
  BY <1>1 DEF GoodRequest
<1> QED
  BY <1>2, <1>3, <1>4

(* The two-way arithmetic of sample_mock(). *)
LEMMA TwoWay ==
    ASSUME NEW t1 \in Int, NEW t2 \in Int, NEW t3 \in Int, NEW t4 \in Int,
           t1 + Theta <= t2, t2 <= t3, t3 <= t4 + Theta
    PROVE  LET o == CDiv(t2 - t1 + t3 - t4, 2)
               w == CDiv(t4 - t1 - (t3 - t2), 2)
               err == (t4 - t1 + 1) \div 2
           IN  /\ o \in Int /\ err \in Nat /\ Abs(o - Theta) <= err
               /\ 0 <= w /\ w <= err
BY DEF CDiv, Abs

(* Whatever a thread does in sample(), only its exchange and the network    *)
(* change, and both stay sane.                                              *)
LEMMA SamplingStep ==
    ASSUME IInv, NEW th \in Threads, Sampling(th)
    PROVE  /\ \E e : ex' = [ex EXCEPT ![th] = e] /\ GoodExchange(e, now)
           /\ \A m \in net' : GoodMessage(m, now)
           /\ UNCHANGED <<now, clientVars, sync, oracle, syncVars>>
<1>1. Clock /\ GoodExchange(ex[th], now) /\ \A m \in net : GoodMessage(m, now)
  BY DEF IInv, Exchanges, Network
<1>2. now \in Nat
  BY <1>1 DEF Clock
<1>3. GoodExchange(Idle, now) /\ GoodExchange(Done(Invalid), now)
  BY DEF GoodExchange, Idle, Done, Invalid
<1>4. CASE SampleFails(th)
  BY <1>1, <1>3, <1>4 DEF SampleFails, Step
<1>5. CASE MockOpen(th)
  <2>1. PICK p \in Ports : Step(th, [at |-> "send", port |-> p, t1 |-> now])
    BY <1>5 DEF MockOpen
  <2>2. GoodExchange([at |-> "send", port |-> p, t1 |-> now], now)
    BY <1>2 DEF GoodExchange, Stamp
  <2> QED
    BY <1>1, <1>5, <2>1, <2>2 DEF MockOpen, Step
<1>6. CASE MockSend(th)
  <2> DEFINE e == [at |-> "wait", port |-> ex[th].port, t1 |-> ex[th].t1]
             m == [kind |-> "request", port |-> ex[th].port, t1 |-> ex[th].t1]
  <2>1. Stamp(ex[th].t1, now)
    BY <1>1, <1>6 DEF MockSend, GoodExchange
  <2>2. GoodExchange(e, now) /\ GoodMessage(m, now)
    BY <2>1 DEF GoodExchange, GoodMessage
  <2>3. net' \subseteq net \cup {m} /\ ex' = [ex EXCEPT ![th] = e]
    BY <1>6 DEF MockSend, Under, Step
  <2> QED
    BY <1>1, <1>6, <2>2, <2>3 DEF MockSend
<1>7. CASE MockRecv(th)
  <2>1. PICK r \in net :
           /\ r.kind = "reply"
           /\ Step(th, Done(IF Matches(ex[th], r) THEN MockSample(ex[th], r) ELSE Invalid))
           /\ net' \in {net, net \ {r}}
    BY <1>7 DEF MockRecv
  <2>2. CASE Matches(ex[th], r)
    <3> DEFINE s == MockSample(ex[th], r)
    <3>1. Stamp(ex[th].t1, now) /\ r.t1 = ex[th].t1
      BY <1>1, <1>7, <2>2 DEF MockRecv, GoodExchange, Matches
    <3>2. /\ r.t2 \in Int /\ r.t3 \in Int /\ ex[th].t1 + Theta <= r.t2
          /\ r.t2 <= r.t3 /\ r.t3 <= now + Theta
      BY <1>1, <2>1, <3>1 DEF GoodMessage
    <3>3. /\ s.offset \in Int /\ s.err \in Nat /\ Abs(s.offset - Theta) <= s.err
          /\ 0 <= s.oneWay /\ s.oneWay <= s.err
      BY <1>2, <3>1, <3>2, TwoWay DEF MockSample, Stamp
    <3>4. s.by = "mock" /\ Target("mock") = Theta
      BY DEF MockSample, Target
    <3> HIDE DEF s
    <3>5. GoodSample(s)
      BY <3>3, <3>4 DEF GoodSample, Backends
    <3>6. GoodExchange(Done(s), now)
      BY <3>5 DEF GoodExchange, Done
    <3> QED
      BY <1>1, <1>7, <2>1, <2>2, <3>6 DEF MockRecv, Step, s
  <2>3. CASE ~Matches(ex[th], r)
    BY <1>1, <1>3, <1>7, <2>1, <2>3 DEF MockRecv, Step
  <2> QED
    BY <2>2, <2>3
<1>8. CASE MockTimeout(th)
  BY <1>1, <1>3, <1>8 DEF MockTimeout, Step
<1>9. CASE PhcRead(th)
  <2>1. GoodExchange([at |-> "phc", t1 |-> now], now)
    BY <1>2 DEF GoodExchange, Stamp
  <2> QED
    BY <1>1, <1>9, <2>1 DEF PhcRead, Step
<1>10. CASE PhcDone(th)
  <2> DEFINE s == [valid |-> TRUE, by |-> "phc",
                   offset |-> (ex[th].t1 + Theta) - (now + Real),
                   oneWay |-> 0, err |-> now - ex[th].t1]
  <2>1. ex[th].t1 \in Nat /\ ex[th].t1 <= now
    BY <1>1, <1>10 DEF PhcDone, GoodExchange, Stamp
  <2>2. GoodSample(s)
    BY <1>2, <2>1 DEF GoodSample, Backends, Target, Abs
  <2>3. GoodExchange(Done(s), now)
    BY <2>2 DEF GoodExchange, Done
  <2> QED
    BY <1>1, <1>10, <2>3 DEF PhcDone, Step
<1>11. CASE UserReturn(th)
  BY <1>1, <1>3, <1>11 DEF UserReturn, Step
<1> QED
  BY <1>4, <1>5, <1>6, <1>7, <1>8, <1>9, <1>10, <1>11 DEF Sampling

-----------------------------------------------------------------------------
(* Multiplying by a positive number keeps and reveals the order. *)
LEMMA Scaling ==
    ASSUME NEW x \in Int, NEW y \in Int, NEW d \in Nat \ {0}
    PROVE  (x <= y => x * d <= y * d) /\ (x * d < y * d => x < y)
<1>1. (y - x) * d = y * d - x * d
  OBVIOUS
<1>2. x <= y => (y - x) * d >= 0
  OBVIOUS
<1>3. x >= y => (x - y) * d >= 0
  OBVIOUS
<1>4. (x - y) * d = x * d - y * d
  OBVIOUS
<1> QED
  BY <1>1, <1>2, <1>3, <1>4

(* The average of two integers, rounded towards zero, is between them. *)
LEMMA EwmaBetween ==
    ASSUME NEW p \in Int, NEW s \in Int, NEW lo \in Int, NEW hi \in Int,
           lo <= p, p <= hi, lo <= s, s <= hi
    PROVE  Ewma(p, s) \in Int /\ lo <= Ewma(p, s) /\ Ewma(p, s) <= hi
<1> DEFINE d == AlphaDiv
           A == p * (d - 1) + s
           k == CDiv(A, d)
<1>1. d \in Nat \ {0} /\ A \in Int
  OBVIOUS
<1>2. lo * d <= A /\ A <= hi * d
  <2>1. lo * (d - 1) <= p * (d - 1) /\ p * (d - 1) <= hi * (d - 1)
    <3>1. CASE d - 1 = 0
      BY <3>1
    <3>2. CASE d - 1 # 0
      <4>1. d - 1 \in Nat \ {0}
        BY <1>1, <3>2
      <4> QED
        BY <4>1, Scaling
    <3> QED
      BY <3>1, <3>2
  <2>2. lo * d = lo * (d - 1) + lo /\ hi * d = hi * (d - 1) + hi
    BY <1>1
  <2> QED
    BY <1>1, <2>1, <2>2
<1> HIDE DEF d, A
<1>3. /\ k \in Int
      /\ A >= 0 => k * d <= A /\ A < (k + 1) * d
      /\ A < 0 => (k - 1) * d < A /\ A <= k * d
  <2>1. \A n \in Nat : /\ n \div d \in Int
                       /\ (n \div d) * d <= n /\ n < (n \div d) * d + d
    BY <1>1, SMT
  <2>2. CASE A >= 0
    <3>1. A \in Nat /\ k = A \div d
      BY <1>1, <2>2 DEF CDiv
    <3>2. k \in Int /\ k * d <= A /\ A < k * d + d
      BY <2>1, <3>1
    <3> HIDE DEF k
    <3>3. (k + 1) * d = k * d + d
      BY <1>1, <3>2
    <3> QED
      BY <1>1, <2>2, <3>2, <3>3
  <2>3. CASE A < 0
    <3> DEFINE m == (-A) \div d
    <3>1. -A \in Nat /\ k = -m
      BY <1>1, <2>3 DEF CDiv
    <3>2. m \in Int /\ m * d <= -A /\ -A < m * d + d
      BY <2>1, <3>1
    <3> HIDE DEF k, m
    <3>3. k * d = -(m * d) /\ (k - 1) * d = -(m * d) - d
      BY <1>1, <3>1, <3>2
    <3> QED
      BY <1>1, <2>3, <3>1, <3>2, <3>3
  <2> QED
    BY <1>1, <2>2, <2>3
<1>4. Ewma(p, s) = k
  BY DEF Ewma, A, d
<1> HIDE DEF k
<1>5. lo <= k
  <2>1. CASE A >= 0
    <3>1. lo * d < (k + 1) * d
      <4> DEFINE x == lo * d
                 y == (k + 1) * d
      <4>1. x \in Int /\ y \in Int /\ x <= A /\ A < y
        BY <1>1, <1>2, <1>3, <2>1
      <4> HIDE DEF x, y
      <4>2. x < y
        BY <1>1, <4>1
      <4> QED
        BY <4>2 DEF x, y
    <3> QED
      BY <1>1, <1>3, <3>1, Scaling
  <2>2. CASE A < 0
    <3>1. lo * d < (k + 1) * d
      <4>1. (k + 1) * d = k * d + d
        BY <1>1, <1>3
      <4> DEFINE x == lo * d
                 y == k * d
      <4>2. x \in Int /\ y \in Int /\ x <= A /\ A <= y
        BY <1>1, <1>2, <1>3, <2>2
      <4> HIDE DEF x, y
      <4>3. x < y + d
        BY <1>1, <4>2
      <4> QED
        BY <4>1, <4>3 DEF x, y
    <3> QED
      BY <1>1, <1>3, <3>1, Scaling
  <2> QED
    BY <1>1, <2>1, <2>2
<1>6. k <= hi
  <2>1. CASE A >= 0
    <3>1. k * d < (hi + 1) * d
      <4>1. (hi + 1) * d = hi * d + d
        BY <1>1
      <4> DEFINE x == k * d
                 y == hi * d
      <4>2. x \in Int /\ y \in Int /\ x <= A /\ A <= y
        BY <1>1, <1>2, <1>3, <2>1
      <4> HIDE DEF x, y
      <4>3. x < y + d
        BY <1>1, <4>2
      <4> QED
        BY <4>1, <4>3 DEF x, y
    <3> QED
      BY <1>1, <1>3, <3>1, Scaling
  <2>2. CASE A < 0
    <3>1. (k - 1) * d < hi * d
      <4> DEFINE x == (k - 1) * d
                 y == hi * d
      <4>1. x \in Int /\ y \in Int /\ x < A /\ A <= y
        BY <1>1, <1>2, <1>3, <2>2
      <4> HIDE DEF x, y
      <4>2. x < y
        BY <1>1, <4>1
      <4> QED
        BY <4>2 DEF x, y
    <3> QED
      BY <1>1, <1>3, <3>1, Scaling
  <2> QED
    BY <1>1, <2>1, <2>2
<1> QED
  BY <1>3, <1>4, <1>5, <1>6

-----------------------------------------------------------------------------
(* A valid sample in the loop of the sync thread keeps the average in the   *)
(* hull of what has been sampled.                                           *)
LEMMA StoreAccurate ==
    ASSUME IInv, SyncStore, ex["sync"].s.valid
    PROVE  OffsetAccurate' /\ offset' \in Int /\ worst' \in Nat
<1> DEFINE s == ex["sync"].s
<1>1. /\ sync = "sample" /\ offset' = Fresh(s.offset) /\ used' = used \cup {s.by}
      /\ worst' = IF s.err > worst THEN s.err ELSE worst
  BY DEF SyncStore
<1>2. GoodSample(s)
  <2>1. "sync" \in Threads /\ ex["sync"].at = "done"
    BY DEF Threads, SyncStore
  <2> QED
    BY <2>1 DEF IInv, Exchanges, GoodExchange
<1>3. /\ offset \in Int /\ worst \in Nat /\ sampled \in BOOLEAN
      /\ (used # {} <=> sampled) /\ OffsetAccurate
  BY <1>1 DEF IInv, Average
<1> HIDE DEF s
<1>4. s.by \in Backends /\ s.offset \in Int /\ s.err \in Nat /\ Abs(s.offset - Target(s.by)) <= s.err
  BY <1>2 DEF GoodSample
<1>5. \A b : Target(b) \in Int
  BY DEF Target
<1>6. worst' \in Nat /\ worst <= worst' /\ s.err <= worst'
  BY <1>1, <1>3, <1>4
<1>7. Target(s.by) - worst' <= s.offset /\ s.offset <= Target(s.by) + worst'
  BY <1>4, <1>5, <1>6 DEF Abs
<1>8. CASE ~sampled
  <2>1. offset' = s.offset /\ used' # {} /\ s.by \in used'
    BY <1>1, <1>8 DEF Fresh
  <2> QED
    BY <1>4, <1>6, <1>7, <2>1 DEF OffsetAccurate, Target
<1>9. CASE sampled
  <2>1. PICK a \in used, b \in used : Target(a) - worst <= offset /\ offset <= Target(b) + worst
    BY <1>3, <1>9 DEF OffsetAccurate
  <2> DEFINE lo == IF Target(a) <= Target(s.by) THEN a ELSE s.by
             hi == IF Target(b) <= Target(s.by) THEN s.by ELSE b
  <2>2. lo \in used' /\ hi \in used'
    BY <1>1
  <2>3. /\ Target(lo) <= Target(a) /\ Target(lo) <= Target(s.by)
        /\ Target(b) <= Target(hi) /\ Target(s.by) <= Target(hi)
    BY <1>5
  <2> HIDE DEF lo, hi
  <2>4. /\ Target(lo) - worst' <= offset /\ offset <= Target(hi) + worst'
        /\ Target(lo) - worst' <= s.offset /\ s.offset <= Target(hi) + worst'
    BY <1>3, <1>4, <1>5, <1>6, <1>7, <2>1, <2>3
  <2>5. offset' = Ewma(offset, s.offset)
    BY <1>1, <1>9 DEF Fresh
  <2>6. Target(lo) - worst' \in Int /\ Target(hi) + worst' \in Int
    BY <1>5, <1>6
  <2>7. /\ offset' \in Int /\ Target(lo) - worst' <= offset'
        /\ offset' <= Target(hi) + worst'
    BY <1>3, <1>4, <2>4, <2>5, <2>6, EwmaBetween
  <2> QED
    BY <1>6, <2>2, <2>7 DEF OffsetAccurate, Target
<1> QED
  BY <1>3, <1>8, <1>9

(* IInv is inductive. *)
LEMMA Inductive == IInv /\ [Next]_vars => IInv'
<1> SUFFICES ASSUME IInv, [Next]_vars PROVE IInv'
  OBVIOUS
<1> USE DEF IInv
<1>0. now \in Nat
  BY DEF Clock
<1>1. CASE UNCHANGED vars
  BY <1>1 DEF vars, clientVars, syncVars, Clock, Exchanges, Network, Control, Average,
              OffsetAccurate
<1>2. CASE Tick
  <2>1. now' \in Nat /\ now <= now' /\ Clock'
    BY <1>0, <1>2 DEF Tick, Clock
  <2>2. Exchanges' /\ Network'
    BY <1>0, <1>2, <2>1, Later DEF Tick, Exchanges, Network
  <2> QED
    BY <1>2, <2>1, <2>2 DEF Tick, clientVars, syncVars, Control, Average, OffsetAccurate
<1>3. CASE Start \/ Stop \/ Join
  <2>1. Control'
    BY <1>3 DEF Start, Stop, Join, Control, Resolve, Backends
  <2>2. (sync # "count" /\ sync' # "count") \/ sync' = sync
    BY <1>3 DEF Start, Stop, Join, Control
  <2> QED
    BY <1>3, <2>1, <2>2 DEF Start, Stop, Join, syncVars, Clock, Exchanges, Network, Average,
                        OffsetAccurate
<1>4. ASSUME NEW th \in Threads, Sampling(th) PROVE IInv'
  <2>1. /\ \E e : ex' = [ex EXCEPT ![th] = e] /\ GoodExchange(e, now)
        /\ \A m \in net' : GoodMessage(m, now)
        /\ UNCHANGED <<now, clientVars, sync, oracle, syncVars>>
    BY <1>4, SamplingStep
  <2>2. Exchanges' /\ Network'
    BY <2>1 DEF Exchanges, Network
  <2> QED
    BY <2>1, <2>2 DEF clientVars, syncVars, Clock, Control, Average, OffsetAccurate
<1>5. CASE SyncTest \/ SyncSleep
  <2>1. Control'
    BY <1>5 DEF SyncTest, SyncSleep, clientVars, Control
  <2> QED
    BY <1>5, <2>1 DEF SyncTest, SyncSleep, clientVars, syncVars, Clock, Exchanges, Network,
                      Average, OffsetAccurate
<1>6. CASE SyncStore
  <2>1. Control' /\ Clock' /\ Network'
    BY <1>6 DEF SyncStore, clientVars, Clock, Network, Control
  <2>2. Exchanges'
    <3>1. GoodExchange(Idle, now)
      BY DEF GoodExchange, Idle
    <3> QED
      BY <1>6, <3>1 DEF SyncStore, Step, Exchanges
  <2>3. CASE ex["sync"].s.valid
    <3>1. OffsetAccurate' /\ offset' \in Int /\ worst' \in Nat
      BY <1>6, <2>3, StoreAccurate
    <3>2. ex["sync"].s.by \in Backends
      BY <1>6, <2>3 DEF SyncStore, Exchanges, Threads, GoodExchange, GoodSample
    <3>3. /\ sync' = "count" /\ sampled' = sampled /\ sampled \in BOOLEAN
          /\ used' = used \cup {ex["sync"].s.by}
      BY <1>6, <2>3 DEF SyncStore, Average
    <3>4. used' \subseteq Backends /\ used' # {}
      BY <3>2, <3>3 DEF Average
    <3> QED
      BY <2>1, <2>2, <3>1, <3>3, <3>4 DEF Average
  <2>4. CASE ~ex["sync"].s.valid
    BY <1>6, <2>1, <2>2, <2>4 DEF SyncStore, Average, OffsetAccurate
  <2> QED
    BY <2>3, <2>4
<1>7. CASE SyncCount
  <2>1. Control'
    BY <1>7 DEF SyncCount, clientVars, Control
  <2> QED
    BY <1>7, <2>1 DEF SyncCount, Clock, Exchanges, Network, Average, OffsetAccurate
<1>8. CASE OracleRecv
  <2>1. Network'
    BY <1>0, <1>8 DEF OracleRecv, Network, GoodMessage, GoodRequest, Stamp
  <2> QED
    BY <1>8, <2>1 DEF OracleRecv, clientVars, syncVars, Clock, Exchanges, Control, Average,
                      OffsetAccurate
<1>9. CASE OracleReply
  <2> DEFINE m == [kind |-> "reply", port |-> oracle.port, t1 |-> oracle.t1,
                   t2 |-> oracle.t2, t3 |-> now + Theta]
  <2>1. GoodMessage(m, now)
    BY <1>0, <1>9 DEF OracleReply, Network, GoodMessage, GoodRequest, Stamp
  <2>2. net' \subseteq net \cup {m} /\ oracle' = Idle /\ now' = now
    BY <1>9 DEF OracleReply, Under
  <2>3. GoodRequest(Idle, now)
    BY DEF GoodRequest, Idle
  <2>4. Network'
    BY <2>1, <2>2, <2>3 DEF Network
  <2> QED
    BY <1>9, <2>4 DEF OracleReply, clientVars, syncVars, Clock, Exchanges, Control, Average,
                      OffsetAccurate
<1>10. CASE Lose
  BY <1>10 DEF Lose, clientVars, syncVars, Clock, Exchanges, Network, Control, Average,
               OffsetAccurate
<1>11. Users \subseteq Threads /\ "sync" \in Threads
  BY DEF Threads
<1> QED
  BY <1>1, <1>2, <1>3, <1>4, <1>5, <1>6, <1>7, <1>8, <1>9, <1>10, <1>11 DEF Next, SyncThread

(* IInv holds before the first start(). *)
LEMMA Initial == Init => IInv
<1> SUFFICES ASSUME Init PROVE IInv
  OBVIOUS
<1>1. GoodExchange(Idle, 0) /\ GoodRequest(Idle, 0)
  BY DEF GoodExchange, GoodRequest, Idle
<1>2. Exchanges
  BY <1>1 DEF Init, Exchanges
<1>3. now = 0 /\ offset = 0 /\ worst = 0 /\ used = {} /\ sync = "none"
  BY DEF Init
<1>4. Clock
  BY <1>3 DEF Clock
<1>5. Network
  BY <1>1 DEF Init, Network
<1>6. Control
  BY Zenon DEF Init, Control, Backends
<1>7. sampled = FALSE
  BY Zenon DEF Init
<1>8. offset \in Int /\ worst \in Nat /\ used \subseteq Backends /\ sync # "count"
  BY <1>3
<1>9. Average
  BY <1>3, <1>7, <1>8, Zenon DEF Average, OffsetAccurate
<1> QED
  BY <1>2, <1>4, <1>5, <1>6, <1>9 DEF IInv

(* The inductive invariant holds in every reachable state. *)
THEOREM Invariant == Spec => []IInv
BY Initial, Inductive, PTL DEF Spec

(* Every valid sample of sample() is as good as its round trip. *)
THEOREM SamplesSane == Spec => []SampleSane
<1>1. IInv => SampleSane
  BY DEF IInv, Exchanges, GoodExchange, GoodSample, SampleSane
<1> QED
  BY <1>1, Invariant, PTL

(* offset_ns() stays within the worst error of one sample. *)
THEOREM AverageAccurate == Spec => []OffsetAccurate
<1>1. IInv => OffsetAccurate
  BY DEF IInv, Average
<1> QED
  BY <1>1, Invariant, PTL

(* start() never assigns to a thread that has not been joined. *)
THEOREM OneSyncThread == Spec => []NoTerminate
<1>1. IInv => NoTerminate
  BY DEF IInv, Control, NoTerminate
<1> QED
  BY <1>1, Invariant, PTL

(* The members of PtpClient keep their types. *)
THEOREM TypeCorrect == Spec => []TypeOK
<1>1. IInv => TypeOK
  BY DEF IInv, Clock, Exchanges, GoodExchange, Control, Average, TypeOK
<1> QED
  BY <1>1, Invariant, PTL
=============================================================================
