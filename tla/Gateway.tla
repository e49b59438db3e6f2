------------------------------- MODULE Gateway -------------------------------
(***************************************************************************)
(* The order flow of hft::fix::Gateway (mvp/src/fix/gateway.cpp) and the    *)
(* feed it publishes to (mvp/src/md/feed.cpp): one worker thread per        *)
(* session, an engine behind engine_mu_, exec ids from an atomic counter,   *)
(* and a feed that no lock protects.                                        *)
(*                                                                          *)
(* A step of a worker takes a frame from rx_buf and runs its handler up to  *)
(* the end of the section locked by engine_mu_, or up to the first message  *)
(* where nothing is locked; later steps send one message each, or access    *)
(* the feed's counter once.  orders_ and execs_ are only read for display   *)
(* and are left out.                                                        *)
(* Starting and stopping the gateway is the subject of GatewayLifecycle.    *)
(***************************************************************************)
EXTENDS MatchRules

CONSTANTS Sessions,   \* accepted sessions
          Requests,   \* the frames a client may send
          MaxFrames,  \* bound: frames a client sends
          MaxBatch,   \* bound: frames that one recv completes
          MayLeave,   \* bound: may clients close their connections?
          Capacity,   \* slots of the engine's order pool
          NoAsk,      \* best_ask() of an empty side, INT64_MAX in the code
          FeedOpen,   \* is a feed injected and its socket open?
          FeedLossy   \* may sendto() fail?

ASSUME GatewayAssumption ==
    /\ MaxFrames \in Nat /\ MaxBatch \in Nat \ {0} /\ Capacity \in Nat \ {0}
    /\ NoAsk \in Nat \ {0}
    /\ MayLeave \in BOOLEAN /\ FeedOpen \in BOOLEAN /\ FeedLossy \in BOOLEAN

VARIABLES book,        \* the engine's resting orders
          nextId,      \* the engine's next order id
          nextExecId,  \* next_exec_id_
          sess,        \* the Session of each worker and the worker's locals
          peerOpen,    \* has the client's end of the connection stayed up?
          received,    \* history: what each client got
          feedSeq,     \* Feed::seq_
          wire,        \* history: the datagrams that left, in order
          tape,        \* history: the trades of the engine, in order
          tops         \* history: every top of book there has been

vars == <<book, nextId, nextExecId, sess, peerOpen, received,
          feedSeq, wire, tape, tops>>

engineVars  == <<book, nextId, tape, tops>>
feedVars    == <<feedSeq, wire>>

-----------------------------------------------------------------------------
(* Prices arrive as decimals and are held here in thousandths: the nearest  *)
(* tick of 0.01 is what static_cast<Price>(price * 100.0 + 0.5) gives.      *)
(* Quantities are held in tenths and lose their fraction.                   *)
PriceTicks(milli) == (milli + 5) \div 10
WholeQty(tenths) == tenths \div 10

(* order_qty <= 0 || price <= 0 || (side_c != '1' && side_c != '2') *)
Garbage(m) == m.tenths <= 0 \/ m.milli <= 0 \/ m.side \notin Sides

(* The top of book a locked section reads.  An absent ask is sent as 0. *)
TopOf(b) ==
    LET bid == BestBid(b)
        ask == BestAsk(b, NoAsk)
    IN  [bid   |-> bid,
         bidSz |-> IF bid > 0 THEN QtyAt(b, "Buy", bid) ELSE 0,
         ask   |-> IF ask < NoAsk THEN ask ELSE 0,
         askSz |-> IF ask < NoAsk THEN QtyAt(b, "Sell", ask) ELSE 0]

(* The fields of an ExecutionReport that the properties tell apart. *)
Report(order, type, cum, leaves, last, px) ==
    [type |-> type, order |-> order, cum |-> cum, leaves |-> leaves,
     last |-> last, px |-> px]

(* Mutants: no report without a trade; LastQty is the order's quantity;     *)
(* LeavesQty is taken before the fill.                                      *)
ReportsOf_FillsOnly(id, qty, trades) ==
    [i \in DOMAIN trades |-> Report(id, "FILL", qty, 0, trades[i].qty, trades[i].price)]


ReportsOf_LeavesBefore(id, qty, trades) ==
    LET Cum(i) == FoldFunction(LAMBDA t, sum : t.qty + sum, 0, SubSeq(trades, 1, i))
    IN  IF trades = <<>> THEN <<Report(id, "NEW", 0, qty, 0, 0)>>
        ELSE [i \in DOMAIN trades |->
                Report(id, "PARTIAL_FILL", Cum(i), qty - Cum(i - 1), trades[i].qty,
                       trades[i].price)]

(* The reports of an accepted order: one per trade, then one for what is    *)
(* left of it.                                                              *)
ReportsOf(id, qty, trades) ==
    LET Cum(i) == FoldFunction(LAMBDA t, sum : t.qty + sum, 0, SubSeq(trades, 1, i))
        n      == Len(trades)
        Fill(i) == Report(id, IF i = n /\ Cum(i) = qty THEN "FILL" ELSE "PARTIAL_FILL",
                          Cum(i), qty - Cum(i), trades[i].qty, trades[i].price)
        leaves == qty - Cum(n)
    IN  [i \in 1 .. n |-> Fill(i)]
          \o IF n = 0 \/ leaves > 0
             THEN <<Report(id, "NEW", Cum(n), leaves, 0, 0)>> ELSE <<>>

-----------------------------------------------------------------------------
NoTop == TopOf({})

NewSession ==
    [pc |-> "recv", rx |-> <<>>, frames |-> 0, loggedOn |-> FALSE,
     running |-> TRUE, outSeq |-> 1, reports |-> <<>>, publish |-> FALSE,
     top |-> NoTop, seq |-> 0]

Init ==
    /\ book = {} /\ nextId = 1 /\ nextExecId = 1
    /\ sess = [s \in Sessions |-> NewSession]
    /\ peerOpen = [s \in Sessions |-> TRUE]
    /\ received = [s \in Sessions |-> <<>>]
    /\ feedSeq = 0 /\ wire = <<>> /\ tape = <<>> /\ tops = {NoTop}

(* Every message is stamped with out_seq++ before send_raw() knows whether  *)
(* the peer is there.  What is sent to a closed connection is lost; send()  *)
(* may still succeed, or fail and end the session.                          *)
Send(s, message, next) ==
    /\ received' = IF peerOpen[s]
                   THEN [received EXCEPT ![s] =
                           Append(@, [seq |-> sess[s].outSeq, body |-> message])]
                   ELSE received
    /\ \E ok \in {TRUE, peerOpen[s]} :
          sess' = [sess EXCEPT ![s] = [next EXCEPT !.outSeq = @ + 1,
                                                  !.running = @ /\ ok]]

(* The client goes away. *)
PeerClose(s) ==
    /\ MayLeave /\ peerOpen[s]
    /\ peerOpen' = [peerOpen EXCEPT ![s] = FALSE]
    /\ UNCHANGED <<engineVars, nextExecId, sess, received, feedVars>>

-----------------------------------------------------------------------------
(* recv() returns bytes that complete the frames of batch. *)
Recv(s, batch) ==
    /\ sess[s].pc = "recv" /\ sess[s].running /\ peerOpen[s]
    /\ sess[s].frames + Len(batch) <= MaxFrames
    /\ sess' = [sess EXCEPT ![s].pc = "drain", ![s].rx = batch,
                            ![s].frames = @ + Len(batch)]
    /\ UNCHANGED <<engineVars, nextExecId, peerOpen, received, feedVars>>

(* The session was told to stop, or recv() found the connection closed. *)
SessionEnd(s) ==
    /\ sess[s].pc = "recv" /\ ~(sess[s].running /\ peerOpen[s])
    /\ sess' = [sess EXCEPT ![s].pc = "closed"]
    /\ peerOpen' = [peerOpen EXCEPT ![s] = FALSE]
    /\ UNCHANGED <<engineVars, nextExecId, received, feedVars>>

(* split_frame() finds no complete frame. *)
DrainDone(s) ==
    /\ sess[s].pc = "drain" /\ sess[s].rx = <<>>
    /\ sess' = [sess EXCEPT ![s].pc = "recv"]
    /\ UNCHANGED <<engineVars, nextExecId, peerOpen, received, feedVars>>

(* The worker is about to handle frame m, a frame of the given type. *)
Handles(s, type) ==
    /\ sess[s].pc = "drain" /\ sess[s].rx # <<>>
    /\ Head(sess[s].rx).type = type

Consumed(s) == [sess[s] EXCEPT !.rx = Tail(@)]

(* A frame that split_frame() or parse_frame() refuses: the loop is left    *)
(* with the frame still in rx_buf.                                          *)
OnMalformed(s) ==
    /\ Handles(s, "bad")
    /\ Send(s, [type |-> "LOGOUT"], [sess[s] EXCEPT !.pc = "recv", !.running = FALSE])
    /\ UNCHANGED <<engineVars, nextExecId, peerOpen, feedVars>>

(* handle_message() before logon. *)
NotLoggedOn(s) ==
    /\ sess[s].pc = "drain" /\ sess[s].rx # <<>>
    /\ Head(sess[s].rx).type \notin {"A", "bad"}
    /\ ~sess[s].loggedOn
    /\ Send(s, [type |-> "LOGOUT"], [Consumed(s) EXCEPT !.running = FALSE])
    /\ UNCHANGED <<engineVars, nextExecId, peerOpen, feedVars>>

(* Mutant: a logon restarts the numbering of a session that is under way. *)
OnLogon_Renumbers(s) ==
    /\ Handles(s, "A")
    /\ Send(s, [type |-> "LOGON"], [Consumed(s) EXCEPT !.loggedOn = TRUE, !.outSeq = 1])
    /\ UNCHANGED <<engineVars, nextExecId, peerOpen, feedVars>>

OnLogon(s) ==
    /\ Handles(s, "A")
    /\ Send(s, [type |-> "LOGON"], [Consumed(s) EXCEPT !.loggedOn = TRUE])
    /\ UNCHANGED <<engineVars, nextExecId, peerOpen, feedVars>>

(* Mutant: the session stays up. *)
OnLogout_StaysUp(s) ==
    /\ Handles(s, "5") /\ sess[s].loggedOn
    /\ Send(s, [type |-> "LOGOUT"], Consumed(s))
    /\ UNCHANGED <<engineVars, nextExecId, peerOpen, feedVars>>

OnLogout(s) ==
    /\ Handles(s, "5") /\ sess[s].loggedOn
    /\ Send(s, [type |-> "LOGOUT"], [Consumed(s) EXCEPT !.running = FALSE])
    /\ UNCHANGED <<engineVars, nextExecId, peerOpen, feedVars>>


(* Heartbeats do nothing, unknown types are ignored. *)
OnHeartbeat(s) ==
    /\ Handles(s, "0") /\ sess[s].loggedOn
    /\ sess' = [sess EXCEPT ![s] = Consumed(s)]
    /\ UNCHANGED <<engineVars, nextExecId, peerOpen, received, feedVars>>

-----------------------------------------------------------------------------
(* on_new_order(): garbage is rejected. *)
RejectNewOrder(s) ==
    /\ Handles(s, "D") /\ sess[s].loggedOn
    /\ Garbage(Head(sess[s].rx))
    /\ sess' = [sess EXCEPT ![s] =
          [Consumed(s) EXCEPT !.pc = "report",
                              !.reports = <<Report(0, "REJECTED", 0, 0, 0, 0)>>]]
    /\ UNCHANGED <<engineVars, nextExecId, peerOpen, received, feedVars>>

(* on_new_order() up to the unlock: place the order, copy its trades, read  *)
(* the top of book.                                                         *)
OnNewOrder(s) ==
    LET m      == Head(sess[s].rx)
        order  == [id |-> nextId, side |-> m.side, price |-> PriceTicks(m.milli),
                   qty |-> WholeQty(m.tenths)]
        trades == TradesOf(book, order)
        after  == BookAfter(book, order, Capacity)
    IN  /\ Handles(s, "D") /\ sess[s].loggedOn
        /\ ~Garbage(m)
        /\ book' = after
        /\ nextId' = nextId + 1
        /\ tape' = tape \o [i \in DOMAIN trades |-> [by |-> s, trade |-> trades[i]]]
        /\ tops' = tops \cup {TopOf(after)}
        /\ sess' = [sess EXCEPT ![s] =
              [Consumed(s) EXCEPT !.pc = "report", !.publish = TRUE,
                                  !.top = TopOf(after),
                                  !.reports = ReportsOf(order.id, order.qty, trades)]]
        /\ UNCHANGED <<nextExecId, peerOpen, received, feedVars>>

(* on_cancel() up to the unlock. *)
OnCancel(s) ==
    LET id    == Head(sess[s].rx).order
        found == {o \in book : o.id = id}
        type  == IF found # {} THEN "CANCELED" ELSE "REJECTED"
    IN  /\ Handles(s, "F") /\ sess[s].loggedOn
        /\ book' = book \ found
        /\ tops' = tops \cup {TopOf(book \ found)}
        /\ sess' = [sess EXCEPT ![s] =
              [Consumed(s) EXCEPT !.pc = "report",
                                  !.reports = <<Report(id, type, 0, 0, 0, 0)>>]]
        /\ UNCHANGED <<nextId, tape, nextExecId, peerOpen, received, feedVars>>

(* Mutant: ids counted per session. *)
ExecId_PerSession(s) == sess[s].outSeq

(* next_exec_id_.fetch_add(1) *)
ExecId(s) == nextExecId

(* send_exec_report().  After the last report of an order the worker goes   *)
(* on to publish, after the report of a cancel to the next frame.           *)
SendExecReport(s) ==
    LET rest == Tail(sess[s].reports)
        pc   == IF rest # <<>> THEN "report"
                ELSE IF sess[s].publish /\ FeedOpen THEN "load" ELSE "drain"
    IN  /\ sess[s].pc = "report"
        /\ nextExecId' = nextExecId + 1
        /\ Send(s, [exec |-> ExecId(s)] @@ Head(sess[s].reports),
                [sess[s] EXCEPT !.reports = rest, !.pc = pc,
                                !.publish = @ /\ rest # <<>>,
                                !.top = IF pc = "drain" THEN NoTop ELSE @])
        /\ UNCHANGED <<engineVars, peerOpen, feedVars>>

(* Mutant: market data before logon. *)
OnMdRequest_Anyone(s) ==
    /\ Handles(s, "V")
    /\ sess' = [sess EXCEPT ![s] = [Consumed(s) EXCEPT !.pc = "snapshot", !.top = TopOf(book)]]
    /\ UNCHANGED <<engineVars, nextExecId, peerOpen, received, feedVars>>

(* on_md_request() up to the unlock. *)
OnMdRequest(s) ==
    /\ Handles(s, "V") /\ sess[s].loggedOn
    /\ sess' = [sess EXCEPT ![s] = [Consumed(s) EXCEPT !.pc = "snapshot", !.top = TopOf(book)]]
    /\ UNCHANGED <<engineVars, nextExecId, peerOpen, received, feedVars>>

(* Mutant: the offer is read after the unlock. *)
SendMdSnapshot_Torn(s) ==
    /\ sess[s].pc = "snapshot"
    /\ Send(s, [type |-> "SNAPSHOT",
                top |-> [sess[s].top EXCEPT !.ask = TopOf(book).ask,
                                            !.askSz = TopOf(book).askSz]],
            [sess[s] EXCEPT !.pc = "drain", !.top = NoTop])
    /\ UNCHANGED <<engineVars, nextExecId, peerOpen, feedVars>>

SendMdSnapshot(s) ==
    /\ sess[s].pc = "snapshot"
    /\ Send(s, [type |-> "SNAPSHOT", top |-> sess[s].top],
            [sess[s] EXCEPT !.pc = "drain", !.top = NoTop])
    /\ UNCHANGED <<engineVars, nextExecId, peerOpen, feedVars>>

-----------------------------------------------------------------------------
(* publish_l1(): ++seq_ on a plain integer is a load and a store that other *)
(* workers may come between.                                                *)
LoadSeq(s) ==
    /\ sess[s].pc = "load"
    /\ sess' = [sess EXCEPT ![s].pc = "store", ![s].seq = feedSeq]
    /\ UNCHANGED <<engineVars, nextExecId, peerOpen, received, feedVars>>


StoreSeq(s) ==
    /\ sess[s].pc = "store"
    /\ feedSeq' = sess[s].seq + 1
    /\ sess' = [sess EXCEPT ![s].pc = "send", ![s].seq = @ + 1]
    /\ UNCHANGED <<engineVars, nextExecId, peerOpen, received, wire>>

(* The datagram is formatted from the value just stored or from seq_ read   *)
(* again, as the compiler pleases, and sendto() may fail.                   *)
SendDatagram(s) ==
    /\ sess[s].pc = "send"
    /\ \/ \E n \in {sess[s].seq, feedSeq} :
             wire' = Append(wire, [seq |-> n, top |-> sess[s].top])
       \/ FeedLossy /\ UNCHANGED wire
    /\ sess' = [sess EXCEPT ![s].pc = "drain", ![s].top = NoTop, ![s].seq = 0]
    /\ UNCHANGED <<engineVars, nextExecId, peerOpen, received, feedSeq>>

-----------------------------------------------------------------------------
Batches == UNION {[1 .. n -> Requests] : n \in 1 .. MaxBatch}

(* What the worker of session s does by itself. *)
Worker(s) ==
    \/ SessionEnd(s) \/ DrainDone(s) \/ OnMalformed(s) \/ NotLoggedOn(s)
    \/ OnLogon(s) \/ OnLogout(s) \/ OnHeartbeat(s)
    \/ RejectNewOrder(s) \/ OnNewOrder(s) \/ OnCancel(s) \/ SendExecReport(s)
    \/ OnMdRequest(s) \/ SendMdSnapshot(s)
    \/ LoadSeq(s) \/ StoreSeq(s) \/ SendDatagram(s)

Next ==
    \E s \in Sessions :
        \/ Worker(s)
        \/ PeerClose(s)
        \/ \E batch \in Batches : Recv(s, batch)

(* Each worker is a thread the operating system schedules, and engine_mu_   *)
(* is only held for a bounded time.                                         *)
Fairness == \A s \in Sessions : WF_vars(Worker(s))

Spec == Init /\ [][Next]_vars /\ Fairness

-----------------------------------------------------------------------------
ExecTypes == {"NEW", "PARTIAL_FILL", "FILL", "CANCELED", "REJECTED"}

(* The ExecutionReports client s got, in order. *)
ExecsOf(s) ==
    LET execs == SelectSeq(received[s], LAMBDA m : m.body.type \in ExecTypes)
    IN  [i \in DOMAIN execs |-> execs[i].body]

(* Their fills, and the fills the engine made for orders of s. *)
FillsOf(s) ==
    LET fills == SelectSeq(ExecsOf(s), LAMBDA r : r.last > 0)
    IN  [i \in DOMAIN fills |-> <<fills[i].order, fills[i].last, fills[i].px>>]

EngineFillsOf(s) ==
    LET own == SelectSeq(tape, LAMBDA t : t.by = s)
    IN  [i \in DOMAIN own |-> <<own[i].trade.taker, own[i].trade.qty, own[i].trade.price>>]

(* The variables have the types of the code's members and locals.           *)
TypeOK ==
    /\ IsFiniteSet(book) /\ nextId \in Nat /\ nextExecId \in Nat /\ feedSeq \in Nat
    /\ \A s \in Sessions :
         /\ sess[s].pc \in {"recv", "drain", "report", "snapshot",
                            "load", "store", "send", "closed"}
         /\ sess[s].rx \in Seq(Requests)
         /\ (sess[s].pc = "report") <=> (sess[s].reports # <<>>)
         /\ sess[s].loggedOn \in BOOLEAN /\ sess[s].running \in BOOLEAN
    /\ peerOpen \in [Sessions -> BOOLEAN]
    /\ \A i \in DOMAIN wire : wire[i].seq \in Nat

(* No two ExecutionReports carry the same ExecID, whatever sessions they    *)
(* went to: next_exec_id_.fetch_add(1) in send_exec_report.                 *)
ExecIdsUnique ==
    \A s, t \in Sessions : \A i \in DOMAIN ExecsOf(s), j \in DOMAIN ExecsOf(t) :
        ExecsOf(s)[i].exec = ExecsOf(t)[j].exec => s = t /\ i = j

(* A client sees MsgSeqNum 1, 2, 3, ... with no gap and no repetition:      *)
(* out_seq++ in every send_ helper, a broken connection included.           *)
OutSeqGapless ==
    \A s \in Sessions : \A i \in DOMAIN received[s] : received[s][i].seq = i


(* The reports of one order add up: CumQty is the sum of the LastQty so     *)
(* far, CumQty + LeavesQty stays the quantity of the order, and only a      *)
(* report with nothing left says FILL (on_new_order, the report loop).      *)
ReportsAddUp ==
    \A s \in Sessions : \A i \in DOMAIN ExecsOf(s) :
        LET r       == ExecsOf(s)[i]
            earlier == {j \in 1 .. i : ExecsOf(s)[j].order = r.order
                                       /\ ExecsOf(s)[j].type \notin {"CANCELED", "REJECTED"}}
        IN  r.type \in {"NEW", "PARTIAL_FILL", "FILL"} =>
              /\ r.cum = MapThenSumSet(LAMBDA j : ExecsOf(s)[j].last, earlier)
              /\ \A j \in earlier : ExecsOf(s)[j].cum + ExecsOf(s)[j].leaves = r.cum + r.leaves
              /\ (r.type = "FILL") <=> (r.last > 0 /\ r.leaves = 0)

(* A client is sent reports and snapshots only after its logon was          *)
(* acknowledged, however its frames are batched (handle_message).           *)
OnlyAfterLogon ==
    \A s \in Sessions : \A i \in DOMAIN received[s] :
        received[s][i].body.type \in ExecTypes \cup {"SNAPSHOT"} =>
            \E j \in 1 .. i - 1 : received[s][j].body.type = "LOGON"

(* Every top of book that is published or sent as a snapshot is one the     *)
(* book really had: its four numbers were read under one lock.              *)
TopsAreReal ==
    /\ \A i \in DOMAIN wire : wire[i].top \in tops
    /\ \A s \in Sessions : \A i \in DOMAIN received[s] :
          received[s][i].body.type = "SNAPSHOT" => received[s][i].body.top \in tops

(* Sequence numbers increase from datagram to datagram, so a consumer that  *)
(* misses one sees a gap (feed.h: "Sequence numbers auto-increment so       *)
(* consumers can detect drops").                                            *)
FeedInOrder ==
    \A i, j \in DOMAIN wire : i < j => wire[i].seq < wire[j].seq

(* When no worker is in a handler, the last datagram shows the top of book  *)
(* as it is (feed.h: "On every book change the gateway calls                *)
(* publish_l1()").                                                          *)
FeedCurrent ==
    (\A s \in Sessions : sess[s].pc \in {"recv", "drain", "closed"})
        => TopOf(book) = IF wire = <<>> THEN NoTop ELSE Last(wire).top

(* A session that was sent a Logout is closed: every path that calls        *)
(* send_logout also clears running, and the worker gets back to its loop    *)
(* condition.                                                               *)
LogoutCloses ==
    \A s \in Sessions :
        (\E i \in DOMAIN received[s] : received[s][i].body.type = "LOGOUT")
            ~> (sess[s].pc = "closed")

=============================================================================
