------------------------------- MODULE Backtest -------------------------------
(***************************************************************************)
(* hft::backtest::Replay::run (mvp/src/backtest/replay.cpp) with the two    *)
(* strategies of bench/backtest_main.cpp: a tick is applied to the engine,  *)
(* its trades are routed to the strategies whose orders they filled, a top  *)
(* of book is taken, and the market maker and then the crossover see it and *)
(* may place orders, whose trades are routed in turn.                       *)
(*                                                                          *)
(* The program has one thread; a step is one tick, one order placed by a    *)
(* strategy, or one fill.  Time stamps, the Realtime pauses, names and the  *)
(* counters that are only printed are left out.                             *)
(***************************************************************************)
EXTENDS MatchRules, Portfolio

CONSTANTS Ticks,       \* bound: the files; Ticks[n] are the ticks that may come n-th
          Capacity,    \* slots of the engine's order pool
          NoAsk,       \* best_ask() of an empty side, INT64_MAX in the code
          QuoteQty, Spread, RequoteThreshold, RequoteInterval, InventoryLimit,
          FastWindow, SlowWindow, TargetPosition, Slippage

ASSUME BacktestAssumption ==
    /\ Capacity \in Nat \ {0} /\ NoAsk \in Nat \ {0}
    /\ QuoteQty \in Nat \ {0} /\ Spread \in Nat \ {0} /\ RequoteThreshold \in Nat
    /\ RequoteInterval \in Nat \ {0} /\ InventoryLimit \in Nat
    /\ FastWindow \in Nat \ {0} /\ SlowWindow \in Nat \ {0}
    /\ TargetPosition \in Nat \ {0} /\ Slippage \in Nat

VARIABLES pc,          \* where run() is
          seen,        \* ticks consumed
          tick,        \* the tick being replayed
          book,        \* the engine's resting orders
          trades,      \* what is left of last_trades() to be routed
          call,        \* the placement they come from, and where it returns to
          routing,     \* order id -> strategy
          extToEng,    \* external id -> order id
          lastTradePx,
          top,         \* the contexts' top_
          mm,          \* members of MarketMaker
          ma,          \* members of MACross
          accts,       \* the strategies' portfolios
          owner,       \* history: who placed order 1, 2, ...; ids are consecutive
          due,         \* history: what the trades of a strategy's orders add up to
          dropped,     \* history: orders that left the routing table while resting
          requoted,    \* history: has the market maker quoted since the snapshot?
          rested       \* history: has an order of the crossover ever rested?

engineVars == <<book, trades, call, owner>>
stratVars  == <<mm, ma, requoted, rested>>
acctVars   == <<accts, due>>
vars == <<pc, seen, tick, engineVars, routing, extToEng, lastTradePx, top, stratVars,
          acctVars, dropped>>

Strategies == {"mm", "ma"}
Exo == "exogenous"

Opposite(side) == IF side = "Buy" THEN "Sell" ELSE "Buy"
Put(f, x, v) == [y \in DOMAIN f \cup {x} |-> IF y = x THEN v ELSE f[y]]
Without(f, S) == [y \in DOMAIN f \ S |-> f[y]]
IdsOf(orders) == {o.id : o \in orders}
OwnedBy(who) == {o \in book : owner[o.id] = who}

-----------------------------------------------------------------------------
(* snapshot_top() *)
SnapshotTop(bk, last) ==
    LET bid == BestBid(bk)
        ask == IF BestAsk(bk, NoAsk) = NoAsk THEN 0 ELSE BestAsk(bk, NoAsk)
    IN  [bid |-> bid, bidQty |-> IF bid # 0 THEN QtyAt(bk, "Buy", bid) ELSE 0,
         ask |-> ask, askQty |-> IF ask # 0 THEN QtyAt(bk, "Sell", ask) ELSE 0,
         mid |-> IF bid # 0 /\ ask # 0 THEN CDiv(bid + ask, 2)
                 ELSE IF bid # 0 THEN bid ELSE IF ask # 0 THEN ask ELSE last]

TwoSided == top.bid # 0 /\ top.ask # 0

(* Engine::place_limit on book bk, for run() itself or, with routing table  *)
(* rt, for StrategyContext::place_limit.                                    *)
Place(bk, rt, who, side, price, qty, ret) ==
    LET id == Len(owner) + 1
        order == [id |-> id, side |-> side, price |-> price, qty |-> qty]
    IN  /\ book' = BookAfter(bk, order, Capacity)
        /\ trades' = TradesOf(bk, order)
        /\ owner' = Append(owner, who)
        /\ call' = [who |-> who, side |-> side, ret |-> ret]
        /\ routing' = IF who = Exo THEN rt ELSE Put(rt, id, who)
        /\ rested' = (rested \/ (who = "ma" /\ Rests(bk, order, Capacity)))
        /\ pc' = IF trades' = <<>> THEN ret ELSE "fills"

-----------------------------------------------------------------------------
Init ==
    /\ pc = "tick" /\ seen = 0 /\ tick = [event |-> "None"]
    /\ book = {} /\ trades = <<>> /\ owner = <<>>
    /\ call = [who |-> Exo, side |-> "Buy", ret |-> "snapshot"]
    /\ routing = <<>> /\ extToEng = <<>> /\ lastTradePx = 0
    /\ top = SnapshotTop({}, 0)
    /\ mm = [mid |-> 0, count |-> 0, bid |-> 0, ask |-> 0]
    /\ ma = [fast |-> <<>>, slow |-> <<>>, fastSum |-> 0, slowSum |-> 0, sign |-> 0]
    /\ accts = [s \in Strategies |-> NewAccount] /\ due = [s \in Strategies |-> 0]
    /\ dropped = {} /\ requoted = FALSE /\ rested = FALSE

(* The ticks that may come next, and going on with one of them. *)
Upcoming == IF seen < Len(Ticks) THEN Ticks[seen + 1] ELSE {}
NextTick(t) == pc = "tick" /\ seen' = seen + 1 /\ tick' = t

(* case EventType::Add *)
ReplayAdd(t) ==
    /\ NextTick(t) /\ t.event = "Add"
    /\ Place(book, routing, Exo, t.side, t.price, t.qty, "snapshot")
    /\ extToEng' = IF t.ext # 0 THEN Put(extToEng, t.ext, Len(owner) + 1) ELSE extToEng
    /\ UNCHANGED <<lastTradePx, top, mm, ma, requoted, acctVars, dropped>>

(* case EventType::Cancel; the order may have been filled long ago. *)
ReplayCancel(t) ==
    /\ NextTick(t) /\ t.event = "Cancel"
    /\ IF t.ext \in DOMAIN extToEng
       THEN /\ book' = {o \in book : o.id # extToEng[t.ext]}
            /\ extToEng' = Without(extToEng, {t.ext})
       ELSE UNCHANGED <<book, extToEng>>
    /\ pc' = "snapshot"
    /\ UNCHANGED <<trades, call, owner, routing, lastTradePx, top, stratVars, acctVars, dropped>>

(* case EventType::Trade: a print moves no order. *)
ReplayTrade(t) ==
    /\ NextTick(t) /\ t.event = "Trade"
    /\ lastTradePx' = t.price /\ pc' = "snapshot"
    /\ UNCHANGED <<engineVars, routing, extToEng, top, stratVars, acctVars, dropped>>

-----------------------------------------------------------------------------

(* A fill of a strategy's order, as its portfolio is told. *)
Credit(who, side, t) ==
    accts' = [accts EXCEPT ![who] = OnFill(@, side, t.price, t.qty)]

(* The same fill in the history, whether or not the strategy is told. *)
Owe(who, side, t) ==
    due' = IF who = Exo THEN due ELSE [due EXCEPT ![who] = @ + Signed(side, t.qty)]

NextFill ==
    /\ trades' = Tail(trades)
    /\ pc' = IF Tail(trades) = <<>> THEN call.ret ELSE "fills"
    /\ UNCHANGED <<seen, tick, book, call, owner, extToEng, top, stratVars>>

(* Mutant: the fill is credited on the taker's side. *)
RouteFill_TakerSide ==
    LET t == Head(trades) maker == t.maker
    IN  /\ pc = "fills" /\ call.who = Exo /\ lastTradePx' = t.price
        /\ Owe(owner[maker], Opposite(call.side), t)
        /\ IF maker \in DOMAIN routing
           THEN /\ Credit(routing[maker], call.side, t)
                /\ routing' = Without(routing, {maker})
                /\ dropped' = dropped \cup ({maker} \cap IdsOf(book))
           ELSE UNCHANGED <<accts, routing, dropped>>
        /\ NextFill

(* A trade of an exogenous order, in the loop of run().  The maker leaves   *)
(* the routing table, also when it is only partly filled.                   *)
RouteFill ==
    LET t == Head(trades) maker == t.maker
    IN  /\ pc = "fills" /\ call.who = Exo /\ lastTradePx' = t.price
        /\ Owe(owner[maker], Opposite(call.side), t)
        /\ IF maker \in DOMAIN routing
           THEN /\ Credit(routing[maker], Opposite(call.side), t)
                /\ routing' = Without(routing, {maker})
                /\ dropped' = dropped \cup ({maker} \cap IdsOf(book))
           ELSE UNCHANGED <<accts, routing, dropped>>
        /\ NextFill

(* A trade of a strategy's order, in the loop of                            *)
(* StrategyContext::place_limit: first the taker is told, ...               *)
TakerFill ==
    /\ pc = "fills" /\ call.who # Exo
    /\ Credit(call.who, call.side, Head(trades))
    /\ Owe(call.who, call.side, Head(trades))
    /\ pc' = "maker"
    /\ UNCHANGED <<seen, tick, engineVars, routing, extToEng, lastTradePx, top, stratVars, dropped>>

(* ... then the maker, which may be the same strategy and stays routed.     *)
MakerFill ==
    LET t == Head(trades) maker == t.maker
    IN  /\ pc = "maker"
        /\ Owe(owner[maker], Opposite(call.side), t)
        /\ IF maker \in DOMAIN routing
           THEN Credit(routing[maker], Opposite(call.side), t)
           ELSE UNCHANGED accts
        /\ NextFill
        /\ UNCHANGED <<routing, lastTradePx, dropped>>

(* Mutant: the top is taken before the tick is applied. *)
Snapshot_Stale ==
    /\ pc = "snapshot" /\ pc' = "mm"
    /\ top' = IF call.who = Exo /\ tick.event = "Add"
              THEN SnapshotTop({o \in book : o.id < Len(owner)}, lastTradePx)
              ELSE SnapshotTop(book, lastTradePx)
    /\ requoted' = FALSE
    /\ UNCHANGED <<seen, tick, engineVars, routing, extToEng, lastTradePx, mm, ma, rested,
                   acctVars, dropped>>

(* The top of book that every strategy sees in this tick. *)
Snapshot ==
    /\ pc = "snapshot" /\ pc' = "mm"
    /\ top' = SnapshotTop(book, lastTradePx)
    /\ requoted' = FALSE
    /\ UNCHANGED <<seen, tick, engineVars, routing, extToEng, lastTradePx, mm, ma, rested,
                   acctVars, dropped>>

-----------------------------------------------------------------------------
(* MarketMaker::on_tick *)
Moved == mm.mid = 0 \/ Abs(top.mid - mm.mid) >= RequoteThreshold
IntervalHit == (mm.count + 1) % RequoteInterval = 0

(* Too early, or nothing to do. *)
MmWaits ==
    /\ pc = "mm" /\ pc' = "ma"
    /\ ~TwoSided \/ (~Moved /\ ~IntervalHit)
    /\ mm' = IF TwoSided THEN [mm EXCEPT !.count = (@ + 1) % RequoteInterval] ELSE mm
    /\ UNCHANGED <<seen, tick, engineVars, routing, extToEng, lastTradePx, top, ma, requoted,
                   rested, acctVars, dropped>>

(* Mutant: only the bid is withdrawn. *)
Quotes_BidOnly == {mm.bid} \ {0}

(* The orders cancel_quotes() withdraws. *)
Quotes == {mm.bid, mm.ask} \ {0}

(* Mutant: the limit is tested for long positions only. *)
QuoteAsk_Always(pos) == TRUE

QuoteBid(pos) == pos <= InventoryLimit
QuoteAsk(pos) == pos >= -InventoryLimit

(* cancel_quotes() and the first order of place_quotes().  The position is  *)
(* read once, before that order.                                            *)
MmRequotes ==
    LET live == {o \in book : o.id \in Quotes}
        pos == accts["mm"].pos
    IN  /\ pc = "mm" /\ TwoSided /\ (Moved \/ IntervalHit)
        /\ IF QuoteBid(pos)
           THEN /\ Place(book \ live, Without(routing, IdsOf(live)), "mm", "Buy",
                         top.mid - Spread, QuoteQty, IF QuoteAsk(pos) THEN "mmAsk" ELSE "ma")
                /\ mm' = [mid |-> top.mid, count |-> (mm.count + 1) % RequoteInterval,
                          bid |-> Len(owner) + 1, ask |-> 0]
           ELSE /\ book' = book \ live /\ routing' = Without(routing, IdsOf(live))
                /\ mm' = [mid |-> top.mid, count |-> (mm.count + 1) % RequoteInterval, bid |-> 0, ask |-> 0]
                /\ pc' = "mmAsk"
                /\ UNCHANGED <<trades, call, owner, rested>>
        /\ requoted' = TRUE
        /\ UNCHANGED <<seen, tick, extToEng, lastTradePx, top, ma, acctVars, dropped>>

(* The second order of place_quotes(). *)
MmAsks ==
    /\ pc = "mmAsk"
    /\ Place(book, routing, "mm", "Sell", mm.mid + Spread, QuoteQty, "ma")
    /\ mm' = [mm EXCEPT !.ask = Len(owner) + 1]
    /\ UNCHANGED <<seen, tick, extToEng, lastTradePx, top, ma, requoted, acctVars, dropped>>

-----------------------------------------------------------------------------
(* MACross::push_price *)
Push(win, p, size) == LET w == Append(win, p) IN IF Len(w) > size THEN Tail(w) ELSE w
PushSum(win, sum, p, size) == sum + p - (IF Len(win) = size THEN Head(win) ELSE 0)

PushPrice(p) ==
    [ma EXCEPT !.fast = Push(@, p, FastWindow), !.fastSum = PushSum(ma.fast, @, p, FastWindow),
               !.slow = Push(@, p, SlowWindow), !.slowSum = PushSum(ma.slow, @, p, SlowWindow)]

(* The sign of fast_avg() - slow_avg(), once the slow window is full. *)
SignOf(m) ==
    LET f == CDiv(m.fastSum, Len(m.fast)) s == CDiv(m.slowSum, Len(m.slow))
    IN  IF Len(m.slow) < SlowWindow \/ f = s THEN 0 ELSE IF f > s THEN 1 ELSE -1

(* The order a new sign asks for. *)
Need(sign) == IF sign > 0 THEN TargetPosition - accts["ma"].pos
                          ELSE accts["ma"].pos + TargetPosition

EndOfTick == pc' = "tick"

(* MACross::on_tick, in a tick that brings neither a print nor a mid. *)
MaIdle ==
    /\ pc = "ma" /\ tick.event # "Trade" /\ top.mid = 0
    /\ EndOfTick
    /\ UNCHANGED <<seen, tick, engineVars, routing, extToEng, lastTradePx, top, stratVars,
                   acctVars, dropped>>

(* Otherwise the price is pushed; a new sign is remembered whether or not   *)
(* the book allows an order.                                                *)
MaTick ==
    LET m == PushPrice(IF tick.event = "Trade" THEN tick.price ELSE top.mid)
        sign == SignOf(m)
        new == sign # 0 /\ sign # ma.sign
    IN  /\ pc = "ma" /\ (tick.event = "Trade" \/ top.mid # 0)
        /\ ma' = IF new THEN [m EXCEPT !.sign = sign] ELSE m
        /\ IF new /\ TwoSided /\ Need(sign) > 0
           THEN Place(book, routing, "ma", IF sign > 0 THEN "Buy" ELSE "Sell",
                      IF sign > 0 THEN top.ask + Slippage ELSE top.bid - Slippage,
                      Need(sign), "tick")
           ELSE EndOfTick /\ UNCHANGED <<engineVars, routing, rested>>
        /\ UNCHANGED <<seen, tick, extToEng, lastTradePx, top, mm, requoted, acctVars, dropped>>

(* The end of the file: run() returns. *)
Return ==
    /\ pc = "tick" /\ seen = Len(Ticks) /\ pc' = "done"
    /\ UNCHANGED <<seen, tick, engineVars, routing, extToEng, lastTradePx, top, stratVars,
                   acctVars, dropped>>

Next ==
    \/ \E t \in Upcoming : ReplayAdd(t) \/ ReplayCancel(t) \/ ReplayTrade(t)
    \/ RouteFill \/ TakerFill \/ MakerFill \/ Snapshot
    \/ MmWaits \/ MmRequotes \/ MmAsks
    \/ MaIdle \/ MaTick \/ Return

Spec == Init /\ [][Next]_vars

-----------------------------------------------------------------------------
(* Bounds on the prices and quantities of a fill. *)
FillPrices == 1..NoAsk - 1
FillQtys   == 1..Max({QuoteQty, 2 * TargetPosition})

MmAccount == INSTANCE Account WITH acct <- accts["mm"],
                                  Prices <- FillPrices, Quantities <- FillQtys,
                                  Marks <- {0, NoAsk}
MaAccount == INSTANCE Account WITH acct <- accts["ma"],
                                  Prices <- FillPrices, Quantities <- FillQtys,
                                  Marks <- {0, NoAsk}

(* The variables have the types of the code's members and locals. *)
TypeOK ==
    /\ pc \in {"tick", "fills", "maker", "snapshot", "mm", "mmAsk", "ma", "done"}
    /\ \A o \in book : o.id \in DOMAIN owner /\ o.qty > 0
    /\ DOMAIN routing \subseteq DOMAIN owner /\ \A i \in DOMAIN routing : routing[i] = owner[i]
    /\ trades # <<>> <=> pc \in {"fills", "maker"}
    /\ mm.count \in 0..RequoteInterval - 1 /\ ma.sign \in -1..1
    /\ \A s \in Strategies : accts[s] \in [DOMAIN NewAccount -> Int]


(* At every mark the reported profit of a strategy is what its fills paid   *)
(* plus the value of its position, up to the rounding of its averages.      *)
PnlAddsUp == MmAccount!PnlAddsUp /\ MaAccount!PnlAddsUp

(* Every trade of a strategy's order reaches its portfolio, on the right    *)
(* side: "The replayer maps every Engine-generated Trade back to its        *)
(* originating strategy" (strategy.h:9-10).                                 *)
FillsRouted == \A s \in Strategies : accts[s].pos = due[s]

(* That holds for a strategy none of whose orders was partly filled by an   *)
(* exogenous order and then dropped from the routing table; self-trades and *)
(* trades between the strategies are counted on both sides.                 *)
FillsCredited ==
    \A s \in Strategies : (\A i \in dropped : owner[i] # s) => accts[s].pos = due[s]

(* Every resting order of the market maker is the quote it remembers for    *)
(* that side, so that none is left behind when it quotes again.             *)
NoStrayQuote == \A o \in OwnedBy("mm") : o.id = IF o.side = "Buy" THEN mm.bid ELSE mm.ask

(* The position in the market maker's portfolio exceeds its soft limit by   *)
(* at most one quote, although the limit is only looked at when it quotes.  *)
(* The crossover keeps its position within the target as long as none of    *)
(* its orders has been left resting (ma_cross.h:6 promises it always).      *)
PositionsBounded ==
    /\ Abs(accts["mm"].pos) <= InventoryLimit + QuoteQty
    /\ ~rested => Abs(accts["ma"].pos) <= TargetPosition

(* Unless the market maker has quoted in the same tick, the crossover's     *)
(* order meets the top of book it was shown: it trades at once, at that     *)
(* price and for all that was shown or needed.                              *)
TakesLiquidity ==
    [][ pc = "ma" /\ Len(owner') > Len(owner) /\ ~requoted =>
          /\ trades' # <<>>
          /\ trades'[1].price = IF call'.side = "Buy" THEN top.ask ELSE top.bid
          /\ LET shown == IF call'.side = "Buy" THEN top.askQty ELSE top.bidQty
                 got == MapThenSumSet(LAMBDA i : trades'[i].qty, DOMAIN trades')
             IN  got >= Min({shown, Need(ma'.sign)}) ]_vars
=============================================================================
