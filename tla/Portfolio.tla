------------------------------ MODULE Portfolio ------------------------------
(***************************************************************************)
(* hft::backtest::Portfolio (mvp/src/backtest/portfolio.cpp): the account   *)
(* of one strategy, kept at an average cost in whole ticks.  The fields     *)
(* cash and slack are history: what the fills have paid, and how far the    *)
(* averages that were rounded may be off.                                   *)
(***************************************************************************)
EXTENDS CppInt

Account == [pos : Int, avg : Int, realized : Int, gross : Int, cash : Int, slack : Int]

NewAccount == [pos |-> 0, avg |-> 0, realized |-> 0, gross |-> 0, cash |-> 0, slack |-> 0]

Signed(side, qty) == IF side = "Buy" THEN qty ELSE -qty

SameDirection(p, d) == (p.pos > 0 /\ d > 0) \/ (p.pos < 0 /\ d < 0)

(* Opening from flat. *)
Open(p, price, d) == [p EXCEPT !.pos = d, !.avg = price]

(* Mutant: the old average is weighted with the new position. *)
Extend_Overweight(p, price, d) ==
    [p EXCEPT !.pos = @ + d,
              !.avg = CDiv(p.avg * Abs(p.pos + d) + price * Abs(d), Abs(p.pos) + Abs(d)),
              !.slack = @ + Abs(p.pos) + Abs(d) - 1]

(* A fill in the direction of the position: the weighted average. *)
Extend(p, price, d) ==
    [p EXCEPT !.pos = @ + d,
              !.avg = CDiv(p.avg * Abs(p.pos) + price * Abs(d), Abs(p.pos) + Abs(d)),
              !.slack = @ + Abs(p.pos) + Abs(d) - 1]

(* A fill against the position: profit on what is closed; the rest of a     *)
(* fill that goes past zero opens a position at its price.                  *)
Reduce(p, price, d) ==
    LET closed == IF Abs(d) < Abs(p.pos) THEN Abs(d) ELSE Abs(p.pos)
        perUnit == IF p.pos > 0 THEN price - p.avg ELSE p.avg - price
    IN  [p EXCEPT !.pos = @ + d, !.realized = @ + perUnit * closed,
                  !.avg = IF Abs(d) < Abs(p.pos) THEN @
                          ELSE IF Abs(d) = Abs(p.pos) THEN 0 ELSE price]

(* on_fill() *)
OnFill(p, side, price, qty) ==
    LET d == Signed(side, qty)
        q == IF p.pos = 0 THEN Open(p, price, d)
             ELSE IF SameDirection(p, d) THEN Extend(p, price, d)
             ELSE Reduce(p, price, d)
    IN  [q EXCEPT !.gross = @ + qty, !.cash = @ - price * d]

(* unrealized_pnl() and total_pnl() *)
UnrealizedPnl(p, mark) ==
    IF p.pos = 0 THEN 0
    ELSE IF p.pos > 0 THEN (mark - p.avg) * p.pos ELSE (p.avg - mark) * (-p.pos)

TotalPnl(p, mark) == p.realized + UnrealizedPnl(p, mark)
=============================================================================
