------------------------------- MODULE Account -------------------------------
(***************************************************************************)
(* What a Portfolio promises: the account of one strategy as a state        *)
(* machine whose steps are its fills, at any prices and quantities.         *)
(***************************************************************************)
EXTENDS Portfolio

CONSTANTS Prices, Quantities,  \* of the fills: integers, and positive integers
          Marks                \* prices a position is valued at

VARIABLE acct

Init == acct = NewAccount

Fill(side, price, qty) == acct' = OnFill(acct, side, price, qty)

Next == \E side \in {"Buy", "Sell"}, price \in Prices, qty \in Quantities :
            Fill(side, price, qty)

Spec == Init /\ [][Next]_acct

-----------------------------------------------------------------------------
(* At every mark, total_pnl() is what the fills have paid plus the value of *)
(* the position, up to the rounding of the averages: each fill that extends *)
(* a position to n units loses less than one tick for each of them, and no  *)
(* other fill loses anything, whatever it closes or flips.                  *)
PnlAddsUp ==
    \A mark \in Marks :
        Abs(TotalPnl(acct, mark) - (acct.cash + acct.pos * mark)) <= acct.slack
=============================================================================
