---------------------------- MODULE AccountProofs ----------------------------
(***************************************************************************)
(* The profit a Portfolio reports is the cash its fills have paid plus the  *)
(* value of its position, up to the rounding of its averages, for all       *)
(* prices, quantities and marks.  The argument: realized - avg * pos - cash *)
(* does not depend on the mark; opening, closing and flipping leave it      *)
(* alone, and extending a position changes it by a remainder of a division. *)
(***************************************************************************)
EXTENDS Account, TLAPS

(* What has been lost to rounding so far. *)
Lost(p) == p.realized - p.avg * p.pos - p.cash

(* The end of on_fill(), whatever the fill is. *)
After(p, gross, paid) == [p EXCEPT !.gross = gross, !.cash = @ - paid]

Cost(price, d) == price * d

(* Nothing, or at most n - 1, is lost between two states of an account. *)
Keeps(p, q) == q \in Account /\ q.slack = p.slack /\ Lost(q) = Lost(p)
Loses(p, q, n) ==
    q \in Account /\ q.slack = p.slack + (n - 1) /\ Abs(Lost(q) - Lost(p)) <= n - 1

IInv == acct \in Account /\ Abs(Lost(acct)) <= acct.slack

-----------------------------------------------------------------------------
(* C++ division is off by less than the divisor. *)
LEMMA DivRemainder ==
    ASSUME NEW a \in Int, NEW b \in Nat \ {0}
    PROVE  /\ CDiv(a, b) \in Int
           /\ Abs(a - CDiv(a, b) * b) <= b - 1
<1>1. \A n \in Nat : /\ n \div b \in Int
                     /\ (n \div b) * b <= n /\ n - (n \div b) * b <= b - 1
  BY SMT
<1>2. CASE a < 0
  <2>1. -a \in Nat
    BY <1>2
  <2> DEFINE q == (-a) \div b
  <2>2. q \in Int /\ q * b <= -a /\ -a - q * b <= b - 1
    BY <1>1, <2>1
  <2>3. CDiv(a, b) = -q
    BY <1>2 DEF CDiv
  <2> HIDE DEF q
  <2>4. (-q) * b = -(q * b)
    BY <2>2
  <2> QED
    BY <2>2, <2>3, <2>4 DEF Abs
<1>3. CASE a >= 0
  <2>1. a \in Nat
    BY <1>3
  <2> DEFINE q == a \div b
  <2>2. q \in Int /\ q * b <= a /\ a - q * b <= b - 1
    BY <1>1, <2>1
  <2>3. CDiv(a, b) = q
    BY <1>3 DEF CDiv
  <2> HIDE DEF q
  <2> QED
    BY <2>2, <2>3 DEF Abs
<1> QED
  BY <1>2, <1>3

(* The reported profit differs from the cash flow by Lost, at every mark. *)
LEMMA MarkIrrelevant ==
    ASSUME NEW p \in Account, NEW mark \in Int
    PROVE  TotalPnl(p, mark) - (p.cash + p.pos * mark) = Lost(p)
<1>1. \A r, a, n, c \in Int : r + (mark - a) * n - (c + n * mark) = r - a * n - c
  OBVIOUS
<1>2. \A a, n \in Int : (a - mark) * (-n) = (mark - a) * n
  OBVIOUS
<1>3. UnrealizedPnl(p, mark) = (mark - p.avg) * p.pos
  BY <1>2 DEF UnrealizedPnl, Account
<1> QED
  BY <1>1, <1>3 DEF TotalPnl, Lost, Account

-----------------------------------------------------------------------------
(* A fill that opens a position loses nothing. *)
LEMMA OpenKeeps ==
    ASSUME NEW p \in Account, NEW price \in Int, NEW d \in Int, p.pos = 0,
           NEW g \in Int
    PROVE  Keeps(p, After(Open(p, price, d), g, Cost(price, d)))
<1> DEFINE paid == Cost(price, d)
           q == After(Open(p, price, d), g, paid)
<1>0. q = After(Open(p, price, d), g, paid) /\ paid = Cost(price, d)
  OBVIOUS
<1>a. paid \in Int
  BY DEF Cost
<1> HIDE DEF paid, q
<1>1. p.avg \in Int /\ p.realized \in Int /\ p.cash \in Int /\ p.slack \in Int
  BY DEF Account
<1> DEFINE c == p.cash - paid
<1>2. c \in Int
  BY <1>1, <1>a
<1>3. q = [pos |-> d, avg |-> price, realized |-> p.realized, gross |-> g,
           cash |-> c, slack |-> p.slack]
  BY <1>0, Zenon DEF Open, After, Account
<1> HIDE DEF c
<1>4. /\ q \in Account /\ q.pos = d /\ q.avg = price /\ q.realized = p.realized
      /\ q.cash = c /\ q.slack = p.slack
  BY <1>1, <1>2, <1>3, SMT DEF Account
<1>5. Lost(q) = p.realized - price * d - (p.cash - paid)
  BY <1>4, Zenon DEF Lost, c
<1>6. Lost(p) = p.realized - p.cash
  BY <1>1 DEF Lost
<1>7. Lost(q) = Lost(p)
  BY <1>0, <1>1, <1>5, <1>6 DEF Cost
<1> QED
  BY <1>4, <1>7, Zenon DEF Keeps, q, paid

(* A fill that extends a position loses less than one tick a unit. *)
LEMMA ExtendLoses ==
    ASSUME NEW p \in Account, NEW price \in Int, NEW d \in Int, SameDirection(p, d),
           NEW g \in Int
    PROVE  Loses(p, After(Extend(p, price, d), g, Cost(price, d)), Abs(p.pos) + Abs(d))
<1> DEFINE paid == Cost(price, d)
           q == After(Extend(p, price, d), g, paid)
<1>0. q = After(Extend(p, price, d), g, paid) /\ paid = Cost(price, d)
  OBVIOUS
<1>a. paid \in Int
  BY DEF Cost
<1> HIDE DEF paid, q
<1>1. /\ p.pos \in Int /\ p.avg \in Int /\ p.realized \in Int /\ p.cash \in Int
      /\ p.slack \in Int
  BY DEF Account
<1> DEFINE n == Abs(p.pos) + Abs(d)
           N == p.avg * Abs(p.pos) + price * Abs(d)
           v == CDiv(N, n)
           pos == p.pos + d
           c == p.cash - paid
           s == p.slack + Abs(p.pos) + Abs(d) - 1
<1>2. n \in Nat \ {0} /\ pos \in Int /\ c \in Int /\ s \in Int
  BY <1>1, <1>a DEF SameDirection, Abs
<1>3. N \in Int
  BY <1>1 DEF Abs
<1>4. v \in Int /\ Abs(N - v * n) <= n - 1
  BY <1>2, <1>3, DivRemainder
<1>5. q = [pos |-> pos, avg |-> v, realized |-> p.realized, gross |-> g,
           cash |-> c, slack |-> s]
  BY <1>0, Zenon DEF Extend, After, Account
<1> HIDE DEF v, pos, c, s
<1>6. /\ q \in Account /\ q.pos = pos /\ q.avg = v /\ q.realized = p.realized
      /\ q.cash = c /\ q.slack = s
  BY <1>1, <1>2, <1>3, <1>4, <1>5, SMT DEF Account
<1>7. Lost(q) = p.realized - v * (p.pos + d) - (p.cash - paid)
  BY <1>6, Zenon DEF Lost, c, pos
<1>8. Lost(p) = p.realized - p.avg * p.pos - p.cash
  BY DEF Lost
<1>9. Abs(Lost(q) - Lost(p)) <= n - 1
  <2> DEFINE z == N - v * n
  <2>1. z \in Int
    BY <1>2, <1>3, <1>4
  <2>2. p.pos > 0 /\ d > 0 => Lost(q) - Lost(p) = z
    <3>1. ASSUME p.pos > 0, d > 0 PROVE n = p.pos + d /\ N = p.avg * p.pos + price * d
      BY <1>1, <3>1 DEF Abs
    <3> HIDE DEF n, N
    <3> QED
      BY <1>1, <1>4, <1>7, <1>8, <1>0, <3>1 DEF Cost
  <2>3. p.pos < 0 /\ d < 0 => Lost(q) - Lost(p) = -z
    <3>1. ASSUME p.pos < 0, d < 0 PROVE n = -(p.pos + d) /\ N = -(p.avg * p.pos + price * d)
      BY <1>1, <3>1 DEF Abs
    <3> HIDE DEF n, N
    <3>2. v * (-(p.pos + d)) = -(v * (p.pos + d))
      BY <1>1, <1>4
    <3>3. ASSUME p.pos < 0, d < 0 PROVE z = v * (p.pos + d) - (p.avg * p.pos + price * d)
      BY <1>1, <1>4, <3>1, <3>2, <3>3
    <3> HIDE DEF z
    <3> QED
      BY <1>1, <1>4, <1>7, <1>8, <1>0, <3>3 DEF Cost
  <2> HIDE DEF z, n
  <2>4. Abs(z) <= n - 1
    BY <1>4, Zenon DEF z
  <2>5. Abs(-z) = Abs(z)
    BY <2>1 DEF Abs
  <2> QED
    BY <2>2, <2>3, <2>4, <2>5, Zenon DEF SameDirection
<1>10. s = p.slack + (n - 1)
  BY <1>1, <1>2 DEF s, Abs
<1> QED
  BY <1>6, <1>9, <1>10, Zenon DEF Loses, q, paid

(* A fill that closes or flips a position loses nothing. *)
LEMMA ReduceKeeps ==
    ASSUME NEW p \in Account, NEW price \in Int, NEW d \in Int, p.pos # 0, d # 0,
           ~SameDirection(p, d), NEW g \in Int
    PROVE  Keeps(p, After(Reduce(p, price, d), g, Cost(price, d)))
<1> DEFINE paid == Cost(price, d)
           q == After(Reduce(p, price, d), g, paid)
<1>0. q = After(Reduce(p, price, d), g, paid) /\ paid = Cost(price, d)
  OBVIOUS
<1>a. paid \in Int
  BY DEF Cost
<1> HIDE DEF paid, q
<1>1. /\ p.pos \in Int /\ p.avg \in Int /\ p.realized \in Int /\ p.cash \in Int
      /\ p.slack \in Int
  BY DEF Account
<1> DEFINE closed == IF Abs(d) < Abs(p.pos) THEN Abs(d) ELSE Abs(p.pos)
           perUnit == IF p.pos > 0 THEN price - p.avg ELSE p.avg - price
           gain == perUnit * closed
           pos == p.pos + d
           avg == IF Abs(d) < Abs(p.pos) THEN p.avg
                  ELSE IF Abs(d) = Abs(p.pos) THEN 0 ELSE price
           r == p.realized + gain
           c == p.cash - paid
<1>2. closed \in Int /\ perUnit \in Int /\ pos \in Int /\ avg \in Int /\ c \in Int
  BY <1>1, <1>a DEF Abs
<1>3. r \in Int /\ gain \in Int
  BY <1>1, <1>2
<1>4. q = [pos |-> pos, avg |-> avg, realized |-> r, gross |-> g,
           cash |-> c, slack |-> p.slack]
  BY <1>0, Zenon DEF Reduce, After, Account
<1> HIDE DEF pos, avg, r, c
<1>5. /\ q \in Account /\ q.pos = pos /\ q.avg = avg /\ q.realized = r
      /\ q.cash = c /\ q.slack = p.slack
  BY <1>1, <1>2, <1>3, <1>4, SMT DEF Account
<1>6. Lost(q) = (p.realized + gain) - avg * (p.pos + d) - (p.cash - paid)
  BY <1>5, Zenon DEF Lost, c, pos, r
<1>7. Lost(p) = p.realized - p.avg * p.pos - p.cash
  BY DEF Lost
<1>8. Lost(q) = Lost(p)
  <2>1. \/ p.pos > 0 /\ d < 0 /\ Abs(p.pos) = p.pos /\ Abs(d) = -d /\ perUnit = price - p.avg
        \/ p.pos < 0 /\ d > 0 /\ Abs(p.pos) = -p.pos /\ Abs(d) = d /\ perUnit = p.avg - price
    BY <1>1 DEF SameDirection, Abs
  <2>2. CASE Abs(d) < Abs(p.pos)
    <3>1. avg = p.avg /\ closed = Abs(d)
      BY <2>2, Zenon DEF avg
    <3> HIDE DEF closed, perUnit
    <3>2. gain = (p.avg - price) * d
      <4>1. (price - p.avg) * (-d) = (p.avg - price) * d
        BY <1>1
      <4> QED
        BY <2>1, <3>1, <4>1, Zenon
    <3> HIDE DEF gain
    <3> QED
      BY <1>1, <1>0, <1>6, <1>7, <3>1, <3>2 DEF Cost
  <2>3. CASE ~(Abs(d) < Abs(p.pos))
    <3>1. closed = Abs(p.pos) /\ avg = IF Abs(d) = Abs(p.pos) THEN 0 ELSE price
      BY <2>3, Zenon DEF avg
    <3> HIDE DEF closed, perUnit
    <3>2. gain = (price - p.avg) * p.pos
      <4>1. (p.avg - price) * (-p.pos) = (price - p.avg) * p.pos
        BY <1>1
      <4> QED
        BY <2>1, <3>1, <4>1, Zenon
    <3> HIDE DEF gain
    <3>3. CASE Abs(d) = Abs(p.pos)
      <4>1. avg = 0 /\ d = -p.pos
        BY <1>1, <2>1, <3>1, <3>3
      <4>2. avg * (p.pos + d) = 0
        BY <1>1, <4>1
      <4>3. price * d = -(price * p.pos)
        BY <1>1, <4>1
      <4>4. gain = price * p.pos - p.avg * p.pos
        BY <1>1, <3>2
      <4> QED
        BY <1>1, <1>3, <1>0, <1>6, <1>7, <4>2, <4>3, <4>4 DEF Cost
    <3>4. CASE Abs(d) # Abs(p.pos)
      <4>1. avg = price
        BY <3>1, <3>4, Zenon
      <4> QED
        BY <1>1, <1>0, <1>6, <1>7, <3>2, <4>1 DEF Cost
    <3> QED
      BY <3>3, <3>4
  <2> QED
    BY <2>2, <2>3
<1> QED
  BY <1>5, <1>8, Zenon DEF Keeps, q, paid

-----------------------------------------------------------------------------
(* The account of a strategy after any sequence of fills: its reported      *)
(* profit at any mark is its cash flow plus the value of its position, up   *)
(* to the rounding of averages (Portfolio::on_fill, total_pnl).             *)
THEOREM ProfitIsCashFlow ==
    ASSUME Prices \subseteq Int, Quantities \subseteq Nat \ {0}, Marks \subseteq Int
    PROVE  Spec => []PnlAddsUp
<1>1. Init => IInv
  BY DEF Init, IInv, NewAccount, Account, Lost, Abs
<1>2. IInv /\ [Next]_acct => IInv'
  <2> SUFFICES ASSUME IInv, [Next]_acct PROVE IInv'
    OBVIOUS
  <2>1. CASE UNCHANGED acct
    BY <2>1 DEF IInv
  <2>2. ASSUME NEW side \in {"Buy", "Sell"}, NEW price \in Prices, NEW qty \in Quantities,
               Fill(side, price, qty)
        PROVE  IInv'
    <3> DEFINE d == Signed(side, qty)
               g == acct.gross + qty
    <3>1. d \in Int /\ d # 0 /\ g \in Int /\ price \in Int /\ acct \in Account
      BY DEF Signed, IInv, Account
    <3>f. acct' = OnFill(acct, side, price, qty)
      BY <2>2 DEF Fill
    <3>2. CASE acct.pos = 0
      <4>1. acct' = After(Open(acct, price, d), g, Cost(price, d))
        BY <3>f, <3>2 DEF OnFill, After, Open, Cost
      <4> HIDE DEF d, g
      <4>2. Keeps(acct, acct')
        BY <3>1, <3>2, <4>1, OpenKeeps
      <4> QED
        BY <4>2, Zenon DEF Keeps, IInv, Lost, Abs
    <3>3. CASE acct.pos # 0 /\ SameDirection(acct, d)
      <4>1. acct' = After(Extend(acct, price, d), g, Cost(price, d))
        BY <3>f, <3>3 DEF OnFill, After, Extend, Cost
      <4> DEFINE n == Abs(acct.pos) + Abs(d)
      <4> HIDE DEF d, g
      <4>2. Loses(acct, acct', n)
        BY <3>1, <3>3, <4>1, ExtendLoses
      <4>3. acct' \in Account
        BY <4>2, Zenon DEF Loses
      <4>4. Lost(acct) \in Int /\ Lost(acct') \in Int /\ n \in Int
        BY <3>1, <4>3 DEF Lost, Account, Abs
      <4>5. Abs(Lost(acct')) <= acct'.slack
        BY <3>1, <4>2, <4>3, <4>4 DEF Loses, IInv, Abs, Account
      <4> QED
        BY <4>3, <4>5, Zenon DEF IInv, Lost, Abs
    <3>4. CASE acct.pos # 0 /\ ~SameDirection(acct, d)
      <4>1. acct' = After(Reduce(acct, price, d), g, Cost(price, d))
        BY <3>f, <3>4 DEF OnFill, After, Reduce, Cost
      <4> HIDE DEF d, g
      <4>2. Keeps(acct, acct')
        BY <3>1, <3>4, <4>1, ReduceKeeps
      <4> QED
        BY <4>2, Zenon DEF Keeps, IInv, Lost, Abs
    <3> QED
      BY <3>2, <3>3, <3>4
  <2> QED
    BY <2>1, <2>2 DEF Next
<1>3. IInv => PnlAddsUp
  BY MarkIrrelevant DEF IInv, PnlAddsUp
<1> QED
  BY <1>1, <1>2, <1>3, PTL DEF Spec
=============================================================================
