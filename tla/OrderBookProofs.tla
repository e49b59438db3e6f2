--------------------------- MODULE OrderBookProofs ---------------------------
(***************************************************************************)
(* The inductive invariant of OrderBook, for every pool capacity, set of    *)
(* prices and quantities, and number of orders.                             *)
(***************************************************************************)
EXTENDS OrderBookResting

(* A step that moves no order and rewrites no link keeps the lists sound. *)
LEMMA SameLists ==
  ASSUME LevelsOK, LinksOK, Live' = Live, level' = level, keys' = keys,
         \A s \in Live : /\ node'[s].side = node[s].side
                         /\ node'[s].price = node[s].price
                         /\ node'[s].ts = node[s].ts
                         /\ node'[s].prev = node[s].prev
                         /\ node'[s].next = node[s].next
  PROVE  LevelsOK' /\ LinksOK'
<1> DEFINE After(side, p) == {s \in Live' : node'[s].side = side /\ node'[s].price = p}
<1>1. \A side, p : After(side, p) = OrdersAt(side, p) /\ OrdersAt(side, p) \subseteq Live
  BY DEF OrdersAt
<1> HIDE DEF After
<1>2. LevelsOK'
  <2> SUFFICES ASSUME NEW side \in Sides, NEW p \in Prices
               PROVE  LET l == level'[side][p]
                      IN  /\ p \notin keys'[side] => l = EmptyLevel
                          /\ p \in keys'[side] =>
                               /\ l.head \in After(side, p)
                               /\ l.tail \in After(side, p)
                               /\ node'[l.head].prev = NULL
                               /\ node'[l.tail].next = NULL
                               /\ \A s \in After(side, p) :
                                    /\ node'[l.head].ts <= node'[s].ts
                                    /\ node'[s].ts <= node'[l.tail].ts
    BY DEF LevelsOK, EmptyLevel, OrdersAt, After
  <2> QED BY <1>1 DEF LevelsOK
<1>3. LinksOK'
  <2> SUFFICES ASSUME NEW s \in Live'
               PROVE  LET l == level'[node'[s].side][node'[s].price]
                          at == After(node'[s].side, node'[s].price)
                          next == node'[s].next
                          prev == node'[s].prev
                      IN  /\ prev = NULL => l.head = s
                          /\ next = NULL => l.tail = s
                          /\ prev # NULL => prev \in at /\ node'[prev].next = s
                          /\ next # NULL =>
                               /\ next \in at
                               /\ node'[next].prev = s
                               /\ node'[s].ts < node'[next].ts
                               /\ \A t \in at : node'[t].ts <= node'[s].ts
                                                \/ node'[next].ts <= node'[t].ts
    BY DEF LinksOK, OrdersAt, After
  <2> DEFINE at == OrdersAt(node[s].side, node[s].price)
             l == level[node[s].side][node[s].price]
  <2>1. /\ node[s].prev = NULL => l.head = s
        /\ node[s].next = NULL => l.tail = s
        /\ node[s].prev # NULL => node[s].prev \in at /\ node[node[s].prev].next = s
        /\ node[s].next # NULL =>
             /\ node[s].next \in at
             /\ node[node[s].next].prev = s
             /\ node[s].ts < node[node[s].next].ts
             /\ \A t \in at : node[t].ts <= node[s].ts
                              \/ node[node[s].next].ts <= node[t].ts
    BY DEF LinksOK
  <2>2. /\ After(node'[s].side, node'[s].price) = at /\ at \subseteq Live
        /\ level'[node'[s].side][node'[s].price] = l
    BY <1>1
  <2> HIDE DEF at, l
  <2> QED BY <2>1, <2>2
<1> QED BY <1>2, <1>3

(* A step that leaves the book and the pool alone. *)
LEMMA QuietKeepsInvariant ==
  ASSUME IInv, UNCHANGED <<node, level, keys, index, nextTs, poolVars>>,
         nextId' \in Nat, nextId <= nextId', pc' \in {"idle", "match", "destroy"},
         pc = "destroy" => pc' = "destroy",
         trades' \in Seq(Trade), taker' \in [id : Nat, side : Sides, price : Int, remaining : Int],
         pc # "destroy" => TakerOK'
  PROVE  IInv'
<1>1. TypeOK'
  BY DEF IInv, TypeOK, PoolTypeOK, poolVars
<1>2. Live' = Live
  BY DEF Live
<1>3. PoolSafe'
  BY <1>2 DEF IInv, PoolSafe, poolVars
<1>4. Uncrossed'
  BY <1>2 DEF IInv, Uncrossed
<1>5. ASSUME pc' # "destroy"
      PROVE  IndexOK' /\ TakerOK' /\ OrdersOK' /\ LevelsOK' /\ LinksOK'
  <2>1. IndexOK /\ OrdersOK /\ LevelsOK /\ LinksOK /\ TakerOK'
    BY <1>5 DEF IInv, BookLinked
  <2>2. IndexOK'
    <3>1. \A i \in DOMAIN index : i \in Nat
      BY DEF IInv, TypeOK
    <3> QED BY <2>1, <3>1 DEF IndexOK, IInv, TypeOK
  <2>3. OrdersOK'
    BY <2>1, <1>2 DEF OrdersOK
  <2>4. LevelsOK' /\ LinksOK'
    BY <2>1, <1>2, SameLists
  <2> QED BY <2>1, <2>2, <2>3, <2>4
<1> QED
  BY <1>1, <1>3, <1>4, <1>5 DEF IInv, BookLinked

(* A fill that leaves the maker with less to trade. *)
LEMMA PartialFillKeepsInvariant ==
  ASSUME IInv, pc # "destroy", NEW m \in Live, NEW fill \in Int, fill < node[m].qty,
         node' = [node EXCEPT ![m].qty = @ - fill],
         UNCHANGED <<level, keys, index, poolVars>>,
         nextId' = nextId, nextTs' = nextTs, pc' = pc,
         trades' \in Seq(Trade), taker' \in [id : Nat, side : Sides, price : Int, remaining : Int],
         taker'.id = taker.id, taker'.price = taker.price
  PROVE  IInv'
<1>1. TypeOK /\ IndexOK /\ TakerOK /\ OrdersOK /\ LevelsOK /\ LinksOK /\ PoolSafe /\ Uncrossed
  BY DEF IInv, BookLinked
<1>2. Live' = Live
  BY DEF Live
<1>3. Live \subseteq Slots /\ m \in Slots /\ node[m] \in OrderNode /\ node[m].qty \in Int
  BY <1>1, LiveTypes DEF OrderNode
<1>4. node' \in [Slots -> OrderNode]
  <2> DEFINE rest == node[m].qty - fill
  <2>a. rest \in Int
    BY <1>3
  <2>b. [node[m] EXCEPT !.qty = @ - fill] = [node[m] EXCEPT !.qty = rest]
    OBVIOUS
  <2> HIDE DEF rest
  <2>c. [node[m] EXCEPT !.qty = rest] \in OrderNode
    BY <2>a, <1>3, Zenon DEF OrderNode
  <2>1. [node[m] EXCEPT !.qty = @ - fill] \in OrderNode
    BY <2>b, <2>c
  <2> QED BY <2>1, <1>1, <1>3 DEF TypeOK
<1>5. \A s \in Live : /\ node'[s].id = node[s].id
                      /\ node'[s].side = node[s].side
                      /\ node'[s].price = node[s].price
                      /\ node'[s].ts = node[s].ts
                      /\ node'[s].prev = node[s].prev
                      /\ node'[s].next = node[s].next
  BY <1>1, <1>3, Zenon DEF TypeOK, OrderNode
<1>6. \A s \in Live : node'[s].qty > 0
  <2>1. \A s \in Live : node'[s].qty = IF s = m THEN node[m].qty - fill ELSE node[s].qty
    BY <1>1, <1>3, Zenon DEF TypeOK, OrderNode
  <2> QED BY <2>1, <1>1, <1>3 DEF OrdersOK
<1>7. TypeOK'
  BY <1>1, <1>4 DEF TypeOK, PoolTypeOK, poolVars
<1>8. PoolSafe'
  BY <1>1, <1>2 DEF PoolSafe, poolVars
<1>9. IndexOK' /\ TakerOK'
  BY <1>1, <1>5 DEF IndexOK, TakerOK, Live
<1>10. OrdersOK'
  BY <1>1, <1>2, <1>5, <1>6 DEF OrdersOK
<1>11. Uncrossed'
  BY <1>1, <1>2, <1>5 DEF Uncrossed
<1>12. LevelsOK' /\ LinksOK'
  BY <1>1, <1>2, <1>5, SameLists
<1> QED
  BY <1>7, <1>8, <1>9, <1>10, <1>11, <1>12 DEF IInv, BookLinked

(* What one iteration of the matching loop trades. *)
MatchFacts(p, m, fill) ==
    /\ p \in keys[Opposite(taker.side)]
    /\ IsBestLevel(Opposite(taker.side), p)
    /\ Crosses(taker.side, taker.price, p)
    /\ m = level[Opposite(taker.side)][p].head
    /\ m \in Live /\ m # NULL
    /\ node[m].side = Opposite(taker.side) /\ node[m].price = p
    /\ fill \in Int /\ fill > 0 /\ fill <= taker.remaining /\ fill <= node[m].qty
    /\ fill = taker.remaining \/ fill = node[m].qty
    /\ trades' = Append(trades, [taker |-> taker.id, maker |-> node[m].id,
                                 price |-> p, qty |-> fill])
    /\ taker' = [taker EXCEPT !.remaining = @ - fill]
    /\ \/ fill = node[m].qty /\ Remove(m)
       \/ /\ fill < node[m].qty
          /\ node' = [node EXCEPT ![m].qty = @ - fill]
          /\ UNCHANGED <<level, keys, index, poolVars>>

(* What one iteration of match_against does: it trades with a live maker. *)
LEMMA MatchEffect ==
  ASSUME IInv, MatchStep
  PROVE  \E p \in Prices, m \in Live, fill \in Int : MatchFacts(p, m, fill)
<1> DEFINE side == Opposite(taker.side)
           maker(p) == level[side][p].head
           filled(p) == IF taker.remaining <= node[maker(p)].qty
                        THEN taker.remaining ELSE node[maker(p)].qty
<1>1. PICK p \in keys[side] :
             /\ IsBestLevel(side, p)
             /\ Crosses(taker.side, taker.price, p)
             /\ maker(p) # NULL
             /\ trades' = Append(trades, [taker |-> taker.id, maker |-> node[maker(p)].id,
                                          price |-> p, qty |-> filled(p)])
             /\ taker' = [taker EXCEPT !.remaining = @ - filled(p)]
             /\ \/ filled(p) = node[maker(p)].qty /\ Remove(maker(p))
                \/ /\ filled(p) # node[maker(p)].qty
                   /\ node' = [node EXCEPT ![maker(p)].qty = @ - filled(p)]
                   /\ UNCHANGED <<level, keys, index, poolVars>>
  BY Zenon DEF MatchStep
<1>2. pc = "match" /\ taker.remaining > 0
  BY Zenon DEF MatchStep
<1>3. TypeOK /\ OrdersOK /\ LevelsOK
  BY <1>2 DEF IInv, BookLinked
<1>4. side \in Sides /\ taker.remaining \in Int
  BY <1>3 DEF TypeOK, Opposite, Sides
<1>5. p \in Prices
  BY <1>3, <1>4 DEF TypeOK
<1>6. maker(p) \in OrdersAt(side, p)
  BY <1>3, <1>4, <1>5 DEF LevelsOK
<1>7. maker(p) \in Live /\ node[maker(p)].side = side /\ node[maker(p)].price = p
  BY <1>6 DEF OrdersAt
<1> HIDE DEF side, maker
<1>8. node[maker(p)].qty \in Int /\ node[maker(p)].qty > 0
  BY <1>3, <1>7, LiveTypes DEF OrderNode, OrdersOK
<1>9. /\ filled(p) \in Int /\ filled(p) > 0 /\ filled(p) <= taker.remaining
      /\ filled(p) <= node[maker(p)].qty
      /\ filled(p) = taker.remaining \/ filled(p) = node[maker(p)].qty
  BY <1>2, <1>4, <1>8
<1> HIDE DEF filled
<1>10. filled(p) # node[maker(p)].qty => filled(p) < node[maker(p)].qty
  BY <1>8, <1>9
<1>11. MatchFacts(p, maker(p), filled(p))
  <2>1. maker(p) = level[Opposite(taker.side)][p].head /\ side = Opposite(taker.side)
    BY DEF maker, side
  <2> QED BY <2>1, <1>1, <1>7, <1>9, <1>10, Zenon DEF MatchFacts
<1> QED BY <1>5, <1>7, <1>9, <1>11

(* One iteration of match_against, full or partial fill, keeps the invariant. *)
LEMMA MatchKeepsInvariant ==
  ASSUME IInv, MatchStep
  PROVE  IInv'
<1>1. PICK p \in Prices, m \in Live, fill \in Int : MatchFacts(p, m, fill)
  BY MatchEffect
<1>2. pc = "match" /\ pc' = pc /\ nextId' = nextId /\ nextTs' = nextTs
  BY Zenon DEF MatchStep
<1>3. TypeOK /\ IndexOK /\ OrdersOK
  BY <1>2 DEF IInv, BookLinked
<1>4. /\ taker' \in [id : Nat, side : Sides, price : Int, remaining : Int]
      /\ taker'.id = taker.id /\ taker'.price = taker.price
  <2> DEFINE left == taker.remaining - fill
  <2>1. left \in Int
    BY <1>3 DEF TypeOK
  <2>2. taker' = [taker EXCEPT !.remaining = left]
    BY <1>1, Zenon DEF MatchFacts
  <2> HIDE DEF left
  <2> QED BY <2>1, <2>2, <1>3 DEF TypeOK
<1>5. trades' \in Seq(Trade)
  <2>1. node[m].id \in Nat /\ taker.id \in Nat /\ p \in Int
    BY <1>3, LiveTypes, OrderBookAssumption DEF TypeOK, OrderNode
  <2>2. [taker |-> taker.id, maker |-> node[m].id, price |-> p, qty |-> fill] \in Trade
    BY <2>1 DEF Trade
  <2>3. trades' = Append(trades, [taker |-> taker.id, maker |-> node[m].id,
                                  price |-> p, qty |-> fill])
    BY <1>1, Zenon DEF MatchFacts
  <2> QED BY <2>2, <2>3, <1>3 DEF TypeOK
<1>6. CASE Remove(m)
  BY <1>2, <1>4, <1>5, <1>6, RemoveKeepsInvariant
<1>7. CASE /\ fill < node[m].qty
           /\ node' = [node EXCEPT ![m].qty = @ - fill]
           /\ UNCHANGED <<level, keys, index, poolVars>>
  BY <1>2, <1>4, <1>5, <1>7, PartialFillKeepsInvariant, Zenon
<1> QED BY <1>1, <1>6, <1>7, Zenon DEF MatchFacts

(* One release() of the book's destructor keeps the invariant. *)
LEMMA DestroyNodeKeepsInvariant ==
  ASSUME IInv, NEW id \in DOMAIN index, DestroyNode(id)
  PROVE  IInv'
<1>1. /\ pc = "destroy" /\ pc' = pc
      /\ Release(index[id])
      /\ index' = [i \in DOMAIN index \ {id} |-> index[i]]
      /\ node' = [node EXCEPT ![index[id]] = Garbage]
      /\ UNCHANGED <<level, keys, nextId, nextTs, trades, taker>>
  BY DEF DestroyNode
<1>2. TypeOK /\ PoolSafe
  BY DEF IInv
<1>3. /\ PoolTypeOK' /\ PoolSafe'
      /\ DOMAIN index' \subseteq Nat /\ index' \in [DOMAIN index' -> Slots]
  BY <1>1, <1>2, ReleaseKeepsPool
<1>4. node' \in [Slots -> OrderNode]
  <2>1. Garbage \in OrderNode
    BY DEF Garbage, OrderNode, Sides, Links
  <2> QED BY <2>1, <1>1, <1>2 DEF TypeOK
<1>5. TypeOK'
  BY <1>1, <1>2, <1>3, <1>4 DEF TypeOK
<1> QED BY <1>1, <1>3, <1>5 DEF IInv, BookLinked, Uncrossed

(* A book that was just constructed satisfies the inductive invariant. *)
LEMMA InitInvariant == Init => IInv
<1> SUFFICES ASSUME Init PROVE IInv
  OBVIOUS
<1>1. Live = {} /\ DOMAIN index = {}
  BY DEF Init, Live
<1>2. PoolTypeOK
  BY CapacityAssumption DEF Init, PoolInit, PoolTypeOK, Slots
<1>3. TypeOK
  <2>1. Garbage \in OrderNode /\ EmptyLevel \in Level
    BY DEF Garbage, OrderNode, Sides, Links, EmptyLevel, Level
  <2>2. node \in [Slots -> OrderNode] /\ level \in [Sides -> [Prices -> Level]]
    BY <2>1 DEF Init
  <2>3. keys \in [Sides -> SUBSET Prices]
    BY DEF Init
  <2>4. index \in [DOMAIN index -> Slots]
    BY DEF Init
  <2>5. /\ nextId \in Nat \ {0} /\ nextTs \in Nat /\ trades \in Seq(Trade)
        /\ taker \in [id : Nat, side : Sides, price : Int, remaining : Int]
        /\ pc \in {"idle", "match", "destroy"}
    BY DEF Init, Sides
  <2> QED BY <2>2, <2>3, <2>4, <2>5, <1>1, <1>2 DEF TypeOK
<1>4. PoolSafe
  <2>1. \A s \in Slots : slotNext[s] # NULL => slotNext[s] = s + 1
    BY DEF Init, PoolInit
  <2>2. freeHead # NULL => freeHead = 0
    BY DEF Init, PoolInit
  <2> QED BY <2>1, <2>2, <1>1, CapacityAssumption DEF PoolSafe, Slots
<1>5. LevelsOK
  BY DEF Init, LevelsOK
<1>6. IndexOK /\ TakerOK /\ OrdersOK /\ LinksOK /\ Uncrossed
  BY <1>1 DEF Init, IndexOK, TakerOK, OrdersOK, LinksOK, Uncrossed
<1> QED BY <1>3, <1>4, <1>5, <1>6 DEF IInv, BookLinked

(* Every step of the book preserves the inductive invariant. *)
LEMMA NextInvariant == IInv /\ [Next]_vars => IInv'
<1> SUFFICES ASSUME IInv, [Next]_vars PROVE IInv'
  OBVIOUS
<1>1. TypeOK
  BY DEF IInv
<1>2. ASSUME NEW side \in Sides, NEW price \in Prices, NEW qty \in Quantities,
             PlaceLimit(side, price, qty)
      PROVE  IInv'
  <2>1. /\ pc = "idle" /\ pc' = "match" /\ nextId' = nextId + 1 /\ trades' = <<>>
        /\ taker' = [id |-> nextId, side |-> side, price |-> price, remaining |-> qty]
        /\ UNCHANGED <<node, level, keys, index, nextTs, poolVars>>
    BY <1>2 DEF PlaceLimit
  <2>2. taker' \in [id : Nat, side : Sides, price : Int, remaining : Int]
    BY <2>1, <1>1, OrderBookAssumption DEF TypeOK
  <2>3. 0 < nextId
    BY <1>1 DEF TypeOK
  <2>4. TakerOK'
    BY <2>1, <2>3, <1>1 DEF TakerOK, IInv, BookLinked, IndexOK, TypeOK
  <2> QED BY <2>1, <2>2, <2>4, <1>1, QuietKeepsInvariant DEF TypeOK
<1>3. CASE MatchStep
  BY <1>3, MatchKeepsInvariant
<1>4. CASE Filled \/ Exhausted
  BY <1>4, <1>1, QuietKeepsInvariant DEF Filled, Exhausted, MatchDone, TakerOK, TypeOK
<1>5. CASE Rest
  BY <1>5, RestKeepsInvariant
<1>6. ASSUME NEW id \in DOMAIN index, Cancel(id)
      PROVE  IInv'
  <2>1. index[id] \in Live
    BY DEF Live
  <2> QED BY <2>1, <1>1, <1>6, RemoveKeepsInvariant DEF Cancel, TypeOK
<1>7. CASE Destroy
  BY <1>7, <1>1, QuietKeepsInvariant DEF Destroy, TypeOK, TakerOK
<1>8. ASSUME NEW id \in DOMAIN index, DestroyNode(id)
      PROVE  IInv'
  BY <1>8, DestroyNodeKeepsInvariant
<1>9. CASE Destroyed \/ UNCHANGED vars
  <2>1. UNCHANGED <<node, level, keys, index, nextTs, nextId, trades, taker, pc, poolVars>>
    BY <1>9 DEF Destroyed, vars, bookVars
  <2>2. pc # "destroy" => TakerOK'
    BY <2>1 DEF IInv, BookLinked, TakerOK
  <2> QED BY <2>1, <2>2, <1>1, QuietKeepsInvariant DEF TypeOK
<1> QED
  BY <1>2, <1>3, <1>4, <1>5, <1>6, <1>7, <1>8, <1>9 DEF Next

-----------------------------------------------------------------------------
(* The inductive invariant holds in every reachable state of the book. *)
THEOREM Invariant == Spec => []IInv
BY InitInvariant, NextInvariant, PTL DEF Spec

(* Every member of the book and of its pool keeps its type. *)
THEOREM TypeCorrect == Spec => []TypeOK
<1>1. IInv => TypeOK
  BY DEF IInv
<1> QED BY <1>1, Invariant, PTL

(* index_, the level maps and the intrusive lists always describe the same  *)
(* orders, each level's list oldest first (order_book.cpp's level_push_back,*)
(* level_unlink, match_against, cancel).                                    *)
THEOREM StructureSound == Spec => []BookLinked
<1>1. IInv => BookLinked
  BY DEF IInv
<1> QED BY <1>1, Invariant, PTL

(* acquire() never returns a slot that holds a resting order. *)
THEOREM PoolSlotsSafe == Spec => []PoolSafe
<1>1. IInv => PoolSafe
  BY DEF IInv
<1> QED BY <1>1, Invariant, PTL

(* No resting bid is at or above a resting ask, whatever is placed,         *)
(* cancelled or dropped because the pool is full.                           *)
THEOREM NeverCrossed == Spec => []Uncrossed
<1>1. IInv => Uncrossed
  BY DEF IInv
<1> QED BY <1>1, Invariant, PTL

(* An iteration of the matching loop trades with the first order in line. *)
LEMMA MatchHasPriority ==
  ASSUME IInv, MatchStep
  PROVE  PriceTimeStep
<1>1. PICK p \in Prices, m \in Live, fill \in Int : MatchFacts(p, m, fill)
  BY MatchEffect
<1>2. TypeOK /\ IndexOK /\ OrdersOK /\ LevelsOK /\ LinksOK
  BY Zenon DEF MatchStep, IInv, BookLinked
<1> DEFINE side == Opposite(taker.side)
           t == [taker |-> taker.id, maker |-> node[m].id, price |-> p, qty |-> fill]
           rivals == {s \in Live : node[s].side = side}
<1>3. trades' = Append(trades, t) /\ trades' # trades /\ trades'[Len(trades')] = t
  <2>1. trades' = Append(trades, t)
    BY <1>1, Zenon DEF MatchFacts
  <2>2. trades \in Seq(Trade)
    BY <1>2 DEF TypeOK
  <2> HIDE DEF t
  <2>3. Len(trades') = Len(trades) + 1 /\ trades'[Len(trades) + 1] = t
    BY <2>1, <2>2
  <2>4. Len(trades) \in Nat
    BY <2>2
  <2> QED BY <2>1, <2>3, <2>4
<1>4. node[m].id \in DOMAIN index /\ index[node[m].id] = m
  BY <1>2 DEF IndexOK, Live
<1>5. /\ p \in keys[side] /\ IsBestLevel(side, p) /\ Crosses(taker.side, taker.price, p)
      /\ m = level[side][p].head
      /\ node[m].side = side /\ node[m].price = p
      /\ fill \in Int /\ fill > 0
      /\ fill = taker.remaining \/ fill = node[m].qty
      /\ taker' = [taker EXCEPT !.remaining = @ - fill]
      /\ fill = node[m].qty => Remove(m)
  <2>1. node[m].qty \in Int
    BY <1>2, LiveTypes DEF OrderNode
  <2>2. ~(fill < node[m].qty /\ fill = node[m].qty)
    BY <2>1
  <2> QED BY <2>2, <1>1, Zenon DEF MatchFacts
<1>6. /\ taker.remaining \in Int /\ taker'.remaining = taker.remaining - fill
      /\ fill = taker.remaining - taker'.remaining
  BY <1>2, <1>5 DEF TypeOK
<1>7. taker'.remaining = 0 \/ node[m].id \notin DOMAIN index'
  <2>1. CASE fill = taker.remaining
    BY <2>1, <1>6
  <2>2. CASE Remove(m)
    <3>1. RemoveFacts(m)
      BY <2>2, <1>2, RemoveEffect
    <3> QED BY <3>1 DEF RemoveFacts
  <2> QED BY <2>1, <2>2, <1>5
<1>8. ASSUME NEW s \in rivals \ {m}
      PROVE  /\ AtLeastAsGood(side, node[m].price, node[s].price)
             /\ node[m].price = node[s].price => node[m].ts < node[s].ts
  <2>1. s \in Live /\ s # m /\ node[s].side = side /\ node[s].price \in keys[side]
    BY <1>2 DEF OrdersOK
  <2>2. AtLeastAsGood(side, node[m].price, node[s].price)
    BY <2>1, <1>5 DEF IsBestLevel
  <2>3. side \in Sides /\ node[m].ts \in Nat /\ node[s].ts \in Nat /\ node[m].ts # node[s].ts
    BY <2>1, <1>2, <1>5, LiveTypes DEF OrdersOK
  <2>4. node[m].price = node[s].price => node[m].ts <= node[s].ts
    <3>1. node[m].price = node[s].price => s \in OrdersAt(side, p)
      BY <2>1, <1>5, Zenon DEF OrdersAt
    <3> QED BY <3>1, <2>3, <1>2, <1>5, Zenon DEF LevelsOK
  <2> QED BY <2>2, <2>3, <2>4
<1>9. m \in rivals
  BY <1>5
<1>10. t.maker = node[m].id /\ t.price = p /\ t.qty = fill
  OBVIOUS
<1> DEFINE u == trades'[Len(trades')]
<1>11. u = t
  BY <1>3
<1>12. /\ trades' = Append(trades, u)
       /\ u.maker \in DOMAIN index
       /\ index[u.maker] = m
       /\ m \in rivals
       /\ u.price = node[m].price
       /\ Crosses(taker.side, taker.price, u.price)
       /\ u.qty = taker.remaining - taker'.remaining
       /\ u.qty > 0
       /\ taker'.remaining = 0 \/ u.maker \notin DOMAIN index'
  <2> HIDE DEF t, u, side, rivals
  <2> QED BY <1>3, <1>4, <1>5, <1>6, <1>7, <1>9, <1>10, <1>11, Zenon
<1> QED
  BY <1>8, <1>12, Zenon DEF PriceTimeStep

(* Every trade the book makes respects price-time priority: it is with the  *)
(* oldest order at the best opposite price, at that price.                  *)
THEOREM PriceTime == Spec => PriceTimePriority
<1>1. IInv /\ [Next]_vars => [PriceTimeStep]_vars
  <2> SUFFICES ASSUME IInv, Next PROVE PriceTimeStep
    OBVIOUS
  <2>1. CASE MatchStep
    BY <2>1, MatchHasPriority
  <2>2. CASE ~MatchStep
    <3>1. trades' = trades \/ trades' = <<>>
      BY <2>2, Zenon DEF Next, PlaceLimit, Filled, Rest, Exhausted, Cancel, Destroy, DestroyNode,
                  Destroyed, vars, bookVars
    <3> QED BY <3>1 DEF PriceTimeStep
  <2> QED BY <2>1, <2>2
<1> QED BY <1>1, Invariant, PTL DEF Spec, PriceTimePriority
=============================================================================
