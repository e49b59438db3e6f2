-------------------------- MODULE OrderBookResting --------------------------
(***************************************************************************)
(* Lemmas about a remainder that comes to rest: acquire(), the new node at  *)
(* the back of its level and the new index entry keep the inductive         *)
(* invariant of OrderBook.                                                  *)
(***************************************************************************)
EXTENDS OrderBookRemoval

(* What Rest does: slot n, taken from the free list, holds the remainder at *)
(* the back of its level.                                                   *)
RestFacts(n) ==
    /\ n \in Slots /\ n \notin Live /\ n # NULL
    /\ Live' = Live \cup {n}
    /\ DOMAIN index' = DOMAIN index \cup {taker.id}
    /\ taker.id \notin DOMAIN index
    /\ index'[taker.id] = n
    /\ \A i \in DOMAIN index : index'[i] = index[i]
    /\ node'[n] = [id |-> taker.id, side |-> taker.side, price |-> taker.price,
                   qty |-> taker.remaining, ts |-> nextTs,
                   prev |-> level[taker.side][taker.price].tail, next |-> NULL]
    /\ \A s \in Live :
         /\ node'[s].id = node[s].id
         /\ node'[s].side = node[s].side
         /\ node'[s].price = node[s].price
         /\ node'[s].qty = node[s].qty
         /\ node'[s].ts = node[s].ts
         /\ node'[s].prev = node[s].prev
         /\ node'[s].next = IF s = level[taker.side][taker.price].tail THEN n ELSE node[s].next
    /\ level'[taker.side][taker.price] =
         [head |-> IF level[taker.side][taker.price].tail = NULL THEN n
                   ELSE level[taker.side][taker.price].head, tail |-> n]
    /\ \A side \in Sides, p \in Prices : (side # taker.side \/ p # taker.price) =>
         /\ level'[side][p] = level[side][p]
         /\ p \in keys'[side] <=> p \in keys[side]
    /\ taker.price \in keys'[taker.side]
    /\ PoolTypeOK' /\ PoolSafe' /\ TypeOK'

(* What acquire(), the filling of the node and level_push_back do to the
   remainder of a taker. *)
LEMMA RestEffect ==
  ASSUME IInv, Rest
  PROVE  \E n \in Slots : RestFacts(n)
<1>1. /\ pc = "match" /\ pc' = "idle" /\ taker' = taker /\ trades' = trades
      /\ nextId' = nextId /\ nextTs' = nextTs + 1
      /\ keys' = [keys EXCEPT ![taker.side] = @ \cup {taker.price}]
  BY DEF Rest, MatchDone
<1>2. TypeOK /\ IndexOK /\ TakerOK /\ OrdersOK /\ LevelsOK /\ LinksOK /\ PoolSafe
  BY <1>1 DEF IInv, BookLinked
<1> DEFINE new == [id |-> taker.id, side |-> taker.side, price |-> taker.price,
                   qty |-> taker.remaining, ts |-> nextTs, prev |-> NULL, next |-> NULL]
           lvl == level[taker.side][taker.price]
<1>3. PICK n \in Slots :
         /\ Acquire(n)
         /\ PushBack(n, new)
         /\ index' = [i \in DOMAIN index \cup {taker.id} |->
                         IF i = taker.id THEN n ELSE index[i]]
  BY DEF Rest
<1>4. n = freeHead /\ n \notin Live /\ n # NULL
  BY <1>2, <1>3, NullNotSlot DEF Acquire, PoolSafe
<1>5. /\ taker.id \in Nat /\ taker.side \in Sides /\ taker.price \in Int /\ taker.remaining \in Int
      /\ taker.price \in Prices /\ taker.id \notin DOMAIN index
      /\ nextTs \in Nat /\ lvl \in Level
  BY <1>1, <1>2 DEF TakerOK, TypeOK
<1>6. /\ DOMAIN index' = DOMAIN index \cup {taker.id}
      /\ index'[taker.id] = n
      /\ \A i \in DOMAIN index : index'[i] = index[i]
  BY <1>3, <1>5
<1>7. Live' = Live \cup {n}
  BY <1>6 DEF Live
<1>8. /\ node'[n] = [new EXCEPT !.prev = lvl.tail]
      /\ \A s \in Slots \ {n} :
           node'[s] = IF s = lvl.tail THEN [node[s] EXCEPT !.next = n] ELSE node[s]
      /\ node' = [s \in Slots |-> node'[s]]
      /\ level' = [level EXCEPT ![taker.side][taker.price] =
              [head |-> IF lvl.tail = NULL THEN n ELSE lvl.head, tail |-> n]]
  BY <1>3 DEF PushBack
<1>9. ASSUME NEW s \in Live
      PROVE  /\ node'[s].id = node[s].id
             /\ node'[s].side = node[s].side
             /\ node'[s].price = node[s].price
             /\ node'[s].qty = node[s].qty
             /\ node'[s].ts = node[s].ts
             /\ node'[s].prev = node[s].prev
             /\ node'[s].next = IF s = lvl.tail THEN n ELSE node[s].next
  <2>1. s \in Slots \ {n} /\ node[s] \in OrderNode
    BY <1>2, <1>4, LiveTypes
  <2> HIDE DEF lvl
  <2> QED BY <2>1, <1>8 DEF OrderNode
<1>10. /\ level'[taker.side][taker.price] =
              [head |-> IF lvl.tail = NULL THEN n ELSE lvl.head, tail |-> n]
       /\ \A side \in Sides, p \in Prices : (side # taker.side \/ p # taker.price) =>
            level'[side][p] = level[side][p]
  BY <1>2, <1>5, <1>8 DEF TypeOK
<1>11. /\ taker.price \in keys'[taker.side]
       /\ \A side \in Sides, p \in Prices : (side # taker.side \/ p # taker.price) =>
            (p \in keys'[side] <=> p \in keys[side])
  BY <1>1, <1>2, <1>5 DEF TypeOK
<1>12. PoolTypeOK' /\ PoolSafe'
  <2>1. /\ freeHead' = slotNext[n]
        /\ \A s \in Slots \ {n} : slotNext'[s] = slotNext[s]
    BY <1>2, <1>3 DEF Acquire, TypeOK, PoolTypeOK
  <2>2. PoolTypeOK'
    BY <1>2, <1>3 DEF Acquire, TypeOK, PoolTypeOK
  <2>3. \A i, j \in DOMAIN index' : index'[i] = index'[j] => i = j
    BY <1>2, <1>4, <1>6 DEF PoolSafe, Live
  <2>4. Live \subseteq Slots /\ slotNext[n] \notin Live /\ slotNext[n] # n
    BY <1>2, <1>4 DEF PoolSafe, TypeOK, Live
  <2>5. ASSUME NEW s \in Slots \ Live', NEW t \in Slots \ Live'
        PROVE  /\ slotNext'[s] \notin Live'
               /\ slotNext'[s] # NULL => slotNext'[s] # freeHead'
               /\ slotNext'[s] # NULL /\ slotNext'[s] = slotNext'[t] => s = t
    <3>1. s \in Slots \ Live /\ t \in Slots \ Live /\ s # n /\ t # n /\ n \in Slots \ Live
      BY <1>4, <1>7
    <3>2. slotNext'[s] = slotNext[s] /\ slotNext'[t] = slotNext[t]
      BY <2>1, <3>1
    <3> QED BY <3>1, <3>2, <2>1, <1>2, <1>4, <1>7 DEF PoolSafe
  <2> QED BY <2>1, <2>2, <2>3, <2>4, <2>5, <1>4, <1>7 DEF PoolSafe
<1>13. TypeOK'
  <2>1. node' \in [Slots -> OrderNode]
    <3>1. [new EXCEPT !.prev = lvl.tail] \in OrderNode
      BY <1>5 DEF OrderNode, Level, Links
    <3>2. ASSUME NEW s \in Slots
          PROVE  [node[s] EXCEPT !.next = n] \in OrderNode /\ node[s] \in OrderNode
      BY <1>2, ZenonT(60) DEF TypeOK, OrderNode, Links
    <3>3. \A s \in Slots : node'[s] \in OrderNode
      BY <3>1, <3>2, <1>8, Zenon
    <3> QED BY <3>3, <1>8
  <2>2. level' \in [Sides -> [Prices -> Level]]
    <3>1. [head |-> IF lvl.tail = NULL THEN n ELSE lvl.head, tail |-> n] \in Level
      BY <1>5 DEF Level, Links
    <3> HIDE DEF lvl
    <3> QED BY <3>1, <1>2, <1>5, <1>8 DEF TypeOK
  <2>3. keys' \in [Sides -> SUBSET Prices]
    BY <1>1, <1>2, <1>5 DEF TypeOK
  <2>4. DOMAIN index' \subseteq Nat /\ index' \in [DOMAIN index' -> Slots]
    BY <1>2, <1>3, <1>5 DEF TypeOK
  <2> QED BY <2>1, <2>2, <2>3, <2>4, <1>1, <1>2, <1>12 DEF TypeOK
<1>14. node'[n] = [id |-> taker.id, side |-> taker.side, price |-> taker.price,
                   qty |-> taker.remaining, ts |-> nextTs, prev |-> lvl.tail, next |-> NULL]
  BY <1>8
<1> SUFFICES RestFacts(n)
  OBVIOUS
<1> QED
  BY <1>4, <1>5, <1>6, <1>7, <1>9, <1>10, <1>11, <1>12, <1>13, <1>14, ZenonT(60) DEF RestFacts

(* A remainder that rests keeps the book sound and uncrossed. *)
LEMMA RestKeepsInvariant ==
  ASSUME IInv, Rest
  PROVE  IInv'
<1>1. /\ pc = "match" /\ pc' = "idle" /\ taker.remaining > 0
      /\ nextId' = nextId /\ nextTs' = nextTs + 1
      /\ \A p \in keys[Opposite(taker.side)] : ~Crosses(taker.side, taker.price, p)
  BY DEF Rest, MatchDone, IInv, TypeOK
<1>2. TypeOK /\ IndexOK /\ TakerOK /\ OrdersOK /\ LevelsOK /\ LinksOK /\ PoolSafe /\ Uncrossed
  BY <1>1 DEF IInv, BookLinked
<1>3. PICK n \in Slots : RestFacts(n)
  BY RestEffect
<1> DEFINE sd == taker.side
           px == taker.price
           lvl == level[sd][px]
           here == OrdersAt(sd, px)
           After(side, p) == {s \in Live' : node'[s].side = side /\ node'[s].price = p}
<1>4. /\ n \notin Live /\ n # NULL /\ Live' = Live \cup {n}
      /\ \A s \in Live :
           /\ node'[s].id = node[s].id
           /\ node'[s].side = node[s].side
           /\ node'[s].price = node[s].price
           /\ node'[s].qty = node[s].qty
           /\ node'[s].ts = node[s].ts
           /\ node'[s].prev = node[s].prev
           /\ node'[s].next = IF s = lvl.tail THEN n ELSE node[s].next
  BY <1>3, Zenon DEF RestFacts
<1>5. /\ node'[n].id = taker.id /\ node'[n].side = sd /\ node'[n].price = px
      /\ node'[n].qty = taker.remaining /\ node'[n].ts = nextTs
      /\ node'[n].prev = lvl.tail /\ node'[n].next = NULL
  <2>1. node'[n] = [id |-> taker.id, side |-> sd, price |-> px, qty |-> taker.remaining,
                    ts |-> nextTs, prev |-> lvl.tail, next |-> NULL]
    BY <1>3, Zenon DEF RestFacts
  <2> QED BY <2>1
<1>6. /\ level'[sd][px] = [head |-> IF lvl.tail = NULL THEN n ELSE lvl.head, tail |-> n]
      /\ \A side \in Sides, p \in Prices : (side # sd \/ p # px) =>
           /\ level'[side][p] = level[side][p]
           /\ p \in keys'[side] <=> p \in keys[side]
      /\ px \in keys'[sd]
  BY <1>3, Zenon DEF RestFacts
<1>7. /\ sd \in Sides /\ px \in Prices /\ nextTs \in Nat /\ taker.id < nextId
  BY <1>1, <1>2 DEF TypeOK, TakerOK
<1>8. \A s \in Live : /\ node[s].ts \in Nat /\ node[s].ts < nextTs /\ node[s].qty > 0
                      /\ s # NULL /\ s # n
                      /\ node[s].side \in Sides /\ node[s].price \in Prices
                      /\ node[s].price \in keys[node[s].side]
  BY <1>2, <1>4, LiveTypes DEF OrdersOK
<1>9. /\ here \subseteq Live
      /\ lvl.tail = NULL => here = {}
      /\ lvl.tail # NULL =>
           /\ lvl.head \in here /\ lvl.tail \in here
           /\ node[lvl.head].prev = NULL /\ node[lvl.tail].next = NULL
           /\ \A s \in here : node[lvl.head].ts <= node[s].ts /\ node[s].ts <= node[lvl.tail].ts
  <2>1. here \subseteq Live
    BY DEF OrdersAt
  <2>2. CASE px \in keys[sd]
    BY <2>1, <2>2, <1>2, <1>7, <1>8 DEF LevelsOK
  <2>3. CASE px \notin keys[sd]
    <3>1. lvl = EmptyLevel
      BY <2>3, <1>2, <1>7 DEF LevelsOK
    <3>2. here = {}
      BY <2>3, <1>8 DEF OrdersAt
    <3> QED BY <3>1, <3>2 DEF EmptyLevel
  <2> QED BY <2>1, <2>2, <2>3, Zenon
<1>10. After(sd, px) = here \cup {n}
  <2>1. \A s \in Live' : s \in After(sd, px) <=> s = n \/ s \in here
    BY <1>4, <1>5 DEF OrdersAt
  <2> QED BY <2>1, <1>4, <1>9
<1>11. \A side, p : (side # sd \/ p # px) => After(side, p) = OrdersAt(side, p)
  BY <1>4, <1>5 DEF OrdersAt
<1> HIDE DEF After
<1>12. IndexOK'
  <2> SUFFICES ASSUME NEW i \in DOMAIN index'
               PROVE  node'[index'[i]].id = i /\ 0 < i /\ i < nextId'
    BY DEF IndexOK
  <2>1. CASE i = taker.id
    BY <2>1, <1>1, <1>2, <1>3, <1>5 DEF RestFacts, TakerOK
  <2>2. CASE i # taker.id
    <3>1. i \in DOMAIN index /\ index'[i] = index[i] /\ index[i] \in Live
      BY <2>2, <1>3 DEF RestFacts, Live
    <3> QED BY <3>1, <1>1, <1>2, <1>4 DEF IndexOK
  <2> QED BY <2>1, <2>2
<1>13. OrdersOK'
  <2>1. \A s \in Live : node[s].price \in keys'[node[s].side]
    BY <1>6, <1>8
  <2>2. ASSUME NEW s \in Live'
        PROVE  node'[s].qty > 0 /\ node'[s].price \in keys'[node'[s].side] /\ node'[s].ts < nextTs'
    BY <2>1, <1>1, <1>4, <1>5, <1>6, <1>7, <1>8
  <2>3. ASSUME NEW s \in Live', NEW t \in Live', node'[s].ts = node'[t].ts
        PROVE  s = t
    <3>1. CASE s \in Live /\ t \in Live
      BY <3>1, <2>3, <1>2, <1>4 DEF OrdersOK
    <3>2. CASE s = n \/ t = n
      BY <3>2, <2>3, <1>4, <1>5, <1>7, <1>8
    <3> QED BY <3>1, <3>2, <1>4
  <2> QED BY <2>2, <2>3 DEF OrdersOK
<1>14. Uncrossed'
  <2>1. \A s \in Live : node[s].side = Opposite(sd) => ~Crosses(sd, px, node[s].price)
    BY <1>1, <1>8
  <2> SUFFICES ASSUME NEW b \in Live', NEW a \in Live',
                      node'[b].side = "Buy", node'[a].side = "Sell"
               PROVE  node'[b].price < node'[a].price
    BY DEF Uncrossed
  <2>2. Prices \subseteq Int
    BY OrderBookAssumption
  <2>3. CASE a = n
    <3>1. sd = "Sell" /\ b \in Live /\ node[b].side = "Buy" /\ node'[b].price = node[b].price
      BY <2>3, <1>4, <1>5
    <3>2. ~Crosses("Sell", px, node[b].price)
      BY <3>1, <2>1 DEF Opposite
    <3>3. px \in Int /\ node[b].price \in Int
      BY <3>1, <2>2, <1>7, <1>8, Zenon
    <3> QED BY <3>1, <3>2, <3>3, <2>3, <1>5 DEF Crosses
  <2>4. CASE b = n
    <3>1. sd = "Buy" /\ a \in Live /\ node[a].side = "Sell" /\ node'[a].price = node[a].price
      BY <2>4, <1>4, <1>5
    <3>2. ~Crosses("Buy", px, node[a].price)
      BY <3>1, <2>1 DEF Opposite
    <3>3. px \in Int /\ node[a].price \in Int
      BY <3>1, <2>2, <1>7, <1>8, Zenon
    <3> QED BY <3>1, <3>2, <3>3, <2>4, <1>5 DEF Crosses
  <2>5. CASE a # n /\ b # n
    BY <2>5, <1>1, <1>2, <1>4 DEF Uncrossed
  <2> QED BY <2>3, <2>4, <2>5
<1>15. LevelsOK'
  <2> SUFFICES ASSUME NEW side \in Sides, NEW p \in Prices
               PROVE  LET l == level'[side][p]
                      IN  /\ p \notin keys'[side] => l = EmptyLevel
                          /\ p \in keys'[side] =>
                               /\ l.head \in After(side, p)
                               /\ l.tail \in After(side, p)
                               /\ node'[l.head].prev = NULL
                               /\ node'[l.tail].next = NULL
                               /\ \A s \in After(side, p) :
                                    /\ node'[l.head].ts <= node'[s].ts
                                    /\ node'[s].ts <= node'[l.tail].ts
    BY DEF LevelsOK, EmptyLevel, OrdersAt, After
  <2>1. CASE side # sd \/ p # px
    <3>1. /\ level'[side][p] = level[side][p]
          /\ p \in keys'[side] <=> p \in keys[side]
          /\ After(side, p) = OrdersAt(side, p)
      BY <2>1, <1>6, <1>11
    <3>2. \A s \in OrdersAt(side, p) : s \in Live /\ s \notin here
      BY <2>1 DEF OrdersAt
    <3>3. \A s \in OrdersAt(side, p) : s # lvl.tail
      BY <3>2, <1>8, <1>9
    <3>4. \A s \in OrdersAt(side, p) : /\ node'[s].prev = node[s].prev
                                       /\ node'[s].next = node[s].next
                                       /\ node'[s].ts = node[s].ts
      BY <3>2, <3>3, <1>4
    <3>5. LET l == level[side][p]
          IN  /\ p \notin keys[side] => l = EmptyLevel
              /\ p \in keys[side] =>
                   /\ l.head \in OrdersAt(side, p)
                   /\ l.tail \in OrdersAt(side, p)
                   /\ node[l.head].prev = NULL
                   /\ node[l.tail].next = NULL
                   /\ \A s \in OrdersAt(side, p) : /\ node[l.head].ts <= node[s].ts
                                                   /\ node[s].ts <= node[l.tail].ts
      BY <1>2 DEF LevelsOK
    <3> HIDE DEF lvl, here
    <3> QED BY <3>1, <3>4, <3>5
  <2>2. CASE side = sd /\ p = px
    <3> DEFINE h == IF lvl.tail = NULL THEN n ELSE lvl.head
    <3>1. level'[side][p].head = h /\ level'[side][p].tail = n /\ p \in keys'[side]
      BY <2>2, <1>6
    <3> HIDE DEF lvl, here
    <3>2. h \in here \cup {n} /\ node'[h].prev = NULL
      BY <1>4, <1>5, <1>9
    <3>3. \A s \in here \cup {n} : node'[h].ts <= node'[s].ts /\ node'[s].ts <= node'[n].ts
      BY <3>2, <1>4, <1>5, <1>7, <1>8, <1>9
    <3> QED BY <3>1, <3>2, <3>3, <2>2, <1>5, <1>10
  <2> QED BY <2>1, <2>2
<1>16. LinksOK'
  <2> SUFFICES ASSUME NEW s \in Live'
               PROVE  LET l == level'[node'[s].side][node'[s].price]
                          at == After(node'[s].side, node'[s].price)
                          next == node'[s].next
                          prev == node'[s].prev
                      IN  /\ prev = NULL => l.head = s
                          /\ next = NULL => l.tail = s
                          /\ prev # NULL => prev \in at /\ node'[prev].next = s
                          /\ next # NULL =>
                               /\ next \in at
                               /\ node'[next].prev = s
                               /\ node'[s].ts < node'[next].ts
                               /\ \A t \in at : node'[t].ts <= node'[s].ts
                                                \/ node'[next].ts <= node'[t].ts
    BY DEF LinksOK, OrdersAt, After
  <2>1. CASE s = n
    <3>1. /\ level'[node'[s].side][node'[s].price].head = IF lvl.tail = NULL THEN n ELSE lvl.head
          /\ level'[node'[s].side][node'[s].price].tail = n
          /\ After(node'[s].side, node'[s].price) = here \cup {n}
      BY <2>1, <1>5, <1>6, <1>10
    <3> HIDE DEF lvl, here
    <3>2. lvl.tail # NULL => lvl.tail \in here /\ node'[lvl.tail].next = n
      BY <1>4, <1>9
    <3> QED BY <3>1, <3>2, <2>1, <1>5
  <2>2. CASE s # n
    <3> DEFINE at == OrdersAt(node[s].side, node[s].price)
               l == level[node[s].side][node[s].price]
    <3>1. s \in Live /\ at \subseteq Live /\ node'[s].side = node[s].side
          /\ node'[s].price = node[s].price /\ s \in at
      BY <2>2, <1>4 DEF OrdersAt
    <3>2. /\ node[s].prev = NULL => l.head = s
          /\ node[s].next = NULL => l.tail = s
          /\ node[s].prev # NULL => node[s].prev \in at /\ node[node[s].prev].next = s
          /\ node[s].next # NULL =>
               /\ node[s].next \in at
               /\ node[node[s].next].prev = s
               /\ node[s].ts < node[node[s].next].ts
               /\ \A t \in at : node[t].ts <= node[s].ts
                                \/ node[node[s].next].ts <= node[t].ts
      BY <3>1, <1>2 DEF LinksOK
    <3>3. CASE s \notin here
      <4>1. /\ level'[node'[s].side][node'[s].price] = l
            /\ After(node'[s].side, node'[s].price) = at
        <5>1. node[s].side # sd \/ node[s].price # px
          BY <3>1, <3>3 DEF OrdersAt
        <5> QED BY <5>1, <3>1, <1>6, <1>8, <1>11
      <4>2. \A t \in at : t \in Live /\ t \notin here
        BY <3>1, <3>3 DEF OrdersAt
      <4> HIDE DEF lvl, here, l, at
      <4>3. \A t \in at : t # lvl.tail
        BY <4>2, <1>8, <1>9
      <4>4. \A t \in at : /\ node'[t].prev = node[t].prev
                          /\ node'[t].next = node[t].next
                          /\ node'[t].ts = node[t].ts
        BY <4>2, <4>3, <1>4
      <4> QED BY <4>1, <4>4, <3>1, <3>2
    <3>4. CASE s \in here
      <4>1. /\ at = here /\ l = lvl
            /\ level'[node'[s].side][node'[s].price].head =
                 IF lvl.tail = NULL THEN n ELSE lvl.head
            /\ level'[node'[s].side][node'[s].price].tail = n
            /\ After(node'[s].side, node'[s].price) = here \cup {n}
        <5>1. node[s].side = sd /\ node[s].price = px
          BY <3>4 DEF OrdersAt
        <5>2. node'[s].side = sd /\ node'[s].price = px /\ at = here /\ l = lvl
          BY <5>1, <3>1
        <5>3. /\ level'[node'[s].side][node'[s].price] = level'[sd][px]
              /\ After(node'[s].side, node'[s].price) = After(sd, px)
          BY <5>2, Zenon
        <5>4. /\ level'[sd][px].head = IF lvl.tail = NULL THEN n ELSE lvl.head
              /\ level'[sd][px].tail = n
          BY <1>6
        <5> QED BY <5>2, <5>3, <5>4, <1>10, Zenon
      <4> HIDE DEF lvl, here, l, at
      <4>2. lvl.tail # NULL
        BY <3>4, <1>9
      <4>3. \A t \in here : /\ node'[t].prev = node[t].prev
                            /\ node'[t].next = IF t = lvl.tail THEN n ELSE node[t].next
                            /\ node'[t].ts = node[t].ts
                            /\ node[t].ts \in Nat /\ node[t].ts < nextTs
        BY <1>4, <1>8, <1>9
      <4>4. CASE s = lvl.tail
        <5>1. node'[s].next = n /\ node'[s].next # NULL
          BY <4>4, <4>3, <3>4, <1>4
        <5>2. node'[s].ts < node'[n].ts
          BY <4>3, <3>4, <1>5
        <5>3. \A t \in here \cup {n} : node'[t].ts <= node'[s].ts \/ node'[n].ts <= node'[t].ts
          BY <4>2, <4>3, <4>4, <1>5, <1>7, <1>9
        <5>4. node[s].prev # NULL => node[s].prev \in here /\ node'[node[s].prev].next = s
          <6>1. node[s].prev # NULL => node[s].prev \in here /\ node[node[s].prev].next = s
            BY <4>1, <3>2
          <6>2. node[s].prev # NULL => node[s].prev # lvl.tail
            BY <6>1, <4>2, <3>1, <1>8, <1>9
          <6> QED BY <6>1, <6>2, <4>3
        <5>5. node'[s].prev = node[s].prev
          BY <4>3, <3>4
        <5>6. node[s].prev = NULL => lvl.head = s
          BY <3>2, <4>1
        <5> QED BY <5>1, <5>2, <5>3, <5>4, <5>5, <5>6, <4>1, <4>2, <4>4, <1>5
      <4>5. CASE s # lvl.tail
        <5>1. node'[s].next = node[s].next /\ node[s].next # NULL
          BY <4>1, <4>3, <4>5, <3>2, <3>4
        <5>2. node[s].next \in here /\ node[node[s].next].prev = s
          BY <5>1, <4>1, <3>2
        <5>3. node'[s].ts < node'[node[s].next].ts
          BY <5>1, <5>2, <4>3, <3>2, <3>4
        <5>4. \A t \in here \cup {n} :
                node'[t].ts <= node'[s].ts \/ node'[node[s].next].ts <= node'[t].ts
          <6>1. \A t \in here : node'[t].ts <= node'[s].ts
                                \/ node'[node[s].next].ts <= node'[t].ts
            BY <5>1, <5>2, <4>1, <4>3, <3>2, <3>4
          <6>2. node'[node[s].next].ts <= node'[n].ts
            BY <5>2, <4>3, <1>5, <1>7
          <6> QED BY <6>1, <6>2
        <5>5. node[s].prev # NULL => node[s].prev \in here /\ node'[node[s].prev].next = s
          <6>1. node[s].prev # NULL => node[s].prev \in here /\ node[node[s].prev].next = s
            BY <4>1, <3>2
          <6>2. node[s].prev # NULL => node[s].prev # lvl.tail
            BY <6>1, <4>2, <3>1, <1>8, <1>9
          <6> QED BY <6>1, <6>2, <4>3
        <5>6. node'[s].prev = node[s].prev /\ (node[s].prev = NULL => lvl.head = s)
          BY <4>1, <4>3, <3>2, <3>4
        <5>7. node'[node[s].next].prev = s
          BY <5>2, <4>3
        <5> QED BY <5>1, <5>2, <5>3, <5>4, <5>5, <5>6, <5>7, <4>1, <4>2
      <4> QED BY <4>4, <4>5
    <3> QED BY <3>3, <3>4
  <2> QED BY <2>1, <2>2
<1>17. TypeOK' /\ PoolSafe' /\ TakerOK'
  BY <1>1, <1>3 DEF RestFacts, TakerOK
<1> QED
  BY <1>12, <1>13, <1>14, <1>15, <1>16, <1>17 DEF IInv, BookLinked

=============================================================================
