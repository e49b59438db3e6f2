-------------------------- MODULE OrderBookRemoval --------------------------
(***************************************************************************)
(* Lemmas about an order that leaves the book, by a fill or by a cancel:    *)
(* level_unlink, the erasure of an empty level and of the id, and release() *)
(* keep the inductive invariant of OrderBook.                               *)
(***************************************************************************)
EXTENDS OrderBook, TLAPS

(* The null pointer is not the address of a pool slot. *)
LEMMA NullNotSlot == NULL \notin Slots
BY NullAssumption, CapacityAssumption DEF Slots

(* The types of what a live slot holds. *)
LEMMA LiveTypes ==
  ASSUME TypeOK, OrdersOK
  PROVE  /\ Live \subseteq Slots
         /\ \A s \in Live : /\ s # NULL
                            /\ node[s] \in OrderNode
                            /\ node[s].ts \in Nat
                            /\ node[s].side \in Sides
                            /\ node[s].price \in Prices
<1>1. Live \subseteq Slots
  BY DEF TypeOK, Live
<1> SUFFICES ASSUME NEW s \in Live
             PROVE  /\ s # NULL
                    /\ node[s] \in OrderNode
                    /\ node[s].ts \in Nat
                    /\ node[s].side \in Sides
                    /\ node[s].price \in Prices
  BY <1>1
<1>2. node[s] \in OrderNode
  BY <1>1 DEF TypeOK
<1>3. node[s].ts \in Nat /\ node[s].side \in Sides
  BY <1>2 DEF OrderNode
<1>4. node[s].price \in Prices
  BY <1>3 DEF OrdersOK, TypeOK
<1> QED BY <1>1, <1>2, <1>3, <1>4, NullNotSlot

(* What Remove does to the orders that stay. *)
RemoveFacts(n) ==
    /\ n \in Slots
    /\ Live' = Live \ {n}
    /\ DOMAIN index' = DOMAIN index \ {node[n].id}
    /\ \A i \in DOMAIN index' : index'[i] = index[i]
    /\ \A s \in Live' :
         /\ node'[s].id = node[s].id
         /\ node'[s].side = node[s].side
         /\ node'[s].price = node[s].price
         /\ node'[s].qty = node[s].qty
         /\ node'[s].ts = node[s].ts
         /\ node'[s].next = IF s = node[n].prev THEN node[n].next ELSE node[s].next
         /\ node'[s].prev = IF s = node[n].next THEN node[n].prev ELSE node[s].prev

(* What level_unlink, the index erasure and release() do to a live order. *)
LEMMA RemoveEffect ==
  ASSUME TypeOK, IndexOK, OrdersOK, LevelsOK, LinksOK,
         NEW n \in Live, Remove(n)
  PROVE  RemoveFacts(n)
<1>1. Live \subseteq Slots
  BY DEF TypeOK, Live
<1>2. n \in Slots
  BY <1>1
<1>3. PICK k \in DOMAIN index : index[k] = n
  BY DEF Live
<1>4. node[n].id = k
  BY <1>3 DEF IndexOK
<1>5. /\ DOMAIN index' = DOMAIN index \ {k}
      /\ \A i \in DOMAIN index' : index'[i] = index[i]
  BY <1>4 DEF Remove
<1>6. \A i \in DOMAIN index : index[i] = n => i = k
  BY <1>4 DEF IndexOK
<1>7. Live' = Live \ {n}
  BY <1>5, <1>6, <1>3 DEF Live
<1>8. node[n].prev # NULL => node[n].prev # node[n].next
  <2> SUFFICES ASSUME NEW m, m = node[n].prev, m = node[n].next, m # NULL
               PROVE  FALSE
    OBVIOUS
  <2>1. m \in Live /\ node[m].next = n /\ node[n].ts < node[m].ts
    BY Zenon DEF LinksOK, OrdersAt
  <2>2. node[m].ts < node[n].ts
    BY <2>1, <1>2, NullNotSlot DEF LinksOK
  <2>3. node[n].ts \in Nat /\ node[m].ts \in Nat
    BY <1>1, <2>1 DEF TypeOK, OrderNode
  <2> QED
    BY <2>1, <2>2, <2>3
<1>9. ASSUME NEW s \in Live'
      PROVE  /\ node'[s].id = node[s].id
             /\ node'[s].side = node[s].side
             /\ node'[s].price = node[s].price
             /\ node'[s].qty = node[s].qty
             /\ node'[s].ts = node[s].ts
             /\ node'[s].next = IF s = node[n].prev THEN node[n].next ELSE node[s].next
             /\ node'[s].prev = IF s = node[n].next THEN node[n].prev ELSE node[s].prev
  <2>1. s \in Slots /\ s # n /\ s # NULL
    BY <1>1, <1>7, NullNotSlot
  <2>2. node[s] \in OrderNode
    BY <2>1 DEF TypeOK
  <2>3. node'[s] = IF s = node[n].prev THEN [node[s] EXCEPT !.next = node[n].next]
                   ELSE IF s = node[n].next THEN [node[s] EXCEPT !.prev = node[n].prev]
                   ELSE node[s]
    BY <2>1 DEF Remove, Unlink
  <2> QED
    BY <2>1, <2>2, <2>3, <1>8 DEF OrderNode
<1> QED
  BY <1>2, <1>4, <1>5, <1>7, <1>9 DEF RemoveFacts

(* level_unlink and the erasure of an empty level keep the lists sound. *)
LEMMA RemoveKeepsLevels ==
  ASSUME TypeOK, IndexOK, OrdersOK, LevelsOK, LinksOK,
         NEW n \in Live, Remove(n)
  PROVE  LevelsOK' /\ LinksOK' /\ (\A s \in Live' : node[s].price \in keys'[node[s].side])
<1> DEFINE sd == node[n].side
           px == node[n].price
           prv == node[n].prev
           nxt == node[n].next
           lvl == level[sd][px]
           here == OrdersAt(sd, px)
           After(side, p) == {s \in Live' : node'[s].side = side /\ node'[s].price = p}
<1>1. /\ Live \subseteq Slots
      /\ \A s \in Live : /\ node[s].ts \in Nat
                         /\ node[s].price \in Prices
                         /\ node[s].side \in Sides
                         /\ s # NULL
  BY LiveTypes
<1>a. RemoveFacts(n)
  BY RemoveEffect
<1>2. /\ Live' = Live \ {n}
      /\ \A s \in Live' :
              /\ node'[s].side = node[s].side
              /\ node'[s].price = node[s].price
              /\ node'[s].ts = node[s].ts
              /\ node'[s].next = IF s = prv THEN nxt ELSE node[s].next
              /\ node'[s].prev = IF s = nxt THEN prv ELSE node[s].prev
  BY <1>a DEF RemoveFacts
<1>3. \A side, p : OrdersAt(side, p)' = OrdersAt(side, p) \ {n}
  BY <1>2 DEF OrdersAt
<1>4. /\ n \in here /\ sd \in Sides /\ px \in keys[sd] /\ px \in Prices
      /\ here \subseteq Live
  BY <1>1 DEF here, OrdersAt, OrdersOK
<1>5. /\ lvl.head \in here /\ lvl.tail \in here
      /\ node[lvl.head].prev = NULL /\ node[lvl.tail].next = NULL
      /\ \A s \in here : node[lvl.head].ts <= node[s].ts /\ node[s].ts <= node[lvl.tail].ts
  BY <1>4, Zenon DEF LevelsOK
<1>6. /\ prv = NULL => lvl.head = n
      /\ nxt = NULL => lvl.tail = n
      /\ prv # NULL => /\ prv \in here /\ node[prv].next = n
                       /\ node[prv].ts < node[n].ts
                       /\ \A t \in here : node[t].ts <= node[prv].ts \/ node[n].ts <= node[t].ts
      /\ nxt # NULL => /\ nxt \in here /\ node[nxt].prev = n
                       /\ node[n].ts < node[nxt].ts
                       /\ \A t \in here : node[t].ts <= node[n].ts \/ node[nxt].ts <= node[t].ts
  <2>1. /\ prv = NULL => lvl.head = n
        /\ nxt = NULL => lvl.tail = n
        /\ prv # NULL => prv \in here /\ node[prv].next = n
        /\ nxt # NULL => /\ nxt \in here /\ node[nxt].prev = n
                         /\ node[n].ts < node[nxt].ts
                         /\ \A t \in here : node[t].ts <= node[n].ts \/ node[nxt].ts <= node[t].ts
    BY DEF LinksOK
  <2>2. ASSUME prv # NULL
        PROVE  /\ node[prv].ts < node[n].ts
               /\ \A t \in here : node[t].ts <= node[prv].ts \/ node[n].ts <= node[t].ts
    <3>1. prv \in Live /\ OrdersAt(node[prv].side, node[prv].price) = here
      BY <2>1, <2>2 DEF OrdersAt
    <3>2. node[prv].next = n /\ n # NULL
      BY <2>1, <2>2, <1>1
    <3>3. LET next == node[prv].next
          IN  next # NULL =>
                /\ node[prv].ts < node[next].ts
                /\ \A t \in here : node[t].ts <= node[prv].ts \/ node[next].ts <= node[t].ts
      BY <3>1, Zenon DEF LinksOK
    <3> HIDE DEF prv, here
    <3> QED BY <3>2, <3>3
  <2> QED BY <2>1, <2>2, Zenon
<1>7. \A t \in here \ {n} : node[t].ts # node[n].ts
  <2>1. \A t \in Live : node[t].ts = node[n].ts => t = n
    BY DEF OrdersOK
  <2> QED BY <2>1, <1>4
<1>8. /\ level'[sd][px] = [head |-> IF prv = NULL THEN nxt ELSE lvl.head,
                          tail |-> IF nxt = NULL THEN prv ELSE lvl.tail]
      /\ \A side \in Sides, p \in Prices :
            (side # sd \/ p # px) => level'[side][p] = level[side][p]
  BY <1>4 DEF Remove, Unlink, TypeOK
<1>9. \A side \in Sides, p \in Prices :
         (side # sd \/ p # px) => (p \in keys'[side] <=> p \in keys[side])
  BY <1>4 DEF Remove, TypeOK
<1>10. px \in keys'[sd] <=> ~(prv = NULL /\ nxt = NULL)
  <2>1. lvl.head # NULL
    BY <1>1, <1>4, <1>5, Zenon
  <2>2. level'[sd][px].head = NULL <=> prv = NULL /\ nxt = NULL
    <3>1. level'[sd][px].head = IF prv = NULL THEN nxt ELSE lvl.head
      BY <1>8
    <3> HIDE DEF sd, px, prv, nxt, lvl
    <3> QED BY <2>1, <3>1
  <2>3. /\ level'[sd][px].head = NULL => keys' = [keys EXCEPT ![sd] = @ \ {px}]
        /\ level'[sd][px].head # NULL => keys' = keys
    BY DEF Remove
  <2> QED BY <2>2, <2>3, <1>4 DEF TypeOK
<1>b. \A t \in here : node[t].ts \in Nat /\ t # NULL
  BY <1>1, <1>4
<1>d. \A side, p : After(side, p) = OrdersAt(side, p) \ {n}
  BY <1>2 DEF OrdersAt
<1>c. (prv = NULL => lvl.head = n) /\ (nxt = NULL => lvl.tail = n)
  BY <1>6
<1> HIDE DEF sd, px, prv, nxt, lvl, here, After
<1>11. prv = NULL /\ nxt = NULL => here = {n}
  <2> SUFFICES ASSUME prv = NULL, nxt = NULL, NEW t \in here PROVE t = n
    BY <1>4
  <2> QED BY <1>b, <1>c, <1>4, <1>5, <1>7
<1>12. \A s \in Live' : node[s].price \in keys'[node[s].side]
  <2> SUFFICES ASSUME NEW s \in Live' PROVE node[s].price \in keys'[node[s].side]
    OBVIOUS
  <2>1. s \in Live /\ s # n /\ node[s].price \in keys[node[s].side]
    BY <1>2 DEF OrdersOK
  <2>2. CASE s \in here
    BY <2>1, <2>2, <1>10, <1>11 DEF OrdersAt, here
  <2>3. CASE s \notin here
    BY <2>1, <2>3, <1>1, <1>9 DEF OrdersAt, here
  <2> QED BY <2>2, <2>3
<1>13. LevelsOK'
  <2> SUFFICES ASSUME NEW side \in Sides, NEW p \in Prices
               PROVE  LET l == level'[side][p]
                      IN  /\ p \notin keys'[side] => l = EmptyLevel
                          /\ p \in keys'[side] =>
                               /\ l.head \in OrdersAt(side, p)'
                               /\ l.tail \in OrdersAt(side, p)'
                               /\ node'[l.head].prev = NULL
                               /\ node'[l.tail].next = NULL
                               /\ \A s \in OrdersAt(side, p)' :
                                    /\ node'[l.head].ts <= node'[s].ts
                                    /\ node'[s].ts <= node'[l.tail].ts
    BY DEF LevelsOK, EmptyLevel
  <2>1. CASE side # sd \/ p # px
    <3>1. /\ level'[side][p] = level[side][p]
          /\ p \in keys'[side] <=> p \in keys[side]
          /\ OrdersAt(side, p)' = OrdersAt(side, p)
      BY <2>1, <1>3, <1>8, <1>9 DEF OrdersAt, sd, px
    <3>a. OrdersAt(side, p) \cap here = {}
      BY <2>1 DEF OrdersAt, here
    <3>b. prv \notin OrdersAt(side, p) /\ nxt \notin OrdersAt(side, p)
      BY <3>a, <1>1, <1>6 DEF OrdersAt
    <3>2. \A s \in OrdersAt(side, p) : /\ s \in Live'
                                       /\ node'[s].prev = node[s].prev
                                       /\ node'[s].next = node[s].next
                                       /\ node'[s].ts = node[s].ts
      BY <3>b, <3>a, <1>2, <1>4 DEF OrdersAt
    <3> QED BY <3>1, <3>2 DEF LevelsOK
  <2>2. CASE side = sd /\ p = px /\ prv = NULL /\ nxt = NULL
    BY <2>2, <1>8, <1>10 DEF EmptyLevel
  <2>3. CASE side = sd /\ p = px /\ ~(prv = NULL /\ nxt = NULL)
    <3> DEFINE h == IF prv = NULL THEN nxt ELSE lvl.head
               t == IF nxt = NULL THEN prv ELSE lvl.tail
    <3>1. level'[side][p].head = h /\ level'[side][p].tail = t /\ p \in keys'[side]
      BY <2>3, <1>8, <1>10
    <3>2. h \in here \ {n} /\ t \in here \ {n}
      BY <2>3, <1>5, <1>6, <1>1, <1>4
    <3>3. node'[h].prev = NULL /\ node'[t].next = NULL
      BY <3>2, <2>3, <1>2, <1>4, <1>5, <1>6, <1>1
    <3>4. \A s \in here \ {n} : node[h].ts <= node[s].ts /\ node[s].ts <= node[t].ts
      BY <3>2, <2>3, <1>1, <1>4, <1>5, <1>6, <1>7
    <3>5. \A s \in here \ {n} : node'[s].ts = node[s].ts
      BY <1>2, <1>4
    <3> QED BY <3>1, <3>2, <3>3, <3>4, <3>5, <2>3, <1>3 DEF here
  <2> QED BY <2>1, <2>2, <2>3
<1>14. LinksOK'
  <2> SUFFICES ASSUME NEW s \in Live'
               PROVE  LET l == level'[node'[s].side][node'[s].price]
                          at == After(node'[s].side, node'[s].price)
                          next == node'[s].next
                          prev == node'[s].prev
                      IN  /\ prev = NULL => l.head = s
                          /\ next = NULL => l.tail = s
                          /\ prev # NULL => prev \in at /\ node'[prev].next = s
                          /\ next # NULL =>
                               /\ next \in at
                               /\ node'[next].prev = s
                               /\ node'[s].ts < node'[next].ts
                               /\ \A t \in at : node'[t].ts <= node'[s].ts
                                                \/ node'[next].ts <= node'[t].ts
    BY DEF LinksOK, OrdersAt, After
  <2>a. After(node'[s].side, node'[s].price) = OrdersAt(node[s].side, node[s].price) \ {n}
    BY <1>2, <1>d
  <2>1. s \in Live /\ s # n
    BY <1>2
  <2> DEFINE at == OrdersAt(node[s].side, node[s].price)
             l == level[node[s].side][node[s].price]
  <2>2. /\ node[s].prev = NULL => l.head = s
        /\ node[s].next = NULL => l.tail = s
        /\ node[s].prev # NULL => node[s].prev \in at /\ node[node[s].prev].next = s
        /\ node[s].next # NULL =>
             /\ node[s].next \in at
             /\ node[node[s].next].prev = s
             /\ node[s].ts < node[node[s].next].ts
             /\ \A t \in at : node[t].ts <= node[s].ts
                              \/ node[node[s].next].ts <= node[t].ts
    BY <2>1 DEF LinksOK
  <2>3. at \subseteq Live /\ s \in at
    BY <2>1 DEF OrdersAt
  <2> HIDE DEF at, l
  <2>4. \A t \in at \ {n} : /\ t \in Live'
                            /\ node'[t].ts = node[t].ts
                            /\ node'[t].next = IF t = prv THEN nxt ELSE node[t].next
                            /\ node'[t].prev = IF t = nxt THEN prv ELSE node[t].prev
    BY <2>3, <1>2
  <2>5. CASE s \notin here
    <3>1. /\ at \cap here = {}
          /\ level'[node'[s].side][node'[s].price] = l
      BY <2>5, <2>1, <1>1, <1>2, <1>8 DEF OrdersAt, here, at, l
    <3>2. n \notin at /\ prv \notin at /\ nxt \notin at
      BY <3>1, <2>3, <1>1, <1>4, <1>6
    <3>3. \A t \in at : node'[t].ts = node[t].ts /\ node'[t].next = node[t].next
                        /\ node'[t].prev = node[t].prev
      BY <3>2, <2>4
    <3>4. at \ {n} = at
      BY <3>2
    <3>5. OrdersAt(node[s].side, node[s].price) = at
      BY DEF at
    <3> QED BY <3>1, <3>2, <3>3, <3>4, <3>5, <2>a, <2>2, <2>3
  <2>6. CASE s \in here
    <3>1. /\ at = here /\ l = lvl
          /\ level'[node'[s].side][node'[s].price] =
               [head |-> IF prv = NULL THEN nxt ELSE lvl.head,
                tail |-> IF nxt = NULL THEN prv ELSE lvl.tail]
      BY <2>6, <1>2, <1>8, SMTT(30) DEF OrdersAt, here, lvl, at, l
    <3>2. /\ node'[s].prev = NULL =>
               (IF prv = NULL THEN nxt ELSE lvl.head) = s
          /\ node'[s].next = NULL =>
               (IF nxt = NULL THEN prv ELSE lvl.tail) = s
      BY <3>1, <2>1, <2>2, <2>3, <2>4, <1>5, <1>6
    <3>3. node'[s].prev # NULL => /\ node'[s].prev \in here \ {n}
                                  /\ node'[node'[s].prev].next = s
      <4>1. CASE s = nxt
        BY <4>1, <3>1, <2>1, <2>3, <2>4, <1>4, <1>6, <1>b
      <4>2. CASE s # nxt
        <5>1. node'[s].prev = node[s].prev
          BY <4>2, <2>1, <2>3, <2>4
        <5>2. node[s].prev # n
          BY <4>2, <2>2, <1>4, <1>b DEF nxt
        <5>3. node[s].prev # NULL => node[s].prev # prv
          BY <2>1, <2>2, <1>6
        <5> QED BY <5>1, <5>2, <5>3, <3>1, <2>2, <2>4
      <4> QED BY <4>1, <4>2
    <3>4. node'[s].next # NULL => /\ node'[s].next \in here \ {n}
                                  /\ node'[node'[s].next].prev = s
      <4>1. CASE s = prv
        BY <4>1, <3>1, <2>1, <2>3, <2>4, <1>4, <1>6, <1>b
      <4>2. CASE s # prv
        <5>1. node'[s].next = node[s].next
          BY <4>2, <2>1, <2>3, <2>4
        <5>2. node[s].next # n
          BY <4>2, <2>2, <1>4, <1>b DEF prv
        <5>3. node[s].next # NULL => node[s].next # nxt
          BY <2>1, <2>2, <1>6
        <5> QED BY <5>1, <5>2, <5>3, <3>1, <2>2, <2>4
      <4> QED BY <4>1, <4>2
    <3>5. node'[s].next # NULL =>
              /\ node[s].ts < node[node'[s].next].ts
              /\ \A t \in here \ {n} : node[t].ts <= node[s].ts
                                       \/ node[node'[s].next].ts <= node[t].ts
      <4>1. CASE s = prv
        <5>1. node'[s].next = nxt /\ prv # NULL
          BY <4>1, <3>1, <2>1, <2>3, <2>4, <1>b
        <5> QED BY <5>1, <4>1, <1>4, <1>6, <1>7, <1>b
      <4>2. CASE s # prv
        <5>1. node'[s].next = node[s].next
          BY <4>2, <2>1, <2>3, <2>4
        <5> QED BY <5>1, <3>1, <2>2
      <4> QED BY <4>1, <4>2
    <3>6. OrdersAt(node[s].side, node[s].price) = here
      BY <3>1 DEF at
    <3>7. \A t \in here \ {n} : node'[t].ts = node[t].ts
      BY <3>1, <2>4
    <3>8. node'[s].next # NULL =>
              /\ node'[s].ts < node'[node'[s].next].ts
              /\ \A t \in here \ {n} : node'[t].ts <= node'[s].ts
                                       \/ node'[node'[s].next].ts <= node'[t].ts
      BY <3>1, <3>4, <3>5, <3>7, <2>1, <2>3
    <3>9. /\ level'[node'[s].side][node'[s].price].head = IF prv = NULL THEN nxt ELSE lvl.head
          /\ level'[node'[s].side][node'[s].price].tail = IF nxt = NULL THEN prv ELSE lvl.tail
          /\ After(node'[s].side, node'[s].price) = here \ {n}
      BY <3>1, <3>6, <2>a
    <3> QED BY <3>2, <3>3, <3>4, <3>8, <3>9
  <2> QED BY <2>5, <2>6
<1> QED BY <1>12, <1>13, <1>14

(* release() of a slot whose order has left the index. *)
LEMMA ReleaseKeepsPool ==
  ASSUME TypeOK, PoolSafe,
         NEW k \in DOMAIN index, NEW n, n = index[k], Release(n),
         index' = [i \in DOMAIN index \ {k} |-> index[i]]
  PROVE  /\ PoolTypeOK'
         /\ PoolSafe'
         /\ DOMAIN index' \subseteq Nat /\ index' \in [DOMAIN index' -> Slots]
<1>1. n \in Live /\ Live \subseteq Slots /\ n \in Slots /\ n # NULL
  BY NullNotSlot DEF Live, TypeOK
<1>2. /\ DOMAIN index' = DOMAIN index \ {k}
      /\ \A i \in DOMAIN index' : index'[i] = index[i]
  OBVIOUS
<1>3. Live' = Live \ {n}
  BY <1>2 DEF Live, PoolSafe
<1>4. PoolTypeOK'
  BY <1>1 DEF PoolTypeOK, TypeOK, Release
<1>5. /\ freeHead' = n
      /\ slotNext'[n] = freeHead
      /\ \A s \in Slots \ {n} : slotNext'[s] = slotNext[s]
  BY <1>1 DEF Release, TypeOK, PoolTypeOK
<1>6. \A i, j \in DOMAIN index' : index'[i] = index'[j] => i = j
  BY <1>2 DEF PoolSafe
<1>7. ASSUME NEW s \in Slots \ Live', NEW t \in Slots \ Live'
      PROVE  /\ slotNext'[s] \notin Live'
             /\ slotNext'[s] # NULL => slotNext'[s] # freeHead'
             /\ slotNext'[s] # NULL /\ slotNext'[s] = slotNext'[t] => s = t
  <2>1. CASE s = n
    BY <2>1, <1>1, <1>3, <1>5 DEF PoolSafe
  <2>2. CASE s # n
    BY <2>2, <1>1, <1>3, <1>5 DEF PoolSafe
  <2> QED BY <2>1, <2>2
<1>8. PoolSafe'
  BY <1>1, <1>3, <1>5, <1>6, <1>7 DEF PoolSafe
<1> QED
  BY <1>2, <1>4, <1>8 DEF TypeOK

(* An order leaves the book by a fill or by a cancel. *)
LEMMA RemoveKeepsInvariant ==
  ASSUME IInv, pc # "destroy", NEW n \in Live, Remove(n),
         nextId' = nextId, nextTs' = nextTs, pc' = pc,
         trades' \in Seq(Trade), taker' \in [id : Nat, side : Sides, price : Int, remaining : Int],
         taker'.id = taker.id, taker'.price = taker.price
  PROVE  IInv'
<1>1. TypeOK /\ IndexOK /\ TakerOK /\ OrdersOK /\ LevelsOK /\ LinksOK /\ PoolSafe /\ Uncrossed
  BY DEF IInv, BookLinked
<1>2. RemoveFacts(n)
  BY <1>1, RemoveEffect
<1>3. LevelsOK' /\ LinksOK' /\ (\A s \in Live' : node[s].price \in keys'[node[s].side])
  BY <1>1, RemoveKeepsLevels
<1>4. PICK k \in DOMAIN index : index[k] = n
  BY DEF Live
<1>5. node[n].id = k
  BY <1>1, <1>4 DEF IndexOK
<1>6. /\ PoolTypeOK' /\ PoolSafe'
      /\ DOMAIN index' \subseteq Nat /\ index' \in [DOMAIN index' -> Slots]
  <2>1. Release(n) /\ index' = [i \in DOMAIN index \ {k} |-> index[i]]
    BY <1>5 DEF Remove, Unlink
  <2> QED BY <2>1, <1>1, <1>4, ReleaseKeepsPool
<1>7. TypeOK'
  <2>1. /\ n \in Slots /\ node[n] \in OrderNode
        /\ node[n].prev \in Links /\ node[n].next \in Links
        /\ node[n].side \in Sides /\ node[n].price \in Prices
    BY <1>1, LiveTypes DEF OrderNode
  <2>2. node' \in [Slots -> OrderNode]
    <3>1. Garbage \in OrderNode
      BY DEF Garbage, OrderNode, Sides, Links
    <3>2. ASSUME NEW s \in Slots
          PROVE  /\ [node[s] EXCEPT !.next = node[n].next] \in OrderNode
                 /\ [node[s] EXCEPT !.prev = node[n].prev] \in OrderNode
                 /\ node[s] \in OrderNode
      BY <1>1, <2>1, Zenon DEF TypeOK, OrderNode
    <3> QED BY <3>1, <3>2 DEF Remove, Unlink
  <2>3. level' \in [Sides -> [Prices -> Level]]
    <3>1. level[node[n].side][node[n].price] \in Level
      BY <1>1, <2>1 DEF TypeOK
    <3>2. [head |-> IF node[n].prev = NULL THEN node[n].next
                    ELSE level[node[n].side][node[n].price].head,
           tail |-> IF node[n].next = NULL THEN node[n].prev
                    ELSE level[node[n].side][node[n].price].tail] \in Level
      BY <2>1, <3>1 DEF Level
    <3> QED BY <3>2, <2>1, <1>1 DEF TypeOK, Remove, Unlink
  <2>4. keys' \in [Sides -> SUBSET Prices]
    BY <1>1, <2>1 DEF Remove, TypeOK
  <2> QED BY <1>1, <1>6, <2>2, <2>3, <2>4 DEF TypeOK
<1>8. IndexOK'
  <2> SUFFICES ASSUME NEW i \in DOMAIN index'
               PROVE  node'[index'[i]].id = i /\ 0 < i /\ i < nextId'
    BY DEF IndexOK
  <2>1. i \in DOMAIN index /\ index'[i] = index[i] /\ index'[i] \in Live'
    BY <1>2 DEF RemoveFacts, Live
  <2> QED BY <2>1, <1>1, <1>2 DEF IndexOK, RemoveFacts
<1>9. TakerOK'
  BY <1>1, <1>2 DEF TakerOK, RemoveFacts
<1>10. OrdersOK'
  <2>1. \A s \in Live' : s \in Live /\ node'[s].ts = node[s].ts /\ node'[s].qty = node[s].qty
                         /\ node'[s].price = node[s].price /\ node'[s].side = node[s].side
    BY <1>2 DEF RemoveFacts
  <2> QED BY <2>1, <1>1, <1>3 DEF OrdersOK
<1>11. Uncrossed'
  <2>1. \A s \in Live' : s \in Live /\ node'[s].price = node[s].price
                         /\ node'[s].side = node[s].side
    BY <1>2 DEF RemoveFacts
  <2> QED BY <2>1, <1>1 DEF Uncrossed
<1> QED
  BY <1>3, <1>6, <1>7, <1>8, <1>9, <1>10, <1>11 DEF IInv, BookLinked

=============================================================================
