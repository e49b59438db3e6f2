------------------------------ MODULE OrderBook ------------------------------
(***************************************************************************)
(* hft::OrderBook (mvp/src/order_book.{h,cpp}) behind hft::Engine           *)
(* (mvp/src/engine.h): price levels holding intrusive doubly linked FIFO    *)
(* lists of pooled order nodes, and an index from order id to node.         *)
(*                                                                          *)
(* place_limit is one step per iteration of its matching loop, so that the  *)
(* invariants are checked between the iterations; cancel is one step.  Both *)
(* sides run the same code on mirrored maps, here one function of the side. *)
(***************************************************************************)
EXTENDS Pool, Sequences, FiniteSets

CONSTANTS Prices,     \* limit prices the clients use, in ticks
          Quantities, \* order quantities the clients use
          MaxOrders   \* bound: calls of place_limit

ASSUME OrderBookAssumption ==
    /\ Prices \subseteq Int
    /\ Quantities \subseteq Int
    /\ MaxOrders \in Nat

VARIABLES node,    \* the OrderNode stored in each slot
          level,   \* [side -> [price -> Level]], the values of bids_ and asks_
          keys,    \* [side -> set of prices], the keys of bids_ and asks_
          index,   \* index_: order id -> slot
          nextId,  \* next_id_
          nextTs,  \* next_ts_
          trades,  \* trades_scratch_ / last_trades_ of the Engine
          taker,   \* the place_limit call in progress: id, side, price, remaining
          pc       \* what the book's thread is executing

bookVars == <<node, level, keys, index, nextId, nextTs, trades, taker, pc>>
vars == <<bookVars, poolVars>>

Sides == {"Buy", "Sell"}
Opposite(side) == IF side = "Buy" THEN "Sell" ELSE "Buy"

Links == Slots \cup {NULL}
OrderNode == [id : Nat, side : Sides, price : Int, qty : Int, ts : Nat,
              prev : Links, next : Links]
Level == [head : Links, tail : Links]
Trade == [taker : Nat, maker : Nat, price : Int, qty : Int]

(* What a slot holds while no order lives in it: bytes no one may read. *)
Garbage == [id |-> 0, side |-> "Buy", price |-> 0, qty |-> 0, ts |-> 0,
            prev |-> NULL, next |-> NULL]
EmptyLevel == [head |-> NULL, tail |-> NULL]

(* The slots that hold an order. *)
Live == {index[i] : i \in DOMAIN index}

(* p is at least as good as q for whoever trades against this side: the     *)
(* key_compare of asks_ (ascending) and of bids_ (descending).              *)
AtLeastAsGood(side, p, q) == IF side = "Sell" THEN p <= q ELSE p >= q

(* Mutant: both maps ordered as bids_. *)
IsBestLevel_Highest(side, p) ==
    p \in keys[side] /\ \A q \in keys[side] : p >= q

(* begin() of the side's map. *)
IsBestLevel(side, p) ==
    p \in keys[side] /\ \A q \in keys[side] : AtLeastAsGood(side, p, q)

(* Mutant: a locked price does not trade. *)
Crosses_Strictly(takerSide, limit, p) ==
    IF takerSide = "Buy" THEN p < limit ELSE p > limit

(* A level of the opposite side that a taker with this limit trades with. *)
Crosses(takerSide, limit, p) ==
    IF takerSide = "Buy" THEN p <= limit ELSE p >= limit

-----------------------------------------------------------------------------
(* Mutant: the new order is put before the oldest one. *)
PushBack_AtHead(n, new) ==
    LET lvl == level[new.side][new.price]
    IN  /\ node' = [s \in Slots |->
              IF s = n THEN [new EXCEPT !.next = lvl.head]
              ELSE IF s = lvl.head THEN [node[s] EXCEPT !.prev = n]
              ELSE node[s]]
        /\ level' = [level EXCEPT ![new.side][new.price] =
              [head |-> n, tail |-> IF lvl.tail = NULL THEN n ELSE lvl.tail]]

(* level_push_back of the node just constructed in slot n. *)
PushBack(n, new) ==
    LET lvl == level[new.side][new.price]
    IN  /\ node' = [s \in Slots |->
              IF s = n THEN [new EXCEPT !.prev = lvl.tail]
              ELSE IF s = lvl.tail THEN [node[s] EXCEPT !.next = n]
              ELSE node[s]]
        /\ level' = [level EXCEPT ![new.side][new.price] =
              [head |-> IF lvl.tail = NULL THEN n ELSE lvl.head, tail |-> n]]

(* Mutant: the tail of the level is left pointing at the node. *)
Unlink_KeepsTail(n) ==
    LET prev == node[n].prev
        next == node[n].next
    IN  /\ node' = [s \in Slots |->
              IF s = n THEN Garbage
              ELSE IF s = prev THEN [node[s] EXCEPT !.next = next]
              ELSE IF s = next THEN [node[s] EXCEPT !.prev = prev]
              ELSE node[s]]
        /\ level' = [level EXCEPT ![node[n].side][node[n].price].head =
                        IF prev = NULL THEN next ELSE @]
        /\ Release(n)

(* level_unlink, and the node's slot goes back to the pool. *)
Unlink(n) ==
    LET prev == node[n].prev
        next == node[n].next
        lvl == level[node[n].side][node[n].price]
    IN  /\ node' = [s \in Slots |->
              IF s = n THEN Garbage
              ELSE IF s = prev THEN [node[s] EXCEPT !.next = next]
              ELSE IF s = next THEN [node[s] EXCEPT !.prev = prev]
              ELSE node[s]]
        /\ level' = [level EXCEPT ![node[n].side][node[n].price] =
              [head |-> IF prev = NULL THEN next ELSE lvl.head,
               tail |-> IF next = NULL THEN prev ELSE lvl.tail]]
        /\ Release(n)

(* An order leaves the book: its node is unlinked and released, its id goes *)
(* out of the index, and a level it leaves empty is erased from the map.    *)
Remove(n) ==
    /\ Unlink(n)
    /\ keys' = IF level'[node[n].side][node[n].price].head = NULL
               THEN [keys EXCEPT ![node[n].side] = @ \ {node[n].price}]
               ELSE keys
    /\ index' = [i \in DOMAIN index \ {node[n].id} |-> index[i]]

-----------------------------------------------------------------------------
Init ==
    /\ PoolInit
    /\ node = [s \in Slots |-> Garbage]
    /\ level = [side \in Sides |-> [p \in Prices |-> EmptyLevel]]
    /\ keys = [side \in Sides |-> {}]
    /\ index = [i \in {} |-> NULL]
    /\ nextId = 1
    /\ nextTs = 1
    /\ trades = <<>>
    /\ taker = [id |-> 0, side |-> "Buy", price |-> 0, remaining |-> 0]
    /\ pc = "idle"

(* Engine::place_limit clears the scratch trades; OrderBook::place_limit     *)
(* takes the next id before anything can fail.                              *)
PlaceLimit(side, price, qty) ==
    /\ pc = "idle"
    /\ nextId <= MaxOrders
    /\ taker' = [id |-> nextId, side |-> side, price |-> price, remaining |-> qty]
    /\ nextId' = nextId + 1
    /\ trades' = <<>>
    /\ pc' = "match"
    /\ UNCHANGED <<node, level, keys, index, nextTs, poolVars>>

(* One iteration of the inner loop of match_against: the head of the best   *)
(* level, if that level crosses, trades with the taker.                     *)
MatchStep ==
    /\ pc = "match"
    /\ taker.remaining > 0
    /\ \E p \in keys[Opposite(taker.side)] :
         LET maker == level[Opposite(taker.side)][p].head
             fill == IF taker.remaining <= node[maker].qty
                     THEN taker.remaining ELSE node[maker].qty
         IN  /\ IsBestLevel(Opposite(taker.side), p)
             /\ Crosses(taker.side, taker.price, p)
             /\ maker # NULL
             /\ trades' = Append(trades, [taker |-> taker.id, maker |-> node[maker].id,
                                          price |-> p, qty |-> fill])
             /\ taker' = [taker EXCEPT !.remaining = @ - fill]
             /\ \/ /\ fill = node[maker].qty
                   /\ Remove(maker)
                \/ /\ fill # node[maker].qty
                   /\ node' = [node EXCEPT ![maker].qty = @ - fill]
                   /\ UNCHANGED <<level, keys, index, poolVars>>
    /\ UNCHANGED <<nextId, nextTs, pc>>

(* match_against returns: nothing is left to fill, or the opposite side is  *)
(* empty, or its best level does not cross.  A side whose best level does   *)
(* not cross has no level that does.                                        *)
MatchDone ==
    /\ pc = "match"
    /\ \/ taker.remaining <= 0
       \/ \A p \in keys[Opposite(taker.side)] :
             ~Crosses(taker.side, taker.price, p)

(* Mutant: the loop goes on once the taker is used up. *)
Filled_LoopsOn ==
    /\ MatchDone
    /\ taker.remaining <= 0
    /\ UNCHANGED vars

(* place_limit returns with nothing to rest. *)
Filled ==
    /\ MatchDone
    /\ taker.remaining <= 0
    /\ pc' = "idle"
    /\ UNCHANGED <<node, level, keys, index, nextId, nextTs, trades, taker, poolVars>>

(* The remainder rests at the back of its level. *)
Rest ==
    /\ MatchDone
    /\ taker.remaining > 0
    /\ \E n \in Slots :
         /\ Acquire(n)
         /\ PushBack(n, [id |-> taker.id, side |-> taker.side, price |-> taker.price,
                         qty |-> taker.remaining, ts |-> nextTs,
                         prev |-> NULL, next |-> NULL])
         /\ index' = [i \in DOMAIN index \cup {taker.id} |->
                         IF i = taker.id THEN n ELSE index[i]]
    /\ keys' = [keys EXCEPT ![taker.side] = @ \cup {taker.price}]
    /\ nextTs' = nextTs + 1
    /\ pc' = "idle"
    /\ UNCHANGED <<nextId, trades, taker>>

(* acquire() returned nullptr: place_limit returns the id all the same.      *)
Exhausted ==
    /\ MatchDone
    /\ taker.remaining > 0
    /\ freeHead = NULL
    /\ pc' = "idle"
    /\ UNCHANGED <<node, level, keys, index, nextId, nextTs, trades, taker, poolVars>>

(* cancel(id) of an id in the index.  For any other id it returns false and *)
(* changes nothing, as it does when the node's level is missing.            *)
Cancel(id) ==
    /\ pc = "idle"
    /\ node[index[id]].price \in keys[node[index[id]].side]
    /\ Remove(index[id])
    /\ UNCHANGED <<nextId, nextTs, trades, taker, pc>>

(* ~OrderBook walks the index, in whatever order the hash map has, and       *)
(* releases every node; index is what is left to walk.                      *)
Destroy ==
    /\ pc = "idle"
    /\ pc' = "destroy"
    /\ UNCHANGED <<node, level, keys, index, nextId, nextTs, trades, taker, poolVars>>

DestroyNode(id) ==
    /\ pc = "destroy"
    /\ node' = [node EXCEPT ![index[id]] = Garbage]
    /\ Release(index[id])
    /\ index' = [i \in DOMAIN index \ {id} |-> index[i]]
    /\ UNCHANGED <<level, keys, nextId, nextTs, trades, taker, pc>>

(* The book is gone; nothing else happens. *)
Destroyed ==
    /\ pc = "destroy"
    /\ index = [i \in {} |-> NULL]
    /\ UNCHANGED vars

Next ==
    \/ \E side \in Sides, price \in Prices, qty \in Quantities :
          PlaceLimit(side, price, qty)
    \/ MatchStep
    \/ Filled
    \/ Rest
    \/ Exhausted
    \/ \E id \in DOMAIN index : Cancel(id)
    \/ Destroy
    \/ \E id \in DOMAIN index : DestroyNode(id)
    \/ Destroyed

(* The thread that calls place_limit runs it to its end. *)
Fairness == WF_vars(MatchStep \/ Filled \/ Rest \/ Exhausted)

Spec == Init /\ [][Next]_vars /\ Fairness
-----------------------------------------------------------------------------
(* Type correctness of the book's and of the pool's members. *)
TypeOK ==
    /\ PoolTypeOK
    /\ node \in [Slots -> OrderNode]
    /\ level \in [Sides -> [Prices -> Level]]
    /\ keys \in [Sides -> SUBSET Prices]
    /\ DOMAIN index \subseteq Nat
    /\ index \in [DOMAIN index -> Slots]
    /\ nextId \in Nat \ {0}
    /\ nextTs \in Nat
    /\ trades \in Seq(Trade)
    /\ taker \in [id : Nat, side : Sides, price : Int, remaining : Int]
    /\ pc \in {"idle", "match", "destroy"}

(* The slots whose order rests at this price of this side. *)
OrdersAt(side, price) ==
    {s \in Live : node[s].side = side /\ node[s].price = price}

(* The index names each resting order once, under its own id. *)
IndexOK ==
    \A i \in DOMAIN index :
        /\ node[index[i]].id = i
        /\ 0 < i /\ i < nextId

(* The order being placed is younger than every resting one. *)
TakerOK ==
    pc = "match" => /\ taker.price \in Prices
                    /\ 0 < taker.id /\ taker.id < nextId
                    /\ \A i \in DOMAIN index : i < taker.id

(* A resting order has something left to trade and a price that is a key of *)
(* its side's map; arrival stamps are distinct.                             *)
OrdersOK ==
    /\ \A s \in Live : /\ node[s].qty > 0
                       /\ node[s].price \in keys[node[s].side]
                       /\ node[s].ts < nextTs
    /\ \A s, t \in Live : node[s].ts = node[t].ts => s = t

(* No level of the maps is empty, and its ends are its oldest and youngest. *)
LevelsOK ==
    \A side \in Sides : \A p \in Prices :
        LET lvl == level[side][p]
        IN  /\ p \notin keys[side] => lvl = EmptyLevel
            /\ p \in keys[side] =>
                 /\ lvl.head \in OrdersAt(side, p)
                 /\ lvl.tail \in OrdersAt(side, p)
                 /\ node[lvl.head].prev = NULL
                 /\ node[lvl.tail].next = NULL
                 /\ \A s \in OrdersAt(side, p) : /\ node[lvl.head].ts <= node[s].ts
                                                 /\ node[s].ts <= node[lvl.tail].ts

(* The links stay inside the level, mirror each other, and lead from each   *)
(* order to the next younger one with none in between.                      *)
LinksOK ==
    \A s \in Live :
        LET here == OrdersAt(node[s].side, node[s].price)
            lvl == level[node[s].side][node[s].price]
            next == node[s].next
            prev == node[s].prev
        IN  /\ prev = NULL => lvl.head = s
            /\ next = NULL => lvl.tail = s
            /\ prev # NULL => prev \in here /\ node[prev].next = s
            /\ next # NULL =>
                 /\ next \in here
                 /\ node[next].prev = s
                 /\ node[s].ts < node[next].ts
                 /\ \A t \in here : node[t].ts <= node[s].ts \/ node[next].ts <= node[t].ts

(* The data structure of order_book.h is sound between any two iterations   *)
(* of the matching loop and after every cancel: index_, the level maps and  *)
(* the intrusive lists describe the same set of orders, and following next  *)
(* from head meets each order of the level once, oldest first.              *)
BookLinked ==
    pc # "destroy" => IndexOK /\ TakerOK /\ OrdersOK /\ LevelsOK /\ LinksOK

(* pool_ is exact: the free list meets every slot that holds no order once  *)
(* and ends, and in_use() is the number of resting orders.  No unlink leaks *)
(* a slot, releases it twice or leaves it both free and in the book, and    *)
(* the destructor gives every slot back.                                    *)
PoolExact ==
    LET walk == FreeWalk(Capacity)
        free == {walk[i] : i \in 0 .. Capacity} \ {NULL}
    IN  /\ free = Slots \ Live
        /\ walk[Cardinality(free)] = NULL
        /\ inUse = Cardinality(DOMAIN index)
        /\ Cardinality(Live) = Cardinality(DOMAIN index)

(* The pool never hands out a slot that holds an order: the free list       *)
(* starts at and leads only to slots without one, no two links share a      *)
(* target, and no two ids share a slot (pool.h keeps no such check).        *)
PoolSafe ==
    /\ freeHead \notin Live
    /\ \A i, j \in DOMAIN index : index[i] = index[j] => i = j
    /\ \A s, t \in Slots \ Live :
        /\ slotNext[s] \notin Live
        /\ slotNext[s] # NULL => slotNext[s] # freeHead
        /\ slotNext[s] # NULL /\ slotNext[s] = slotNext[t] => s = t

(* The book never rests crossed or locked: place_limit trades a new order   *)
(* down to its limit before any of it rests, also when the pool is full.    *)
Uncrossed ==
    pc # "destroy" =>
        \A b, a \in Live : node[b].side = "Buy" /\ node[a].side = "Sell"
                           => node[b].price < node[a].price

(* The inductive invariant. *)
IInv == TypeOK /\ BookLinked /\ PoolSafe /\ Uncrossed

(* Price-time priority of match_against: every trade is with the oldest     *)
(* order of the best opposite price, at that order's price, within the      *)
(* taker's limit, and for all that both sides still have.                   *)
PriceTimeStep ==
    trades' # trades /\ trades' # <<>> =>
        LET t == trades'[Len(trades')]
            side == Opposite(taker.side)
            rivals == {s \in Live : node[s].side = side}
        IN  /\ trades' = Append(trades, t)
            /\ t.maker \in DOMAIN index
            /\ LET m == index[t.maker]
               IN  /\ m \in rivals
                   /\ t.price = node[m].price
                   /\ Crosses(taker.side, taker.price, t.price)
                   /\ t.qty = taker.remaining - taker'.remaining
                   /\ t.qty > 0
                   /\ taker'.remaining = 0 \/ t.maker \notin DOMAIN index'
                   /\ \A s \in rivals \ {m} :
                        /\ AtLeastAsGood(side, node[m].price, node[s].price)
                        /\ node[m].price = node[s].price => node[m].ts < node[s].ts

(* Price-time priority, as a property of every step. *)
PriceTimePriority == [][PriceTimeStep]_vars

(* The matching loop ends: each iteration uses up the taker or a maker. *)
PlaceLimitReturns == pc = "match" ~> pc # "match"
=============================================================================
