----------------------------- MODULE MCSpscRing -----------------------------
(* The ring with a word of a few bits, so that the counters wrap. *)
EXTENDS SpscRing

(* detail::round_up_pow2, for the capacities of these instances. *)
RoundUpPow2(n) == CHOOSE p \in {2, 4, 8} : p >= n /\ \A q \in {2, 4, 8} : q >= n => p <= q

Capacity == 3
MCkCap == RoundUpPow2(Capacity)
=============================================================================
