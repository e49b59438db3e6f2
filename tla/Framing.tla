------------------------------- MODULE Framing -------------------------------
(***************************************************************************)
(* How FIX messages cross a TCP stream: hft::fix::Builder on one side,      *)
(* split_frame() and parse_frame() (mvp/src/fix/parser.cpp) in the receive  *)
(* loop of Gateway::session_loop on the other.  TCP hands over the bytes in *)
(* chunks of any size; one byte may have been damaged before it was sent.   *)
(* A byte is its code.                                                      *)
(***************************************************************************)
EXTENDS Integers, SequencesExt

CONSTANTS Scripts,     \* bound: what the peer may send, sequences of lists of fields
          Damage,      \* bound: the bytes a damaged byte may turn into
          Chunks,      \* bound: how many bytes one recv() may return
          BeginString, \* value of field 8
          LenDigits,   \* digits reserved for the body length, 6 in the code
          MaxBody,     \* longest body accepted, 1 << 20 in the code
          MaxTag       \* INT_MAX

ASSUME FramingAssumption ==
    /\ LenDigits \in Nat \ {0} /\ MaxBody \in Nat /\ MaxTag \in Nat
    /\ Chunks \subseteq Nat \ {0}

VARIABLES sent,        \* the fields of the peer's messages
          wire,        \* the bytes they became
          intact,      \* history: has no byte been damaged?
          pos,         \* bytes received
          rxBuf, delivered,
          pc           \* "recv", "drain" or "closed"

vars == <<sent, wire, intact, pos, rxBuf, delivered, pc>>

SOH == 1
Eq == 61
IsDigit(c) == c \in 48..57

-----------------------------------------------------------------------------
(* std::to_chars, and the padded conversions of snprintf. *)
Padded(n, w) == [i \in 1..w |-> 48 + ((n \div 10^(w - i)) % 10)]
Decimal(n) == Padded(n, CHOOSE w \in 1..9 : n < 10^w /\ (w = 1 \/ n >= 10^(w - 1)))

(* std::from_chars *)
Number(digits) ==
    LET value[i \in 0..Len(digits)] ==
            IF i = 0 THEN 0 ELSE 10 * value[i - 1] + (digits[i] - 48)
    IN  value[Len(digits)]

(* checksum() *)
Checksum(bytes) ==
    LET sum[i \in 0..Len(bytes)] == IF i = 0 THEN 0 ELSE (sum[i - 1] + bytes[i]) % 256
    IN  sum[Len(bytes)]

(* Builder::add_str and its variants, begin() and finalize(). *)
Field(tag, value) == Decimal(tag) \o <<Eq>> \o value \o <<SOH>>

Header == Field(8, BeginString)

(* Mutant: the length is that of the whole buffer. *)
LenField_Whole(body) == Field(9, Padded(Len(Header) + Len(body), LenDigits))

(* A length with more digits than the slot loses its last ones. *)
LenField(body) ==
    LET n == Len(body)
    IN  Field(9, IF n < 10^LenDigits THEN Padded(n, LenDigits) ELSE SubSeq(Decimal(n), 1, LenDigits))

Finalize(body) ==
    LET front == Header \o LenField(body) \o body
    IN  front \o Field(10, Padded(Checksum(front), 3))

Build(fields) ==
    Finalize(FlattenSeq([k \in DOMAIN fields |-> Field(fields[k].tag, fields[k].value)]))

-----------------------------------------------------------------------------
(* split_frame() *)
Incomplete == [status |-> "Incomplete", len |-> 0]
Malformed  == [status |-> "Malformed", len |-> 0]

(* The trailer of a frame whose body ends before position t. *)
TrailerFits(buf, t) == SubSeq(buf, t, t + 2) = <<49, 48, Eq>> /\ buf[t + 6] = SOH


SumFits(buf, t) ==
    /\ \A i \in t + 3..t + 5 : IsDigit(buf[i])
    /\ Number(SubSeq(buf, t + 3, t + 5)) % 256 = Checksum(SubSeq(buf, 1, t - 1))

Whole(buf, total) == Len(buf) >= total

SplitFrame(buf) ==
    LET b == Len(Header)
        stop == SelectInSubSeq(buf, b + 3, Len(buf), LAMBDA c : ~IsDigit(c))
        digits == SubSeq(buf, b + 3, stop - 1)
        body == Number(digits)
        total == stop + body + 7
    IN  IF Len(buf) < b THEN Incomplete
        ELSE IF ~IsPrefix(Header, buf) THEN Malformed
        ELSE IF Len(buf) < b + 2 THEN Incomplete
        ELSE IF SubSeq(buf, b + 1, b + 2) # <<57, Eq>> THEN Malformed
        ELSE IF stop = 0 THEN Incomplete
        ELSE IF buf[stop] # SOH \/ digits = <<>> \/ body > MaxBody THEN Malformed
        ELSE IF ~Whole(buf, total) THEN Incomplete
        ELSE IF ~TrailerFits(buf, stop + body + 1) \/ ~SumFits(buf, stop + body + 1) THEN Malformed
        ELSE [status |-> "Ok", len |-> total]

(* parse_frame(): the pieces between two SOH, each a number, '=' and a value. *)
Pieces(frame) ==
    LET ends == SelectSeq([i \in DOMAIN frame |-> i], LAMBDA i : frame[i] = SOH)
    IN  [k \in DOMAIN ends |->
           SubSeq(frame, IF k = 1 THEN 1 ELSE ends[k - 1] + 1, ends[k] - 1)]

TagOf(p) == SubSeq(p, 1, SelectInSeq(p, LAMBDA c : c = Eq) - 1)

ValueOf(p) == SubSeq(p, SelectInSeq(p, LAMBDA c : c = Eq) + 1, Len(p))

Parses(frame) ==
    \A p \in ToSet(Pieces(frame)) :
        /\ TagOf(p) # <<>> /\ \A c \in ToSet(TagOf(p)) : IsDigit(c)
        /\ Number(TagOf(p)) <= MaxTag

ParseFrame(frame) ==
    [k \in DOMAIN Pieces(frame) |->
       LET p == Pieces(frame)[k] IN [tag |-> Number(TagOf(p)), value |-> ValueOf(p)]]

(* Message::get *)
Get(msg, tag) ==
    LET k == SelectInSeq(msg, LAMBDA f : f.tag = tag) IN IF k = 0 THEN <<>> ELSE msg[k].value

(* Message::msg_type *)
MsgType(msg) == LET v == Get(msg, 35) IN IF v = <<>> THEN 0 ELSE v[1]

-----------------------------------------------------------------------------
Bytes(script) == FlattenSeq([k \in DOMAIN script |-> Build(script[k])])

Init ==
    /\ sent \in Scripts
    /\ \/ intact = TRUE /\ wire = Bytes(sent)
       \/ /\ intact = FALSE
          /\ \E i \in 1..Len(Bytes(sent)), c \in Damage :
                c # Bytes(sent)[i] /\ wire = ReplaceAt(Bytes(sent), i, c)
    /\ pos = 0 /\ rxBuf = <<>> /\ delivered = <<>> /\ pc = "recv"

(* recv(): some of the bytes, or all that are left. *)
Recv ==
    /\ pc = "recv" /\ pos < Len(wire)
    /\ \E n \in Chunks \cup {Len(wire)} :
          LET upTo == Min({pos + n, Len(wire)})
          IN  rxBuf' = rxBuf \o SubSeq(wire, pos + 1, upTo) /\ pos' = upTo
    /\ pc' = "drain"
    /\ UNCHANGED <<sent, wire, intact, delivered>>

(* recv() returns 0. *)
Hangup ==
    /\ pc = "recv" /\ pos = Len(wire)
    /\ pc' = "closed"
    /\ UNCHANGED <<sent, wire, intact, pos, rxBuf, delivered>>

Frame == SubSeq(rxBuf, 1, SplitFrame(rxBuf).len)

NeedMore ==
    /\ pc = "drain" /\ SplitFrame(rxBuf).status = "Incomplete"
    /\ pc' = "recv"
    /\ UNCHANGED <<sent, wire, intact, pos, rxBuf, delivered>>

(* Malformed, or a frame that does not parse: a Logout, and the loop ends.  *)
Drop ==
    /\ pc = "drain"
    /\ \/ SplitFrame(rxBuf).status = "Malformed"
       \/ SplitFrame(rxBuf).status = "Ok" /\ ~Parses(Frame)
    /\ pc' = "closed"
    /\ UNCHANGED <<sent, wire, intact, pos, rxBuf, delivered>>

(* Mutant: as many bytes go from the wrong end. *)
Erased_Tail == SubSeq(rxBuf, 1, Len(rxBuf) - Len(Frame))

(* What is left of rx_buf once the frame has been handled. *)
Erased == SubSeq(rxBuf, Len(Frame) + 1, Len(rxBuf))

Deliver ==
    /\ pc = "drain" /\ SplitFrame(rxBuf).status = "Ok" /\ Parses(Frame)
    /\ delivered' = Append(delivered, ParseFrame(Frame))
    /\ rxBuf' = Erased
    /\ UNCHANGED <<sent, wire, intact, pos, pc>>

Next == Recv \/ Hangup \/ NeedMore \/ Drop \/ Deliver

Spec == Init /\ [][Next]_vars

-----------------------------------------------------------------------------
(* A delivered message without its framing fields. *)
Body(msg) == SubSeq(msg, 3, Len(msg) - 1)

(* How many of the peer's messages lie within the first n bytes. *)
Ends(k) == Len(Bytes(SubSeq(sent, 1, k)))
Within(n) == Cardinality({k \in DOMAIN sent : Ends(k) <= n})

(* The buffer is always what has been received and not been handled. *)
TypeOK ==
    /\ pc \in {"recv", "drain", "closed"} /\ pos \in 0..Len(wire)
    /\ IsSuffix(rxBuf, SubSeq(wire, 1, pos))


(* An undamaged stream; add_str() copies a value whatever it holds, and one  *)
(* with a SOH in it ends its field early.                                   *)
Clean == intact /\ \A k \in DOMAIN sent : \A f \in ToSet(sent[k]) : ~Contains(f.value, SOH)

(* The outcome depends on the bytes and not on how they were cut up: when   *)
(* the loop is back at recv(), every whole message of a clean stream has    *)
(* been handled, and the session ends only after the last of them.          *)
ChunksIrrelevant ==
    Clean =>  /\ pc = "recv" => Len(delivered) = Within(pos)
              /\ pc = "closed" => Len(delivered) = Len(sent)
=============================================================================
