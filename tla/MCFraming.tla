------------------------------ MODULE MCFraming ------------------------------
(* Two messages, one with an empty value and a value that looks like a      *)
(* trailer, or one whose text holds a SOH.                                  *)
(* Codes: 65 A, 68 D, 70 F, 88 X.                                           *)
EXTENDS Framing

F(t, v) == [tag |-> t, value |-> v]

MCBegin == <<70>>

MCScripts ==
    {<< <<F(35, <<65>>), F(58, <<>>)>>,
        <<F(35, <<68>>), F(1, <<49, 48, Eq, 48, 48, 48>>)>> >>,
     << <<F(35, <<65>>), F(58, <<88, SOH, 88>>)>> >>}

MCDamage == {SOH, Eq, 48, 49, 57, 88}
=============================================================================
