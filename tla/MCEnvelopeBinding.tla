------------------------- MODULE MCEnvelopeBinding -------------------------
(* Instances of EnvelopeBinding for TLC. *)
EXTENDS EnvelopeBinding

HeaderText == <<0>>
RecordText == <<1>>

TwoDatabases == {<<7>>, <<8>>}

(* Aliases that spell the length prefix of a field. *)
Aliases == {<<1>>, <<0, 0, 0, 1>>}

Field(n) == [i \in 1..n |-> 1]

(* Fields empty, within the limit, and beyond it. *)
Records == [cred : {Field(n) : n \in 0..2}, salt : {Field(1)}, rpid : {Field(n) : n \in 1..2}]

(* References that read alike without their length prefixes. *)
Refs == {[cred |-> <<1>>, salt |-> <<1>>, rpid |-> <<1, 1>>],
         [cred |-> <<1, 1>>, salt |-> <<1>>, rpid |-> <<1>>]}
=============================================================================
