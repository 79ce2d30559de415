-------------------------- MODULE MCSqliteBackend --------------------------
(***************************************************************************)
(* SqliteBackend for TLC.                                                  *)
(***************************************************************************)
EXTENDS SqliteBackend, TLC

Header(rev, b) == [rev |-> rev, blob |-> b]
Contents == {[rev |-> NULL, blob |-> b] : b \in Blob}

(* Every operation of store.Store and store.EnvelopeBackend; the header is *)
(* created at the first revision and swapped one revision up.              *)
Everything ==
    [op : {"insert"}, row : Rows \ {B!HeaderRow}, value : Contents]
    \cup [op : {"insert"}, row : {B!HeaderRow}, value : {Header(1, b) : b \in Blob}]
    \cup {[op |-> "swap", expected |-> r, value |-> Header(r + 1, b)] :
             r \in {n \in Revision : n + 1 \in Revision}, b \in Blob}
    \cup [op : {"remove"}, row : Rows \ {B!HeaderRow}]
    \cup [op : {"read"}, row : Rows]
    \cup [op : {"list"}, space : {"plain", "envelope"}]

Symmetric == Permutations(Proc) \cup Permutations(Blob)
=============================================================================
