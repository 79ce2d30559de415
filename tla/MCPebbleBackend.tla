-------------------------- MODULE MCPebbleBackend --------------------------
(***************************************************************************)
(* PebbleBackend for TLC: one alias is an extension of the other.          *)
(***************************************************************************)
EXTENDS PebbleBackend, TLC

MCAlias == {<<"a">>, <<"a", "b">>}

Header(rev, b) == [rev |-> rev, blob |-> b]
Content(b) == [rev |-> NULL, blob |-> b]
Plain(a) == [space |-> "plain", alias |-> a]
Sealed(a) == [space |-> "envelope", alias |-> a]

(* Puts, Gets and Deletes of records and envelopes, ListEnvelopes, and the *)
(* header operations as the encrypted store makes them: created at the     *)
(* first revision, swapped one revision up.                                *)
Mixed ==
    [op : {"insert"}, row : {Plain(a) : a \in MCAlias} \cup {Sealed(a) : a \in MCAlias},
     value : {Content(b) : b \in Blob}]
    \cup [op : {"insert"}, row : {B!HeaderRow}, value : {Header(1, b) : b \in Blob}]
    \cup {[op |-> "swap", expected |-> r, value |-> Header(r + 1, b)] :
             r \in {n \in Revision : n + 1 \in Revision}, b \in Blob}
    \cup [op : {"remove"}, row : {Plain(a) : a \in MCAlias} \cup {Sealed(a) : a \in MCAlias}]
    \cup [op : {"read"}, row : Rows]
    \cup [op : {"list"}, space : {"envelope"}]

(* The store.Store half alone. *)
PlainOnly ==
    [op : {"insert"}, row : {Plain(a) : a \in MCAlias}, value : {Content(b) : b \in Blob}]
    \cup [op : {"remove", "read"}, row : {Plain(a) : a \in MCAlias}]
    \cup [op : {"list"}, space : {"plain"}]

WithPlainList == Mixed \cup [op : {"list"}, space : {"plain"}]

Either == {Mixed, PlainOnly}
Both == {WithPlainList}

(* What the refinement theorem supposes of Alias and of Uses. *)
ASSUME NoneInternal == NoInternalAlias
ASSUME EitherSeparated == \A U \in Either : Separated(U)

Symmetric == Permutations(Proc) \cup Permutations(Blob)
=============================================================================
