--------------------------- MODULE WebAuthnProofs ---------------------------
(***************************************************************************)
(* The safety properties of WebAuthn and the contract of a Device, for any *)
(* number of goroutines, addresses, credentials and salts and any limit of *)
(* extension outputs, from the inductive invariant IInv.                   *)
(***************************************************************************)
EXTENDS WebAuthn, WellFoundedInduction, TLAPS

-----------------------------------------------------------------------------
(* The inductive invariant. *)

CanDerive(c, rp) == [id |-> c, rp |-> rp, hmac |-> TRUE] \in kept

(* Credential ids are not used twice. *)
UniqueIds == \A j, k \in kept : j.id = k.id => j = k

(* The credential a call has made is there, for its relying party. *)
Made(p) == mine[p] \in Cred /\ \E k \in kept : k.id = mine[p] /\ k.rp = request[p].rp

Asked(p, ops) == request[p] \in Request /\ request[p].op \in ops /\ request[p].rp \in Rp

(* Before and while a credential is made. *)
Making(p) ==
    /\ pc[p] = "call_make" => mine[p] = NULL
    /\ pc[p] \in {"call_make", "read_make", "free_make"} => Asked(p, {"create", "create_derive"})
    /\ pc[p] = "read_make" =>
          /\ Failed(hr[p]) => ptr[p] = NULL
          /\ hr[p] \in {"NTENotSupported", "NTEInvalidParameter"} => mine[p] = NULL
          /\ ptr[p] # NULL => /\ Made(p)
                              /\ heap[ptr[p]] \in Attestation
                              /\ Describes(heap[ptr[p]], mine[p], CanDerive(mine[p], request[p].rp))
    /\ pc[p] = "free_make" =>
          /\ ptr[p] # NULL /\ Made(p)
          /\ \/ found[p] = <<"failed", "other">>
             \/ found[p] = <<"failed", "ErrNotFIDO2">> /\ ~CanDerive(mine[p], request[p].rp)
             \/ found[p] = <<"credential", mine[p]>> /\ CanDerive(mine[p], request[p].rp)

(* The arguments of an assertion are the caller's, or the credential made  *)
(* and the caller's salt if he gave one.                                   *)
Arguments(p) ==
    /\ Asked(p, {"derive", "create_derive"})
    /\ cred[p] \in Cred /\ salt[p] \in Salt
    /\ request[p].op = "derive" => cred[p] = request[p].cred /\ salt[p] = request[p].salt /\ mine[p] = NULL
    /\ request[p].op = "create_derive" => cred[p] = mine[p] /\ request[p].salt \in {NULL, salt[p]}

Asserting(p) ==
    /\ pc[p] \in {"call_get", "read_get", "free_get"} => Arguments(p)
    /\ pc[p] = "read_get" =>
          /\ Failed(hr[p]) => ptr[p] = NULL
          /\ ptr[p] # NULL => /\ heap[ptr[p]] \in Assertion
                              /\ \E k \in kept : k.rp = request[p].rp /\ Asserts(heap[ptr[p]], p, k.id)
    /\ pc[p] = "free_get" =>
          /\ ptr[p] # NULL
          /\ \/ found[p] \in {<<"failed", "other">>, <<"failed", "ErrNotFIDO2">>}
             \/ /\ found[p] = <<"secret", cred[p], salt[p], <<cred[p], salt[p]>>>>
                /\ CanDerive(cred[p], request[p].rp)

(* A call has an answer when it is done, and between calls nothing is left. *)
Outside(p) ==
    /\ ptr[p] # NULL => pc[p] \in Reading
    /\ mine[p] # NULL => Made(p)
    /\ pc[p] \in {"closed", "idle"} => request[p] = NULL /\ answer[p] = NULL /\ mine[p] = NULL
    /\ pc[p] = "arguments" => request[p] \in Request /\ mine[p] = NULL
    /\ pc[p] \notin {"closed", "idle", "done"} => answer[p] = NULL
    /\ pc[p] = "done" => request[p] \in Request /\ answer[p] \in Answer

(* The two properties of answers, for one call. *)
Told(p) ==
    /\ answer[p] = <<"failed", "ErrNotFIDO2">> /\ request[p].op = "create" /\ mine[p] # NULL
          => ~CanDerive(mine[p], request[p].rp)
    /\ answer[p] = <<"failed", "ErrInvalidArgument">> /\ request[p].op # "create_derive"
          => mine[p] = NULL

CallInv(p) == Making(p) /\ Asserting(p) /\ Outside(p) /\ Told(p)

IInv == TypeOK /\ UniqueIds /\ StructuresOwned /\ \A p \in Proc : CallInv(p)

-----------------------------------------------------------------------------
(* What the binding hears of the PRF is what the DLL says of it. *)

LEMMA FirstOn ==
    ASSUME NEW ext \in Outputs, \E i \in DOMAIN ext : ext[i] = "on"
    PROVE  \E i \in DOMAIN ext : ext[i] = "on" /\ \A j \in 1..i - 1 : ext[j] # "on"
<1> DEFINE T == {i \in DOMAIN ext : ext[i] = "on"}
<1>1. PICK n \in Nat : ext \in [1..n -> Output]
  BY LimitAssumption DEF Outputs
<1>2. T \subseteq Nat /\ T # {}
  BY <1>1
<1>3. PICK i \in T : \A j \in T : ~(<<j, i>> \in OpToRel(<, Nat))
  BY <1>2, NatLessThanWellFounded, WFMin
<1>4. \A j \in T : ~(j < i)
  BY <1>2, <1>3 DEF OpToRel
<1>5. \A j \in 1..i - 1 : ext[j] # "on"
  BY <1>1, <1>4
<1> QED
  BY <1>3, <1>5

LEMMA PRFIsHeard ==
    ASSUME NEW st \in Attestation, NEW c, NEW on \in BOOLEAN, Describes(st, c, on)
    PROVE  PRFEnabled(st) <=> on
<1>1. st.version \in {4, 5} /\ st.extensions \in Outputs
  BY DEF Attestation
<1>2. PICK n \in 0..ExtensionLimit + 1 : st.extensions \in [1..n -> Output]
  BY <1>1 DEF Outputs
<1>3. ASSUME PRFEnabled(st) PROVE on
  BY <1>2, <1>3 DEF PRFEnabled, HmacSecretExtensionEnabled, Describes
<1>4. ASSUME on, st.version < 5 PROVE HmacSecretExtensionEnabled(st.extensions)
  <2>1. /\ Len(st.extensions) <= ExtensionLimit
        /\ \E i \in DOMAIN st.extensions : st.extensions[i] = "on"
        /\ \A i \in DOMAIN st.extensions : st.extensions[i] \notin {"off", "short"}
    BY <1>4 DEF Describes
  <2>2. PICK i \in DOMAIN st.extensions :
           st.extensions[i] = "on" /\ \A j \in 1..i - 1 : st.extensions[j] # "on"
    BY <1>1, <2>1, FirstOn
  <2>3. \A j \in 1..i - 1 : st.extensions[j] = "other"
    BY <1>2, <2>1, <2>2, LimitAssumption DEF Output
  <2>4. Len(st.extensions) = n /\ n >= 1
    BY <1>2, <2>2, LimitAssumption
  <2> QED
    BY <2>1, <2>2, <2>3, <2>4, LimitAssumption DEF HmacSecretExtensionEnabled
<1>5. ASSUME on PROVE PRFEnabled(st)
  <2>1. st.version >= 5 => st.prf = on
    BY DEF Describes
  <2>2. st.version >= 5 => st.prf
    BY <1>5, <2>1
  <2>3. st.version >= 5 \/ st.version < 5
    BY <1>1
  <2> QED
    BY <1>4, <1>5, <2>2, <2>3 DEF PRFEnabled
<1> QED
  BY <1>3, <1>5

-----------------------------------------------------------------------------
(* Frames: what a step of one call leaves to the others. *)

(* The authenticators keep what they have and may add one credential.      *)
Grows ==
    \/ kept' = kept
    \/ \E k \in Credential : /\ \A j \in kept : j.id # k.id
                             /\ kept' = kept \cup {k}

Same(q) ==
    /\ pc'[q] = pc[q] /\ request'[q] = request[q] /\ cred'[q] = cred[q] /\ salt'[q] = salt[q]
    /\ hr'[q] = hr[q] /\ ptr'[q] = ptr[q] /\ found'[q] = found[q] /\ answer'[q] = answer[q]
    /\ mine'[q] = mine[q]
    /\ ptr[q] # NULL => heap'[ptr[q]] = heap[ptr[q]]

LEMMA Growth ==
    ASSUME UniqueIds, Grows
    PROVE  /\ UniqueIds' /\ kept \subseteq kept'
           /\ \A k \in kept : \A rp : CanDerive(k.id, rp)' <=> CanDerive(k.id, rp)
BY DEF UniqueIds, Grows, CanDerive

LEMMA OthersKeep ==
    ASSUME IInv, Grows, NEW q \in Proc, Same(q)
    PROVE  CallInv(q)'
<1>1. /\ kept \subseteq kept' /\ CallInv(q)
      /\ \A k \in kept : \A rp : CanDerive(k.id, rp)' <=> CanDerive(k.id, rp)
  BY Growth DEF IInv
<1>2. Made(q) => Made(q)' /\ (CanDerive(mine[q], request[q].rp)' <=> CanDerive(mine[q], request[q].rp))
  BY <1>1 DEF Made, Same
<1>3. Making(q)'
  BY <1>1, <1>2 DEF CallInv, Making, Same, Asked, CanDerive
<1>4. Asserting(q)'
  <2>1. Arguments(q) => Arguments(q)'
    BY DEF Arguments, Same, Asked
  <2>2. ASSUME NEW k \in kept, NEW st, Asserts(st, q, k.id)
        PROVE  Asserts(st, q, k.id)'
    BY <1>1, <2>2 DEF Asserts, Same, CanDerive
  <2>3. CanDerive(cred[q], request[q].rp) => CanDerive(cred[q], request[q].rp)'
    BY <1>1 DEF CanDerive, Same
  <2> QED
    BY <1>1, <2>1, <2>2, <2>3 DEF CallInv, Asserting, Same, CanDerive
<1>5. Outside(q)'
  BY <1>1, <1>2 DEF CallInv, Outside, Same
<1>6. Told(q)'
  BY <1>1, <1>2 DEF CallInv, Told, Outside, Same, CanDerive
<1> QED
  BY <1>3, <1>4, <1>5, <1>6 DEF CallInv

(* A step of p keeps the invariant if it keeps p's share of it. *)
LEMMA StepKeeps ==
    ASSUME IInv, TypeOK', Grows, StructuresOwned', NEW p \in Proc, CallInv(p)',
           \A q \in Proc : q # p => Same(q)
    PROVE  IInv'
<1>1. \A q \in Proc : CallInv(q)'
  BY OthersKeep
<1> QED
  BY <1>1, Growth DEF IInv

-----------------------------------------------------------------------------
(* Ownership of structures. *)

LEMMA OwnedStays ==
    ASSUME IInv, UNCHANGED <<heap, ptr>>, \A q \in Proc : ptr[q] # NULL => pc'[q] \in Reading
    PROVE  StructuresOwned'
<1>1. \A a \in Addr : heap[a] # NULL => heap[a].owner \in Proc
  BY DEF IInv, TypeOK, Attestation, Assertion
<1> QED
  BY <1>1, NullAssumption DEF IInv, StructuresOwned

LEMMA OwnedAllocated ==
    ASSUME IInv, NEW p \in Proc, NEW st \in Attestation \cup Assertion, st.owner = p,
           ptr[p] = NULL, Allocate(p, st), pc'[p] \in Reading,
           \A q \in Proc : q # p => pc'[q] = pc[q]
    PROVE  /\ StructuresOwned'
           /\ \A q \in Proc : q # p => ptr'[q] = ptr[q] /\ (ptr[q] # NULL => heap'[ptr[q]] = heap[ptr[q]])
           /\ ptr'[p] \in Addr /\ heap'[ptr'[p]] = st
           /\ heap' \in [Addr -> Attestation \cup Assertion \cup {NULL}]
           /\ ptr' \in [Proc -> Addr \cup {NULL}]
<1>1. PICK a \in Addr : /\ heap[a] = NULL
                        /\ heap' = [heap EXCEPT ![a] = st]
                        /\ ptr' = [ptr EXCEPT ![p] = a]
  BY DEF Allocate
<1>2. /\ heap \in [Addr -> Attestation \cup Assertion \cup {NULL}]
      /\ ptr \in [Proc -> Addr \cup {NULL}]
      /\ StructuresOwned
  BY DEF IInv, TypeOK
<1>3. /\ ptr'[p] = a /\ heap'[a] = st
      /\ \A q \in Proc : q # p => ptr'[q] = ptr[q]
      /\ \A b \in Addr : b # a => heap'[b] = heap[b]
  BY <1>1, <1>2
<1>4. \A q \in Proc : ptr[q] # NULL => ptr[q] \in Addr /\ ptr[q] # a
  BY <1>1, <1>2 DEF StructuresOwned
<1>5. \A b \in Addr : heap[b] # NULL => heap[b].owner \in Proc /\ heap[b].owner # p
  BY <1>2, NullAssumption DEF StructuresOwned, Attestation, Assertion
<1>6. st # NULL /\ a # NULL
  BY AnswerAssumption, NullAssumption
<1>7. ASSUME NEW b \in Addr, heap'[b] # NULL
      PROVE  pc'[heap'[b].owner] \in Reading /\ ptr'[heap'[b].owner] = b
  <2>1. CASE b = a
    BY <1>3, <2>1
  <2>2. CASE b # a
    BY <1>2, <1>3, <1>5, <1>7, <2>2 DEF StructuresOwned
  <2> QED
    BY <2>1, <2>2
<1>8. ASSUME NEW q \in Proc, ptr'[q] # NULL
      PROVE  heap'[ptr'[q]] # NULL /\ heap'[ptr'[q]].owner = q
  <2>1. CASE q = p
    BY <1>3, <1>6, <2>1
  <2>2. CASE q # p
    BY <1>2, <1>3, <1>4, <1>8, <2>2 DEF StructuresOwned
  <2> QED
    BY <2>1, <2>2
<1>9. StructuresOwned'
  BY <1>7, <1>8 DEF StructuresOwned
<1>10. heap' \in [Addr -> Attestation \cup Assertion \cup {NULL}] /\ ptr' \in [Proc -> Addr \cup {NULL}]
  BY <1>1, <1>2
<1> QED
  BY <1>3, <1>4, <1>9, <1>10

LEMMA OwnedFreed ==
    ASSUME IInv, NEW p \in Proc, NEW at, Free(p, at), ptr[p] # NULL,
           \A q \in Proc : q # p => pc'[q] = pc[q]
    PROVE  /\ StructuresOwned'
           /\ \A q \in Proc : q # p => ptr'[q] = ptr[q] /\ (ptr[q] # NULL => heap'[ptr[q]] = heap[ptr[q]])
           /\ ptr'[p] = NULL
           /\ heap' \in [Addr -> Attestation \cup Assertion \cup {NULL}]
           /\ ptr' \in [Proc -> Addr \cup {NULL}]
<1> DEFINE a == ptr[p]
<1>1. /\ heap \in [Addr -> Attestation \cup Assertion \cup {NULL}]
      /\ ptr \in [Proc -> Addr \cup {NULL}]
      /\ StructuresOwned /\ a \in Addr
  BY DEF IInv, TypeOK
<1>2. /\ heap' = [heap EXCEPT ![a] = NULL] /\ ptr' = [ptr EXCEPT ![p] = NULL]
      /\ heap[a] # NULL /\ heap[a].owner = p
  BY <1>1 DEF Free, StructuresOwned
<1>3. \A q \in Proc : q # p /\ ptr[q] # NULL => ptr[q] \in Addr /\ ptr[q] # a
  BY <1>1, <1>2 DEF StructuresOwned
<1>4. \A b \in Addr : b # a /\ heap[b] # NULL => heap[b].owner \in Proc /\ heap[b].owner # p
  BY <1>1, NullAssumption DEF StructuresOwned, Attestation, Assertion
<1>5. /\ ptr'[p] = NULL /\ heap'[a] = NULL
      /\ \A q \in Proc : q # p => ptr'[q] = ptr[q]
      /\ \A b \in Addr : b # a => heap'[b] = heap[b]
  BY <1>1, <1>2
<1> HIDE DEF a
<1>6. StructuresOwned'
  BY <1>1, <1>3, <1>4, <1>5 DEF StructuresOwned
<1>7. heap' \in [Addr -> Attestation \cup Assertion \cup {NULL}] /\ ptr' \in [Proc -> Addr \cup {NULL}]
  BY <1>1, <1>2
<1> QED
  BY <1>3, <1>5, <1>6, <1>7

-----------------------------------------------------------------------------
(* A call that ends with an error. *)

LEMMA FailureAnswers == \A why \in Reasons : <<"failed", why>> \in Answer
BY DEF Answer

LEMMA FailedCall ==
    ASSUME NEW p \in Proc, NEW why \in Reasons, pc'[p] = "done", answer'[p] = <<"failed", why>>,
           ptr'[p] = NULL, request'[p] \in Request, mine'[p] # NULL => Made(p)',
           why = "ErrNotFIDO2" /\ request'[p].op = "create" /\ mine'[p] # NULL
              => ~CanDerive(mine[p], request[p].rp)',
           why = "ErrInvalidArgument" /\ request'[p].op # "create_derive" => mine'[p] = NULL
    PROVE  CallInv(p)'
<1>1. <<"failed", why>> \in Answer
  BY FailureAnswers
<1>2. Making(p)' /\ Asserting(p)'
  BY DEF Making, Asserting
<1>3. Outside(p)'
  BY <1>1 DEF Outside
<1>4. Told(p)'
  BY DEF Told
<1> QED
  BY <1>2, <1>3, <1>4 DEF CallInv

LEMMA MapsToReasons ==
    \A err : MapWindowsError(err) \in Reasons
BY DEF MapWindowsError, Reasons

(* A step of p that leaves the DLL and the authenticators alone. *)
LEMMA QuietStep ==
    ASSUME IInv, TypeOK', NEW p \in Proc, UNCHANGED <<kept, heap, ptr>>, CallInv(p)',
           \A q \in Proc : q # p => Same(q)
    PROVE  IInv'
<1>1. \A q \in Proc : ptr[q] # NULL => pc'[q] \in Reading
  <2>1. ptr[p] # NULL => pc'[p] \in Reading
    BY DEF CallInv, Outside
  <2>2. \A q \in Proc : q # p => (ptr[q] # NULL => pc'[q] \in Reading)
    BY DEF Same, IInv, CallInv, Outside
  <2> QED
    BY <2>1, <2>2
<1> QED
  BY <1>1, OwnedStays, StepKeeps DEF Grows

(* A call without an answer has told nothing. *)
LEMMA Silent ==
    ASSUME NEW p \in Proc, answer'[p] = NULL
    PROVE  Told(p)'
<1>1. \A why \in Reasons : <<"failed", why>> # NULL
  BY FailureAnswers, AnswerAssumption
<1>2. <<"failed", "ErrNotFIDO2">> # NULL /\ <<"failed", "ErrInvalidArgument">> # NULL
  BY <1>1 DEF Reasons
<1> QED
  BY <1>2 DEF Told

(* A call that holds no structure gives up. *)
LEMMA Refusal ==
    ASSUME IInv, NEW p \in Proc, NEW why \in Reasons, Fail(p, why),
           UNCHANGED <<system, kept, heap, request, cred, salt, hr, ptr, found, mine>>,
           ptr[p] = NULL, request[p] \in Request,
           why = "ErrNotFIDO2" /\ request[p].op = "create" /\ mine[p] # NULL
              => ~CanDerive(mine[p], request[p].rp),
           why = "ErrInvalidArgument" /\ request[p].op # "create_derive" => mine[p] = NULL
    PROVE  IInv'
<1>1. <<"failed", why>> \in Answer
  BY FailureAnswers
<1>2. TypeOK'
  BY <1>1 DEF Fail, Return, Advance, IInv, TypeOK
<1>3. \A q \in Proc : q # p => Same(q)
  BY DEF Fail, Return, Advance, Same, IInv, TypeOK
<1>4. pc'[p] = "done" /\ answer'[p] = <<"failed", why>>
  BY DEF Fail, Return, Advance, IInv, TypeOK
<1>5. mine'[p] # NULL => Made(p)'
  BY DEF IInv, CallInv, Outside, Made
<1>6. CallInv(p)'
  BY <1>4, <1>5, FailedCall DEF CanDerive
<1> QED
  BY <1>2, <1>3, <1>6, QuietStep

-----------------------------------------------------------------------------
(* The steps. *)

LEMMA OpenKeeps ==
    ASSUME IInv, NEW p \in Proc, Open(p)
    PROVE  IInv'
<1>1. TypeOK'
  BY DEF Open, IInv, TypeOK
<1>2. \A q \in Proc : q # p => Same(q)
  BY DEF Open, Same, IInv, TypeOK
<1>3. CallInv(p)'
  <2>1. pc'[p] \in {"closed", "idle"} /\ pc[p] = "closed"
    BY DEF Open, IInv, TypeOK
  <2>2. /\ answer'[p] = NULL /\ mine'[p] = NULL /\ request'[p] = NULL /\ ptr'[p] = NULL
    BY <2>1 DEF Open, IInv, CallInv, Outside, Reading
  <2> QED
    BY <2>1, <2>2, Silent DEF CallInv, Making, Asserting, Outside
<1> QED
  BY <1>1, <1>2, <1>3, QuietStep DEF Open

LEMMA AskKeeps ==
    ASSUME IInv, NEW p \in Proc, NEW q \in Requests, Ask(p, q)
    PROVE  IInv'
<1>0. q \in Request
  BY RequestAssumption
<1>1. TypeOK'
  BY <1>0 DEF Ask, Advance, IInv, TypeOK
<1>2. \A r \in Proc : r # p => Same(r)
  BY DEF Ask, Advance, Same, IInv, TypeOK
<1>3. CallInv(p)'
  <2>1. pc'[p] = "arguments" /\ pc[p] = "idle" /\ request'[p] = q
    BY DEF Ask, Advance, IInv, TypeOK
  <2>2. answer'[p] = NULL /\ mine'[p] = NULL /\ ptr'[p] = NULL
    BY <2>1 DEF Ask, IInv, CallInv, Outside, Reading
  <2> QED
    BY <1>0, <2>1, <2>2, Silent DEF CallInv, Making, Asserting, Outside
<1> QED
  BY <1>1, <1>2, <1>3, QuietStep DEF Ask

LEMMA CreateCredentialKeeps ==
    ASSUME IInv, NEW p \in Proc, CreateCredential(p)
    PROVE  IInv'
<1>1. /\ pc[p] = "arguments" /\ request[p] \in Request /\ mine[p] = NULL /\ ptr[p] = NULL
      /\ answer[p] = NULL /\ request[p].op \in {"create", "create_derive"}
  BY DEF CreateCredential, IInv, CallInv, Outside, Reading
<1>2. CASE Fail(p, "ErrInvalidArgument")
  BY <1>1, <1>2, Refusal DEF CreateCredential, Reasons
<1>3. CASE request[p].rp # NULL /\ Advance(p, "call_make") /\ UNCHANGED answer
  <2>1. TypeOK'
    BY <1>3 DEF CreateCredential, Advance, IInv, TypeOK
  <2>2. \A q \in Proc : q # p => Same(q)
    BY <1>3 DEF CreateCredential, Advance, Same, IInv, TypeOK
  <2>3. /\ pc'[p] = "call_make" /\ answer'[p] = NULL /\ mine'[p] = NULL /\ ptr'[p] = NULL
        /\ request'[p] = request[p]
    BY <1>1, <1>3 DEF CreateCredential, Advance, IInv, TypeOK
  <2>4. request[p].rp \in Rp
    BY <1>1, <1>3 DEF Request, CreateRequest, DeriveRequest, CreateAndDeriveRequest, GivenRp
  <2>5. Making(p)' /\ Asserting(p)' /\ Outside(p)' /\ Told(p)'
    BY <1>1, <2>3, <2>4, Silent DEF Making, Asserting, Outside, Asked, Reading
  <2> QED
    BY <2>1, <2>2, <2>5, QuietStep DEF CreateCredential, CallInv
<1> QED
  BY <1>2, <1>3 DEF CreateCredential

(* The arguments of an assertion are taken or refused. *)
LEMMA ToAssertionKeeps ==
    ASSUME IInv, NEW p \in Proc, NEW c \in Cred \cup {NULL}, NEW s \in GivenSalt, NEW pr \in BOOLEAN,
           ToAssertion(p, c, s, pr)
    PROVE  /\ pc' \in [Proc -> {"closed", "idle", "arguments", "call_make", "call_get", "done"} \cup Reading]
           /\ cred' \in [Proc -> Cred \cup {NULL}] /\ salt' \in [Proc -> Salt \cup {NULL}]
           /\ answer' \in [Proc -> Answer \cup {NULL}]
           /\ \A q \in Proc : q # p => pc'[q] = pc[q] /\ cred'[q] = cred[q] /\ salt'[q] = salt[q]
                                       /\ answer'[q] = answer[q]
           /\ \/ /\ pc'[p] = "call_get" /\ cred'[p] = c /\ salt'[p] = s /\ answer'[p] = answer[p]
                 /\ c \in Cred /\ s \in Salt /\ request[p].rp # NULL
              \/ pc'[p] = "done" /\ answer'[p] = <<"failed", "ErrInvalidArgument">>
<1>1. <<"failed", "ErrInvalidArgument">> \in Answer
  BY FailureAnswers DEF Reasons
<1>2. CASE request[p].rp # NULL /\ c # NULL /\ s \in Salt /\ pr
  BY <1>2 DEF ToAssertion, Advance, IInv, TypeOK
<1>3. CASE ~(request[p].rp # NULL /\ c # NULL /\ s \in Salt /\ pr)
  <2>1. Fail(p, "ErrInvalidArgument") /\ UNCHANGED <<cred, salt>>
    BY <1>3 DEF ToAssertion
  <2> QED
    BY <1>1, <2>1 DEF Fail, Return, Advance, IInv, TypeOK
<1> QED
  BY <1>2, <1>3

LEMMA DeriveKeeps ==
    ASSUME IInv, NEW p \in Proc, Derive(p)
    PROVE  IInv'
<1> DEFINE r == request[p]
<1>1. /\ pc[p] = "arguments" /\ r \in Request /\ mine[p] = NULL /\ ptr[p] = NULL /\ answer[p] = NULL
      /\ r.op = "derive"
  BY DEF Derive, IInv, CallInv, Outside, Reading
<1>2. /\ r.rp \in Rp \cup {NULL} /\ r.cred \in Cred \cup {NULL} /\ r.salt \in GivenSalt
      /\ r.presence \in BOOLEAN
  BY <1>1 DEF Request, CreateRequest, DeriveRequest, CreateAndDeriveRequest, GivenRp
<1>3. ToAssertion(p, r.cred, r.salt, r.presence) /\ UNCHANGED <<system, kept, heap, request, hr, ptr, found, mine>>
  BY DEF Derive
<1> HIDE DEF r
<1>4. /\ pc' \in [Proc -> {"closed", "idle", "arguments", "call_make", "call_get", "done"} \cup Reading]
      /\ cred' \in [Proc -> Cred \cup {NULL}] /\ salt' \in [Proc -> Salt \cup {NULL}]
      /\ answer' \in [Proc -> Answer \cup {NULL}]
      /\ \A q \in Proc : q # p => pc'[q] = pc[q] /\ cred'[q] = cred[q] /\ salt'[q] = salt[q]
                                  /\ answer'[q] = answer[q]
      /\ \/ /\ pc'[p] = "call_get" /\ cred'[p] = r.cred /\ salt'[p] = r.salt /\ answer'[p] = answer[p]
            /\ r.cred \in Cred /\ r.salt \in Salt /\ request[p].rp # NULL
         \/ pc'[p] = "done" /\ answer'[p] = <<"failed", "ErrInvalidArgument">>
  BY <1>2, <1>3, ToAssertionKeeps
<1>5. TypeOK'
  BY <1>3, <1>4 DEF IInv, TypeOK
<1>6. \A q \in Proc : q # p => Same(q)
  BY <1>3, <1>4 DEF Same
<1>7. CallInv(p)'
  <2>1. CASE pc'[p] = "done" /\ answer'[p] = <<"failed", "ErrInvalidArgument">>
    <3>1. "ErrInvalidArgument" \in Reasons /\ request'[p] \in Request /\ mine'[p] = NULL /\ ptr'[p] = NULL
      BY <1>1, <1>3 DEF Reasons, r
    <3> QED
      BY <2>1, <3>1, FailedCall
  <2>2. CASE /\ pc'[p] = "call_get" /\ cred'[p] = r.cred /\ salt'[p] = r.salt /\ answer'[p] = answer[p]
             /\ r.cred \in Cred /\ r.salt \in Salt /\ request[p].rp # NULL
    <3>1. request'[p] = r /\ mine'[p] = NULL /\ ptr'[p] = NULL /\ answer'[p] = NULL /\ r.rp \in Rp
      BY <1>1, <1>2, <1>3, <2>2 DEF r
    <3>2. Arguments(p)'
      BY <1>1, <2>2, <3>1 DEF Arguments, Asked
    <3> QED
      BY <2>2, <3>1, <3>2, Silent DEF CallInv, Making, Asserting, Outside
  <2> QED
    BY <1>4, <2>1, <2>2
<1> QED
  BY <1>3, <1>5, <1>6, <1>7, QuietStep

LEMMA VersionTooLowKeeps ==
    ASSUME IInv, NEW p \in Proc, VersionTooLow(p)
    PROVE  IInv'
<1>1. MapWindowsError("ErrUnsupported") = "ErrNotFIDO2" /\ "ErrNotFIDO2" \in Reasons
  BY DEF MapWindowsError, Reasons
<1>2. request[p] \in Request /\ ptr[p] = NULL
  BY DEF VersionTooLow, IInv, CallInv, Making, Asserting, Arguments, Asked, Outside, Reading
<1>3. request[p].op = "create" => mine[p] = NULL
  BY DEF VersionTooLow, IInv, CallInv, Making, Asserting, Arguments, Asked
<1> QED
  BY <1>1, <1>2, <1>3, Refusal DEF VersionTooLow

LEMMA InputRefusedKeeps ==
    ASSUME IInv, NEW p \in Proc, InputRefused(p)
    PROVE  IInv'
<1>1. /\ MapWindowsError("ErrInvalidInput") = "ErrInvalidArgument" /\ MapWindowsError("none") = "other"
      /\ {"ErrInvalidArgument", "other"} \subseteq Reasons
  BY DEF MapWindowsError, Reasons
<1>2. request[p] \in Request /\ ptr[p] = NULL
  BY DEF InputRefused, IInv, CallInv, Making, Asserting, Arguments, Asked, Outside, Reading
<1>3. pc[p] = "call_make" => mine[p] = NULL
  BY DEF IInv, CallInv, Making
<1>4. CASE pc[p] = "call_make" /\ Fail(p, MapWindowsError("ErrInvalidInput"))
  BY <1>1, <1>2, <1>3, <1>4, Refusal DEF InputRefused
<1>5. CASE Fail(p, MapWindowsError("none"))
  BY <1>1, <1>2, <1>5, Refusal DEF InputRefused
<1> QED
  BY <1>4, <1>5 DEF InputRefused

LEMMA CallErrorKeeps ==
    ASSUME IInv, NEW p \in Proc, NEW at \in {"read_make", "read_get"}, CallError(p, at)
    PROVE  IInv'
<1> DEFINE why == MapWindowsError(IF Failed(hr[p]) THEN Unwrap(hr[p]) ELSE "none")
<1>1. /\ pc[p] = at /\ Fail(p, why)
      /\ UNCHANGED <<system, kept, heap, request, cred, salt, hr, ptr, found, mine>>
  BY DEF CallError
<1>2. why \in Reasons
  BY MapsToReasons
<1>3. ptr[p] = NULL /\ request[p] \in Request
  BY DEF CallError, IInv, CallInv, Making, Asserting, Arguments, Asked
<1>4. /\ why = "ErrNotFIDO2" => hr[p] = "NTENotSupported"
      /\ why = "ErrInvalidArgument" => hr[p] = "NTEInvalidParameter"
  BY DEF MapWindowsError, Unwrap, Failed
<1> HIDE DEF why
<1>5. CASE at = "read_make"
  <2>1. why \in {"ErrNotFIDO2", "ErrInvalidArgument"} => mine[p] = NULL
    BY <1>1, <1>4, <1>5 DEF IInv, CallInv, Making
  <2> QED
    BY <1>1, <1>2, <1>3, <2>1, Refusal
<1>6. CASE at = "read_get"
  <2>1. request[p].op # "create" /\ (request[p].op # "create_derive" => mine[p] = NULL)
    BY <1>1, <1>6 DEF IInv, CallInv, Asserting, Arguments, Asked
  <2> QED
    BY <1>1, <1>2, <1>3, <2>1, Refusal
<1> QED
  BY <1>5, <1>6

(* A new credential is unlike every other. *)
LEMMA Registered ==
    ASSUME IInv, NEW p \in Proc, Register(p), request[p].rp \in Rp
    PROVE  /\ kept' \subseteq Credential /\ Grows
           /\ mine' \in [Proc -> Cred \cup {NULL}] /\ \A q \in Proc : q # p => mine'[q] = mine[q]
           /\ mine'[p] \in Cred /\ \E k \in kept' : k.id = mine'[p] /\ k.rp = request[p].rp
<1>1. PICK c \in Cred, on \in BOOLEAN :
        /\ \A k \in kept : k.id # c
        /\ kept' = kept \cup {[id |-> c, rp |-> request[p].rp, hmac |-> on]}
        /\ mine' = [mine EXCEPT ![p] = c]
  BY DEF Register
<1> DEFINE k == [id |-> c, rp |-> request[p].rp, hmac |-> on]
<1>2. k \in Credential /\ k.id = c /\ k.rp = request[p].rp
  BY DEF Credential
<1>3. kept' = kept \cup {k} /\ \A j \in kept : j.id # k.id
  BY <1>1
<1> HIDE DEF k
<1>4. kept' \subseteq Credential /\ Grows /\ k \in kept'
  BY <1>2, <1>3 DEF Grows, IInv, TypeOK
<1>5. mine' \in [Proc -> Cred \cup {NULL}] /\ mine'[p] = c /\ \A q \in Proc : q # p => mine'[q] = mine[q]
  BY <1>1 DEF IInv, TypeOK
<1> QED
  BY <1>2, <1>4, <1>5

LEMMA MakeSucceedsKeeps ==
    ASSUME IInv, NEW p \in Proc, MakeSucceeds(p)
    PROVE  IInv'
<1>1. /\ pc[p] = "call_make" /\ Asked(p, {"create", "create_derive"}) /\ ptr[p] = NULL /\ answer[p] = NULL
  BY DEF MakeSucceeds, Calls, IInv, CallInv, Making, Outside, Reading
<1>2. /\ kept' \subseteq Credential /\ Grows
      /\ mine' \in [Proc -> Cred \cup {NULL}] /\ \A q \in Proc : q # p => mine'[q] = mine[q]
      /\ mine'[p] \in Cred /\ \E k \in kept' : k.id = mine'[p] /\ k.rp = request[p].rp
  BY <1>1, Registered DEF MakeSucceeds, Asked
<1>3. /\ pc' \in [Proc -> {"closed", "idle", "arguments", "call_make", "call_get", "done"} \cup Reading]
      /\ hr' \in [Proc -> HRESULT]
      /\ pc'[p] = "read_make" /\ hr'[p] = "S_OK"
      /\ \A q \in Proc : q # p => pc'[q] = pc[q] /\ hr'[q] = hr[q]
      /\ UNCHANGED <<system, request, cred, salt, found, answer>>
  BY DEF MakeSucceeds, Calls, Advance, IInv, TypeOK, Reading, HRESULT
<1>4. Made(p)'
  BY <1>2, <1>3 DEF Made
<1>5. ASSUME \/ ptr' = ptr /\ heap' = heap
             \/ \E st \in Attestation : /\ Describes(st, mine'[p], CanDerive(mine[p], request[p].rp)')
                                        /\ heap'[ptr'[p]] = st,
             heap' \in [Addr -> Attestation \cup Assertion \cup {NULL}],
             ptr' \in [Proc -> Addr \cup {NULL}],
             \A q \in Proc : q # p => ptr'[q] = ptr[q] /\ (ptr[q] # NULL => heap'[ptr[q]] = heap[ptr[q]]),
             StructuresOwned'
      PROVE  IInv'
  <2>1. TypeOK'
    BY <1>2, <1>3, <1>5 DEF IInv, TypeOK
  <2>2. \A q \in Proc : q # p => Same(q)
    BY <1>2, <1>3, <1>5 DEF Same
  <2>3. Making(p)'
    BY <1>1, <1>2, <1>3, <1>4, <1>5 DEF Making, Asked, Failed, Describes
  <2>4. Asserting(p)' /\ Outside(p)' /\ Told(p)'
    BY <1>1, <1>3, <1>4, Silent DEF Asserting, Outside, Reading
  <2> QED
    BY <1>2, <1>5, <2>1, <2>2, <2>3, <2>4, StepKeeps DEF CallInv
<1>6. CASE NoResult(p)
  <2>1. ptr' = ptr /\ heap' = heap
    BY <1>1, <1>6 DEF NoResult, IInv, TypeOK
  <2>2. \A q \in Proc : ptr[q] # NULL => pc'[q] \in Reading
    BY <1>1, <1>3 DEF IInv, CallInv, Outside
  <2>3. StructuresOwned'
    BY <2>1, <2>2, OwnedStays
  <2> QED
    BY <1>5, <2>1, <2>3 DEF IInv, TypeOK
<1>7. CASE \E st \in Attestation :
             /\ st.owner = p
             /\ Describes(st, mine'[p], [id |-> mine'[p], rp |-> request[p].rp, hmac |-> TRUE] \in kept')
             /\ Allocate(p, st)
  <2>1. PICK st \in Attestation :
             /\ st.owner = p
             /\ Describes(st, mine'[p], [id |-> mine'[p], rp |-> request[p].rp, hmac |-> TRUE] \in kept')
             /\ Allocate(p, st)
    BY <1>7
  <2>2. Describes(st, mine'[p], CanDerive(mine[p], request[p].rp)')
    BY <1>3, <2>1 DEF CanDerive
  <2>3. /\ StructuresOwned'
        /\ \A q \in Proc : q # p => ptr'[q] = ptr[q] /\ (ptr[q] # NULL => heap'[ptr[q]] = heap[ptr[q]])
        /\ heap'[ptr'[p]] = st
        /\ heap' \in [Addr -> Attestation \cup Assertion \cup {NULL}]
        /\ ptr' \in [Proc -> Addr \cup {NULL}]
    BY <1>1, <1>3, <2>1, OwnedAllocated DEF Reading
  <2> QED
    BY <1>5, <2>2, <2>3
<1> QED
  BY <1>6, <1>7 DEF MakeSucceeds

LEMMA MakeFailsKeeps ==
    ASSUME IInv, NEW p \in Proc, MakeFails(p)
    PROVE  IInv'
<1>1. /\ pc[p] = "call_make" /\ Asked(p, {"create", "create_derive"}) /\ ptr[p] = NULL /\ answer[p] = NULL
      /\ mine[p] = NULL
  BY DEF MakeFails, Calls, IInv, CallInv, Making, Outside, Reading
<1>2. PICK h \in HRESULT :
        /\ Failed(h) /\ hr' = [hr EXCEPT ![p] = h]
        /\ \/ UNCHANGED <<kept, mine>>
           \/ h \in {"NTEUserCancelled", "other"} /\ Register(p)
  BY DEF MakeFails
<1>3. /\ pc' \in [Proc -> {"closed", "idle", "arguments", "call_make", "call_get", "done"} \cup Reading]
      /\ hr' \in [Proc -> HRESULT]
      /\ pc'[p] = "read_make" /\ hr'[p] = h
      /\ \A q \in Proc : q # p => pc'[q] = pc[q] /\ hr'[q] = hr[q]
      /\ UNCHANGED <<system, request, cred, salt, found, answer>>
  BY <1>2 DEF MakeFails, Calls, Advance, IInv, TypeOK, Reading
<1>4. ptr' = ptr /\ heap' = heap
  BY <1>1 DEF MakeFails, NoResult, IInv, TypeOK
<1>5. /\ kept' \subseteq Credential /\ Grows
      /\ mine' \in [Proc -> Cred \cup {NULL}] /\ \A q \in Proc : q # p => mine'[q] = mine[q]
      /\ mine'[p] # NULL => Made(p)'
      /\ h \in {"NTENotSupported", "NTEInvalidParameter"} => mine'[p] = NULL
  <2>1. CASE UNCHANGED <<kept, mine>>
    BY <1>1, <2>1 DEF Grows, IInv, TypeOK
  <2>2. CASE h \in {"NTEUserCancelled", "other"} /\ Register(p)
    BY <1>1, <1>3, <2>2, Registered DEF Asked, Made
  <2> QED
    BY <1>2, <2>1, <2>2
<1>6. TypeOK'
  BY <1>3, <1>4, <1>5 DEF IInv, TypeOK
<1>7. \A q \in Proc : q # p => Same(q)
  BY <1>3, <1>4, <1>5 DEF Same
<1>8. StructuresOwned'
  <2>1. \A q \in Proc : ptr[q] # NULL => pc'[q] \in Reading
    BY <1>1, <1>3 DEF IInv, CallInv, Outside
  <2> QED
    BY <1>4, <2>1, OwnedStays
<1>9. CallInv(p)'
  BY <1>1, <1>3, <1>4, <1>5, Silent DEF CallInv, Making, Asked, Asserting, Outside, Reading
<1> QED
  BY <1>5, <1>6, <1>7, <1>8, <1>9, StepKeeps

(* What is copied of an attestation. *)
LEMMA ReadAttestationKeeps ==
    ASSUME IInv, NEW p \in Proc, ReadAttestation(p)
    PROVE  IInv'
<1> DEFINE st == heap[ptr[p]]
           on == CanDerive(mine[p], request[p].rp)
           result == IF st.id \in {"damaged", "empty"} THEN Failure("none")
                     ELSE IF ~PRFEnabled(st) THEN Failure("ErrPRFDisabled")
                     ELSE <<"credential", st.id>>
<1>1. /\ pc[p] = "read_make" /\ ptr[p] # NULL
      /\ Asked(p, {"create", "create_derive"}) /\ Made(p) /\ answer[p] = NULL
      /\ st \in Attestation /\ Describes(st, mine[p], on)
  BY DEF ReadAttestation, IInv, CallInv, Making, Outside
<1>2. Failure("none") = <<"failed", "other">> /\ Failure("ErrPRFDisabled") = <<"failed", "ErrNotFIDO2">>
  BY DEF Failure, MapWindowsError
<1>3. \/ result = <<"failed", "other">>
      \/ result = <<"failed", "ErrNotFIDO2">> /\ ~on
      \/ result = <<"credential", mine[p]>> /\ on
  <2>1. on \in BOOLEAN
    BY DEF CanDerive
  <2>2. PRFEnabled(st) <=> on
    BY <1>1, <2>1, PRFIsHeard
  <2>3. st.id \in {mine[p], "empty", "damaged"}
    BY <1>1 DEF Describes
  <2> HIDE DEF st, on
  <2> QED
    BY <1>2, <2>2, <2>3
<1>4. Copied(p, "free_make", result)
  BY DEF ReadAttestation
<1> HIDE DEF st, result
<1>5. result \in Answer
  <2>1. mine[p] \in Cred
    BY <1>1 DEF Made
  <2> QED
    BY <1>3, <2>1, FailureAnswers DEF Answer, Reasons
<1>6. TypeOK'
  BY <1>4, <1>5 DEF Copied, Advance, IInv, TypeOK, Reading
<1>7. \A q \in Proc : q # p => Same(q)
  BY <1>4 DEF Copied, Advance, Same, IInv, TypeOK
<1>8. pc'[p] = "free_make" /\ found'[p] = result
  BY <1>4 DEF Copied, Advance, IInv, TypeOK
<1>9. /\ UNCHANGED <<kept, heap, request, cred, salt, hr, ptr, answer, mine>>
  BY <1>4 DEF Copied
<1>10. Made(p)' /\ (CanDerive(mine[p], request[p].rp)' <=> on)
  BY <1>1, <1>9 DEF Made, CanDerive
<1> HIDE DEF on
<1>11. Making(p)'
  BY <1>1, <1>3, <1>8, <1>9, <1>10 DEF Making, Asked
<1>12. Asserting(p)' /\ Outside(p)' /\ Told(p)'
  BY <1>1, <1>8, <1>9, <1>10, Silent DEF Asserting, Outside, Reading
<1> QED
  BY <1>6, <1>7, <1>9, <1>11, <1>12, QuietStep DEF CallInv

LEMMA GetSucceedsKeeps ==
    ASSUME IInv, NEW p \in Proc, GetSucceeds(p)
    PROVE  IInv'
<1>1. /\ pc[p] = "call_get" /\ Arguments(p) /\ ptr[p] = NULL /\ answer[p] = NULL
      /\ mine[p] # NULL => Made(p)
  BY DEF GetSucceeds, Calls, IInv, CallInv, Asserting, Outside, Reading
<1>2. /\ pc' \in [Proc -> {"closed", "idle", "arguments", "call_make", "call_get", "done"} \cup Reading]
      /\ hr' \in [Proc -> HRESULT]
      /\ pc'[p] = "read_get" /\ hr'[p] = "S_OK"
      /\ \A q \in Proc : q # p => pc'[q] = pc[q] /\ hr'[q] = hr[q]
      /\ UNCHANGED <<system, kept, request, cred, salt, found, answer, mine>>
  BY DEF GetSucceeds, Calls, Advance, IInv, TypeOK, Reading, HRESULT
<1>3. Arguments(p)' /\ (mine'[p] # NULL => Made(p)')
  BY <1>1, <1>2 DEF Arguments, Asked, Made
<1>4. ASSUME \/ ptr' = ptr /\ heap' = heap
             \/ \E st \in Assertion : /\ \E k \in kept : k.rp = request[p].rp /\ Asserts(st, p, k.id)'
                                      /\ heap'[ptr'[p]] = st,
             heap' \in [Addr -> Attestation \cup Assertion \cup {NULL}],
             ptr' \in [Proc -> Addr \cup {NULL}],
             \A q \in Proc : q # p => ptr'[q] = ptr[q] /\ (ptr[q] # NULL => heap'[ptr[q]] = heap[ptr[q]]),
             StructuresOwned'
      PROVE  IInv'
  <2>1. TypeOK'
    BY <1>2, <1>4 DEF IInv, TypeOK
  <2>2. \A q \in Proc : q # p => Same(q)
    BY <1>2, <1>4 DEF Same
  <2>3. Asserting(p)'
    <3>1. CASE ptr' = ptr /\ heap' = heap
      BY <1>1, <1>2, <1>3, <3>1 DEF Asserting
    <3>2. CASE \E st \in Assertion : /\ \E k \in kept : k.rp = request[p].rp /\ Asserts(st, p, k.id)'
                                     /\ heap'[ptr'[p]] = st
      <4>1. PICK st \in Assertion : /\ \E k \in kept : k.rp = request[p].rp /\ Asserts(st, p, k.id)'
                                    /\ heap'[ptr'[p]] = st
        BY <3>2
      <4>2. PICK k \in kept : k.rp = request[p].rp /\ Asserts(st, p, k.id)'
        BY <4>1
      <4>3. k \in kept' /\ k.rp = request'[p].rp /\ Asserts(heap[ptr[p]], p, k.id)'
        BY <1>2, <4>1, <4>2 DEF Asserts
      <4> QED
        BY <1>2, <1>3, <4>1, <4>3 DEF Asserting, Failed
    <3> QED
      BY <1>4, <3>1, <3>2
  <2>4. Making(p)' /\ Outside(p)' /\ Told(p)'
    BY <1>1, <1>2, <1>3, Silent DEF Making, Outside, Reading
  <2> QED
    BY <1>2, <1>4, <2>1, <2>2, <2>3, <2>4, StepKeeps DEF CallInv, Grows
<1>5. CASE NoResult(p)
  <2>1. ptr' = ptr /\ heap' = heap
    BY <1>1, <1>5 DEF NoResult, IInv, TypeOK
  <2>2. \A q \in Proc : ptr[q] # NULL => pc'[q] \in Reading
    BY <1>1, <1>2 DEF IInv, CallInv, Outside
  <2>3. StructuresOwned'
    BY <2>1, <2>2, OwnedStays
  <2> QED
    BY <1>4, <2>1, <2>3 DEF IInv, TypeOK
<1>6. CASE \E k \in kept, st \in Assertion :
             /\ k.rp = request[p].rp
             /\ st.owner = p
             /\ Asserts(st, p, k.id)
             /\ Allocate(p, st)
  <2>1. PICK k \in kept, st \in Assertion :
             /\ k.rp = request[p].rp
             /\ st.owner = p
             /\ Asserts(st, p, k.id)
             /\ Allocate(p, st)
    BY <1>6
  <2>2. Asserts(st, p, k.id)'
    BY <1>2, <2>1 DEF Asserts
  <2>3. /\ StructuresOwned'
        /\ \A q \in Proc : q # p => ptr'[q] = ptr[q] /\ (ptr[q] # NULL => heap'[ptr[q]] = heap[ptr[q]])
        /\ heap'[ptr'[p]] = st
        /\ heap' \in [Addr -> Attestation \cup Assertion \cup {NULL}]
        /\ ptr' \in [Proc -> Addr \cup {NULL}]
    BY <1>1, <1>2, <2>1, OwnedAllocated DEF Reading
  <2> QED
    BY <1>4, <2>1, <2>2, <2>3
<1> QED
  BY <1>5, <1>6 DEF GetSucceeds

LEMMA GetFailsKeeps ==
    ASSUME IInv, NEW p \in Proc, GetFails(p)
    PROVE  IInv'
<1>1. /\ pc[p] = "call_get" /\ Arguments(p) /\ ptr[p] = NULL /\ answer[p] = NULL
      /\ mine[p] # NULL => Made(p)
  BY DEF GetFails, Calls, IInv, CallInv, Asserting, Outside, Reading
<1>2. /\ pc' \in [Proc -> {"closed", "idle", "arguments", "call_make", "call_get", "done"} \cup Reading]
      /\ hr' \in [Proc -> HRESULT]
      /\ pc'[p] = "read_get" /\ Failed(hr'[p])
      /\ \A q \in Proc : q # p => pc'[q] = pc[q] /\ hr'[q] = hr[q]
      /\ UNCHANGED <<system, kept, request, cred, salt, found, answer, mine>>
  BY DEF GetFails, Calls, Advance, IInv, TypeOK, Reading
<1>3. ptr' = ptr /\ heap' = heap
  BY <1>1 DEF GetFails, NoResult, IInv, TypeOK
<1>4. TypeOK'
  BY <1>2, <1>3 DEF IInv, TypeOK
<1>5. \A q \in Proc : q # p => Same(q)
  BY <1>2, <1>3 DEF Same
<1>6. Arguments(p)' /\ (mine'[p] # NULL => Made(p)')
  BY <1>1, <1>2 DEF Arguments, Asked, Made
<1>7. CallInv(p)'
  BY <1>1, <1>2, <1>3, <1>6, Silent DEF CallInv, Making, Asserting, Outside, Reading
<1> QED
  BY <1>2, <1>3, <1>4, <1>5, <1>7, QuietStep

(* What is copied of an assertion: the secret of the credential asked for. *)
LEMMA ReadAssertionKeeps ==
    ASSUME IInv, NEW p \in Proc, ReadAssertion(p)
    PROVE  IInv'
<1> DEFINE st == heap[ptr[p]]
           lacking == st.version < 3 \/ st.secret = <<>>
           wrong == \/ st.id = "damaged" \/ ~AcceptsId(st, cred[p])
                    \/ st.secret[1].length # 32 \/ st.secret[1].first = NULL
           result == IF lacking THEN Failure("ErrPRFDisabled")
                     ELSE IF wrong THEN Failure("none")
                     ELSE <<"secret", cred[p], salt[p], st.secret[1].first>>
<1>1. /\ pc[p] = "read_get" /\ ptr[p] # NULL
      /\ Arguments(p) /\ answer[p] = NULL /\ (mine[p] # NULL => Made(p))
      /\ st \in Assertion /\ \E k \in kept : k.rp = request[p].rp /\ Asserts(st, p, k.id)
  BY DEF ReadAssertion, IInv, CallInv, Asserting, Outside
<1>2. Failure("none") = <<"failed", "other">> /\ Failure("ErrPRFDisabled") = <<"failed", "ErrNotFIDO2">>
  BY DEF Failure, MapWindowsError
<1>3. Copied(p, "free_get", result)
  BY DEF ReadAssertion
<1>4. ASSUME ~lacking, ~wrong
      PROVE  st.secret[1].first = <<cred[p], salt[p]>> /\ CanDerive(cred[p], request[p].rp)
  <2>1. PICK k \in kept : k.rp = request[p].rp /\ Asserts(st, p, k.id)
    BY <1>1
  <2>2. st.version \in {2, 3} /\ k.id \in Cred
    BY <1>1 DEF Assertion, IInv, TypeOK, Credential
  <2>3. k.id = cred[p]
    BY <1>4, <2>1, <2>2, CredAssumption DEF Asserts, AcceptsId
  <2>4. st.version >= 3 /\ st.secret # <<>>
    BY <1>4, <2>2
  <2>5. /\ CanDerive(cred[p], request[p].rp)
        /\ st.secret \in {<<s>> : s \in
             {x \in HMACSecret : x.length = 32 => x.first \in {<<cred[p], salt[p]>>, NULL}}}
    BY <2>1, <2>3, <2>4 DEF Asserts, CanDerive
  <2>6. PICK x \in HMACSecret : /\ st.secret = <<x>>
                                /\ x.length = 32 => x.first \in {<<cred[p], salt[p]>>, NULL}
    BY <2>5
  <2>7. st.secret[1] = x
    BY <2>6
  <2> QED
    BY <1>4, <2>5, <2>6, <2>7
<1>5. \/ result = <<"failed", "other">>
      \/ result = <<"failed", "ErrNotFIDO2">>
      \/ /\ result = <<"secret", cred[p], salt[p], <<cred[p], salt[p]>>>>
         /\ CanDerive(cred[p], request[p].rp)
  <2> HIDE DEF lacking, wrong
  <2> QED
    BY <1>2, <1>4
<1> HIDE DEF st, result
<1>6. result \in Answer
  <2>1. cred[p] \in Cred /\ salt[p] \in Salt /\ <<cred[p], salt[p]>> \in Cred \X Salt
    BY <1>1 DEF Arguments
  <2> HIDE DEF lacking, wrong
  <2> QED
    BY <1>5, <2>1, FailureAnswers DEF Answer, Reasons
<1>7. TypeOK'
  BY <1>3, <1>6 DEF Copied, Advance, IInv, TypeOK, Reading
<1>8. \A q \in Proc : q # p => Same(q)
  BY <1>3 DEF Copied, Advance, Same, IInv, TypeOK
<1>9. pc'[p] = "free_get" /\ found'[p] = result
  BY <1>3 DEF Copied, Advance, IInv, TypeOK
<1>10. UNCHANGED <<kept, heap, request, cred, salt, hr, ptr, answer, mine>>
  BY <1>3 DEF Copied
<1>11. Arguments(p)' /\ (mine'[p] # NULL => Made(p)')
  BY <1>1, <1>10 DEF Arguments, Asked, Made
<1>12. Asserting(p)'
  BY <1>1, <1>5, <1>9, <1>10, <1>11 DEF Asserting, CanDerive
<1>13. Making(p)' /\ Outside(p)' /\ Told(p)'
  BY <1>1, <1>9, <1>10, <1>11, Silent DEF Making, Outside, Reading
<1> QED
  BY <1>7, <1>8, <1>10, <1>12, <1>13, QuietStep DEF CallInv

(* Both frees: what is left of the step besides the program counter, the   *)
(* arguments and the answer.                                               *)
LEMMA FreeKeeps ==
    ASSUME IInv, NEW p \in Proc, NEW at \in {"free_make", "free_get"}, Free(p, at), CallInv(p)',
           pc' \in [Proc -> {"closed", "idle", "arguments", "call_make", "call_get", "done"} \cup Reading],
           cred' \in [Proc -> Cred \cup {NULL}], salt' \in [Proc -> Salt \cup {NULL}],
           answer' \in [Proc -> Answer \cup {NULL}],
           \A q \in Proc : q # p => pc'[q] = pc[q] /\ cred'[q] = cred[q] /\ salt'[q] = salt[q]
                                    /\ answer'[q] = answer[q]
    PROVE  IInv'
<1>1. ptr[p] # NULL
  BY DEF Free, IInv, CallInv, Making, Asserting
<1>2. /\ StructuresOwned'
      /\ \A q \in Proc : q # p => ptr'[q] = ptr[q] /\ (ptr[q] # NULL => heap'[ptr[q]] = heap[ptr[q]])
      /\ heap' \in [Addr -> Attestation \cup Assertion \cup {NULL}]
      /\ ptr' \in [Proc -> Addr \cup {NULL}]
  BY <1>1, OwnedFreed
<1>3. /\ UNCHANGED <<system, kept, request, hr, mine>>
      /\ found' \in [Proc -> Answer \cup {NULL}]
      /\ \A q \in Proc : q # p => found'[q] = found[q]
  BY DEF Free, IInv, TypeOK
<1>4. TypeOK'
  BY <1>2, <1>3 DEF IInv, TypeOK
<1>5. \A q \in Proc : q # p => Same(q)
  BY <1>2, <1>3 DEF Same
<1> QED
  BY <1>2, <1>3, <1>4, <1>5, StepKeeps DEF Grows

LEMMA FreeAndReturnKeeps ==
    ASSUME IInv, NEW p \in Proc, NEW at \in {"free_make", "free_get"}, FreeAndReturn(p, at)
    PROVE  IInv'
<1>1. /\ Free(p, at) /\ Return(p, found[p]) /\ UNCHANGED <<cred, salt, kept, request, mine>>
      /\ found[p][1] = "credential" => request[p].op = "create"
  BY DEF FreeAndReturn, Free
<1>2. /\ pc[p] = at /\ request[p] \in Request /\ (mine[p] # NULL => Made(p))
  BY <1>1 DEF Free, IInv, CallInv, Making, Asserting, Arguments, Asked, Outside
<1>3. /\ \/ found[p] = <<"failed", "other">>
         \/ /\ found[p] = <<"failed", "ErrNotFIDO2">>
            /\ request[p].op = "create" => ~CanDerive(mine[p], request[p].rp)
         \/ found[p] = <<"credential", mine[p]>> /\ mine[p] \in Cred
         \/ /\ found[p] = <<"secret", cred[p], salt[p], <<cred[p], salt[p]>>>>
            /\ cred[p] \in Cred /\ salt[p] \in Salt
  <2>1. CASE at = "free_make"
    BY <1>2, <2>1 DEF IInv, CallInv, Making, Made
  <2>2. CASE at = "free_get"
    BY <1>2, <2>2 DEF IInv, CallInv, Asserting, Arguments, Asked
  <2> QED
    BY <2>1, <2>2
<1>4. found[p] \in Answer
  <2>1. cred[p] \in Cred /\ salt[p] \in Salt => <<cred[p], salt[p]>> \in Cred \X Salt
    OBVIOUS
  <2> QED
    BY <1>3, <2>1, FailureAnswers DEF Answer, Reasons
<1>5. ptr'[p] = NULL
  BY <1>1 DEF Free, IInv, TypeOK
<1>6. /\ pc' \in [Proc -> {"closed", "idle", "arguments", "call_make", "call_get", "done"} \cup Reading]
      /\ answer' \in [Proc -> Answer \cup {NULL}]
      /\ pc'[p] = "done" /\ answer'[p] = found[p]
      /\ \A q \in Proc : q # p => pc'[q] = pc[q] /\ answer'[q] = answer[q]
  BY <1>1, <1>4 DEF Return, Advance, IInv, TypeOK
<1>7. request'[p] \in Request /\ (mine'[p] # NULL => Made(p)')
  BY <1>1, <1>2 DEF Made
<1>8. CallInv(p)'
  <2>1. Making(p)' /\ Asserting(p)'
    BY <1>6 DEF Making, Asserting
  <2>2. Outside(p)'
    BY <1>4, <1>5, <1>6, <1>7 DEF Outside
  <2>3. Told(p)'
    <3>1. answer'[p] # <<"failed", "ErrInvalidArgument">>
      BY <1>3, <1>6
    <3>2. answer'[p] = <<"failed", "ErrNotFIDO2">> /\ request[p].op = "create"
             => ~CanDerive(mine[p], request[p].rp)
      BY <1>3, <1>6
    <3>3. CanDerive(mine[p], request[p].rp)' <=> CanDerive(mine[p], request[p].rp)
      BY <1>1 DEF CanDerive
    <3> QED
      BY <1>1, <3>1, <3>2, <3>3 DEF Told
  <2> QED
    BY <2>1, <2>2, <2>3 DEF CallInv
<1> QED
  BY <1>1, <1>6, <1>8, FreeKeeps DEF IInv, TypeOK

LEMMA FreeAndDeriveKeeps ==
    ASSUME IInv, NEW p \in Proc, FreeAndDerive(p)
    PROVE  IInv'
<1>1. /\ Free(p, "free_make") /\ found[p][1] = "credential" /\ request[p].op = "create_derive"
      /\ UNCHANGED <<kept, request, mine>>
  BY DEF FreeAndDerive, Free
<1>2. PICK s \in IF request[p].salt = NULL THEN Salt ELSE {request[p].salt} :
         ToAssertion(p, found[p][2], s, TRUE)
  BY DEF FreeAndDerive
<1>3. /\ Asked(p, {"create", "create_derive"}) /\ Made(p) /\ found[p] = <<"credential", mine[p]>>
      /\ answer[p] = NULL
  BY <1>1 DEF Free, IInv, CallInv, Making, Outside
<1>4. request[p].salt \in GivenSalt
  BY <1>1, <1>3 DEF Asked, Request, CreateRequest, DeriveRequest, CreateAndDeriveRequest
<1>5. s \in GivenSalt /\ request[p].salt \in {NULL, s}
  BY <1>2, <1>4 DEF GivenSalt
<1>6. found[p][2] = mine[p] /\ mine[p] \in Cred
  BY <1>3 DEF Made
<1>7. /\ pc' \in [Proc -> {"closed", "idle", "arguments", "call_make", "call_get", "done"} \cup Reading]
      /\ cred' \in [Proc -> Cred \cup {NULL}] /\ salt' \in [Proc -> Salt \cup {NULL}]
      /\ answer' \in [Proc -> Answer \cup {NULL}]
      /\ \A q \in Proc : q # p => pc'[q] = pc[q] /\ cred'[q] = cred[q] /\ salt'[q] = salt[q]
                                  /\ answer'[q] = answer[q]
      /\ \/ /\ pc'[p] = "call_get" /\ cred'[p] = mine[p] /\ salt'[p] = s /\ answer'[p] = answer[p]
            /\ mine[p] \in Cred /\ s \in Salt /\ request[p].rp # NULL
         \/ pc'[p] = "done" /\ answer'[p] = <<"failed", "ErrInvalidArgument">>
  <2>1. ToAssertion(p, mine[p], s, TRUE)
    BY <1>2, <1>6
  <2> QED
    BY <1>5, <1>6, <2>1, ToAssertionKeeps
<1>8. Made(p)' /\ request'[p] \in Request /\ ptr'[p] = NULL
  BY <1>1, <1>3 DEF Made, Asked, Free, IInv, TypeOK
<1>9. CallInv(p)'
  <2>1. CASE pc'[p] = "done" /\ answer'[p] = <<"failed", "ErrInvalidArgument">>
    <3>1. request'[p].op = "create_derive" /\ "ErrInvalidArgument" \in Reasons
      BY <1>1 DEF Reasons
    <3> QED
      BY <1>8, <2>1, <3>1, FailedCall
  <2>2. CASE /\ pc'[p] = "call_get" /\ cred'[p] = mine[p] /\ salt'[p] = s /\ answer'[p] = answer[p]
             /\ mine[p] \in Cred /\ s \in Salt /\ request[p].rp # NULL
    <3>1. Arguments(p)'
      BY <1>1, <1>3, <1>5, <2>2 DEF Arguments, Asked
    <3> QED
      BY <1>3, <1>8, <2>2, <3>1, Silent DEF CallInv, Making, Asserting, Outside
  <2> QED
    BY <1>7, <2>1, <2>2
<1> QED
  BY <1>1, <1>7, <1>9, FreeKeeps

LEMMA LeaveKeeps ==
    ASSUME IInv, NEW p \in Proc, Leave(p)
    PROVE  IInv'
<1>1. ptr[p] = NULL
  BY DEF Leave, IInv, CallInv, Outside, Reading
<1>2. /\ ptr' = ptr /\ UNCHANGED <<system, kept, heap>>
  BY <1>1 DEF Leave, IInv, TypeOK
<1>3. TypeOK'
  BY DEF Leave, Advance, IInv, TypeOK, HRESULT
<1>4. \A q \in Proc : q # p => Same(q)
  BY DEF Leave, Advance, Same, IInv, TypeOK
<1>5. /\ pc'[p] = "idle" /\ request'[p] = NULL /\ answer'[p] = NULL /\ mine'[p] = NULL /\ ptr'[p] = NULL
  BY <1>1, <1>2 DEF Leave, Advance, IInv, TypeOK
<1>6. CallInv(p)'
  BY <1>5, Silent DEF CallInv, Making, Asserting, Outside
<1> QED
  BY <1>2, <1>3, <1>4, <1>6, QuietStep

-----------------------------------------------------------------------------
(* The theorems. *)

LEMMA InitIInv == Init => IInv
<1> SUFFICES ASSUME Init PROVE IInv
  OBVIOUS
<1>1. TypeOK
  BY SystemAssumption DEF Init, TypeOK, HRESULT
<1>2. UniqueIds /\ StructuresOwned
  BY DEF Init, UniqueIds, StructuresOwned
<1>3. ASSUME NEW p \in Proc PROVE CallInv(p)
  <2>1. Making(p) /\ Asserting(p) /\ Outside(p)
    BY DEF Init, Making, Asserting, Outside
  <2>2. Told(p)
    BY DEF Init, Told
  <2> QED
    BY <2>1, <2>2 DEF CallInv
<1> QED
  BY <1>1, <1>2, <1>3 DEF IInv

LEMMA StutterKeeps == IInv /\ UNCHANGED vars => IInv'
<1> SUFFICES ASSUME IInv, UNCHANGED vars PROVE IInv'
  OBVIOUS
<1>1. TypeOK' /\ StructuresOwned'
  BY DEF vars, local, IInv, TypeOK, StructuresOwned
<1>2. \A q \in Proc : Same(q)
  BY DEF vars, local, Same
<1>3. Grows
  BY DEF vars, Grows
<1>4. \A q \in Proc : CallInv(q)'
  BY <1>2, <1>3, OthersKeep
<1> QED
  BY <1>1, <1>3, <1>4, Growth DEF IInv

LEMMA StepIInv == IInv /\ [Next]_vars => IInv'
<1> SUFFICES ASSUME IInv, Next PROVE IInv'
  BY StutterKeeps
<1>1. PICK p \in Proc :
         \/ Open(p)
         \/ \E q \in Requests : Ask(p, q)
         \/ CreateCredential(p) \/ Derive(p)
         \/ VersionTooLow(p) \/ InputRefused(p)
         \/ MakeSucceeds(p) \/ MakeFails(p)
         \/ CallError(p, "read_make") \/ CallError(p, "read_get")
         \/ ReadAttestation(p) \/ ReadAssertion(p)
         \/ GetSucceeds(p) \/ GetFails(p)
         \/ FreeAndReturn(p, "free_make") \/ FreeAndReturn(p, "free_get")
         \/ FreeAndDerive(p)
         \/ Leave(p)
  BY DEF Next
<1>2. CASE Open(p) \/ (\E q \in Requests : Ask(p, q)) \/ Leave(p)
  BY <1>2, OpenKeeps, AskKeeps, LeaveKeeps
<1>3. CASE CreateCredential(p) \/ Derive(p) \/ VersionTooLow(p) \/ InputRefused(p)
  BY <1>3, CreateCredentialKeeps, DeriveKeeps, VersionTooLowKeeps, InputRefusedKeeps
<1>4. CASE MakeSucceeds(p) \/ MakeFails(p) \/ GetSucceeds(p) \/ GetFails(p)
  BY <1>4, MakeSucceedsKeeps, MakeFailsKeeps, GetSucceedsKeeps, GetFailsKeeps
<1>5. CASE CallError(p, "read_make") \/ CallError(p, "read_get")
  BY <1>5, CallErrorKeeps
<1>6. CASE ReadAttestation(p) \/ ReadAssertion(p)
  BY <1>6, ReadAttestationKeeps, ReadAssertionKeeps
<1>7. CASE FreeAndReturn(p, "free_make") \/ FreeAndReturn(p, "free_get") \/ FreeAndDerive(p)
  BY <1>7, FreeAndReturnKeeps, FreeAndDeriveKeeps
<1> QED
  BY <1>1, <1>2, <1>3, <1>4, <1>5, <1>6, <1>7

(* IInv holds of the calls of the Windows binding, however they overlap.   *)
THEOREM Invariance == Spec => []IInv
<1> QED
  BY InitIInv, StepIInv, PTL DEF Spec

(* Arguments, structures and answers of a call have their shape throughout *)
(* (credential_windows.go, assertion_windows.go, hmacsecret_windows.go).   *)
THEOREM TypeCorrect == Spec => []TypeOK
<1>1. IInv => TypeOK
  BY DEF IInv
<1> QED
  BY <1>1, Invariance, PTL

(* Every structure webauthn.dll hands out is freed by the one call that    *)
(* received it and read by no other (credential_windows.go:183,            *)
(* assertion_windows.go:133).                                              *)
THEOREM StructuresStayOwned == Spec => []StructuresOwned
<1>1. IInv => StructuresOwned
  BY DEF IInv
<1> QED
  BY <1>1, Invariance, PTL

(* A credential given up for want of the PRF could not derive              *)
(* (credential_windows.go:201-207).                                        *)
THEOREM AbandonedStayUnable == Spec => []AbandonedCannotDerive
<1>1. IInv => AbandonedCannotDerive
  BY DEF IInv, CallInv, Told, AbandonedCannotDerive, CanDerive
<1> QED
  BY <1>1, Invariance, PTL

(* A bad argument is reported only if no authenticator has acted, except   *)
(* by CreateAndDerive (hmacsecret_windows.go:146-155).                     *)
THEOREM RefusalsTouchNothing == Spec => []RefusedMeansUntouched
<1>1. IInv => RefusedMeansUntouched
  BY DEF IInv, CallInv, Told, RefusedMeansUntouched
<1> QED
  BY <1>1, Invariance, PTL

-----------------------------------------------------------------------------
(* The binding keeps the contract of a Device.                             *)

LEMMA SameReplies == UNCHANGED answer => UNCHANGED Replies
BY DEF Replies

LEMMA Stutters ==
    UNCHANGED <<kept, request, mine, answer>> => UNCHANGED Device!vars
BY SameReplies DEF Device!vars

(* An answer is a reply of the contract if it fails or is promised. *)
LEMMA ReplyRefines ==
    ASSUME IInv, NEW p \in Proc, NEW a \in Answer, answer' = [answer EXCEPT ![p] = a],
           answer[p] = NULL, UNCHANGED <<kept, request, mine>>, request[p] \in Request,
           a[1] = "failed" \/ a \in Device!Promised(request[p], mine[p])
    PROVE  Device!Reply(p)
<1> DEFINE b == IF a[1] = "failed" THEN <<"failed">> ELSE a
           R(x) == IF x = NULL THEN NULL ELSE IF x[1] = "failed" THEN <<"failed">> ELSE x
<1>1. a # NULL /\ request[p] # NULL
  BY AnswerAssumption, RequestAssumption
<1>2. answer' = [q \in Proc |-> IF q = p THEN a ELSE answer[q]]
  BY DEF IInv, TypeOK
<1>3. Replies = [q \in Proc |-> R(answer[q])] /\ Replies' = [q \in Proc |-> R(answer'[q])]
  BY DEF Replies
<1>4. R(a) = b /\ R(NULL) = NULL
  BY <1>1
<1>5. b \in Device!Promised(request[p], mine[p])
  <2>1. <<"failed">> \in Device!Promised(request[p], mine[p])
    BY DEF Device!Promised
  <2> QED
    BY <2>1
<1> HIDE DEF b, R
<1>6. Replies[p] = NULL /\ Replies'[p] = b /\ Replies' = [Replies EXCEPT ![p] = Replies'[p]]
  BY <1>2, <1>3, <1>4
<1> QED
  BY <1>1, <1>5, <1>6 DEF Device!Reply

LEMMA FailureRefines ==
    ASSUME IInv, NEW p \in Proc, NEW why \in Reasons, answer' = [answer EXCEPT ![p] = <<"failed", why>>],
           answer[p] = NULL, UNCHANGED <<kept, request, mine>>, request[p] \in Request
    PROVE  Device!Reply(p)
<1>1. <<"failed", why>> \in Answer /\ <<"failed", why>>[1] = "failed"
  BY FailureAnswers
<1> QED
  BY <1>1, ReplyRefines

LEMMA AskRefines ==
    ASSUME IInv, NEW p \in Proc, NEW q \in Requests, Ask(p, q)
    PROVE  Device!Ask(p)
<1>1. request[p] = NULL /\ UNCHANGED <<kept, mine, answer>>
  BY DEF Ask, IInv, CallInv, Outside
<1>2. request' = [request EXCEPT ![p] = q] /\ request'[p] = q
  BY DEF Ask, IInv, TypeOK
<1>3. q \in Device!Request
  BY RequestAssumption, NullAssumption
  DEF Request, CreateRequest, DeriveRequest, CreateAndDeriveRequest, GivenRp, GivenSalt, Device!Request
<1> QED
  BY <1>1, <1>2, <1>3, SameReplies DEF Device!Ask

LEMMA MakeRefines ==
    ASSUME IInv, NEW p \in Proc, pc[p] = "call_make", Register(p), UNCHANGED <<request, answer>>
    PROVE  Device!Make(p)
<1>1. /\ Asked(p, {"create", "create_derive"}) /\ mine[p] = NULL /\ answer[p] = NULL
  BY DEF IInv, CallInv, Making, Outside
<1>2. request[p] # NULL /\ Replies[p] = NULL
  BY <1>1, RequestAssumption DEF Asked, Replies
<1> QED
  BY <1>1, <1>2, SameReplies DEF Register, Device!Make, Asked

(* What is left to return after a free is promised. *)
LEMMA ReturnRefines ==
    ASSUME IInv, NEW p \in Proc, NEW at \in {"free_make", "free_get"}, FreeAndReturn(p, at)
    PROVE  Device!Reply(p)
<1>1. /\ pc[p] = at /\ answer' = [answer EXCEPT ![p] = found[p]] /\ UNCHANGED <<kept, request, mine>>
      /\ found[p][1] = "credential" => request[p].op = "create"
  BY DEF FreeAndReturn, Free, Return
<1>2. answer[p] = NULL /\ request[p] \in Request
  BY <1>1 DEF IInv, CallInv, Making, Asserting, Arguments, Asked, Outside
<1>3. /\ found[p] \in Answer
      /\ found[p][1] = "failed" \/ found[p] \in Device!Promised(request[p], mine[p])
  <2>1. CASE at = "free_make"
    <3>1. CASE found[p] \in {<<"failed", "other">>, <<"failed", "ErrNotFIDO2">>}
      BY <3>1, FailureAnswers DEF Reasons
    <3>2. CASE found[p] = <<"credential", mine[p]>> /\ CanDerive(mine[p], request[p].rp)
      <4>1. mine[p] \in Cred /\ mine[p] # NULL /\ request[p].op = "create"
        BY <1>1, <2>1, <3>2, NullAssumption DEF IInv, CallInv, Making, Made
      <4>2. Device!Derivable(mine[p], request[p].rp)
        BY <3>2 DEF CanDerive, Device!Derivable
      <4>3. <<"credential", mine[p]>> \in Device!Promised(request[p], mine[p])
        BY <4>1, <4>2 DEF Device!Promised
      <4> QED
        BY <3>2, <4>1, <4>3 DEF Answer
    <3> QED
      BY <1>1, <2>1, <3>1, <3>2 DEF IInv, CallInv, Making
  <2>2. CASE at = "free_get"
    <3>1. CASE found[p] \in {<<"failed", "other">>, <<"failed", "ErrNotFIDO2">>}
      BY <3>1, FailureAnswers DEF Reasons
    <3>2. CASE /\ found[p] = <<"secret", cred[p], salt[p], <<cred[p], salt[p]>>>>
               /\ CanDerive(cred[p], request[p].rp)
      <4>1. Arguments(p)
        BY <1>1, <2>2 DEF IInv, CallInv, Asserting
      <4>2. cred[p] \in Cred /\ salt[p] \in Salt /\ <<cred[p], salt[p]>> \in Cred \X Salt
        BY <4>1 DEF Arguments
      <4>3. Device!Derivable(cred[p], request[p].rp)
        BY <3>2 DEF CanDerive, Device!Derivable
      <4>4. found[p] = Device!Secret(cred[p], salt[p])
        BY <3>2 DEF Device!Secret
      <4>5. CASE request[p].op = "derive"
        <5>1. cred[p] = request[p].cred /\ salt[p] = request[p].salt
          BY <4>1, <4>5 DEF Arguments
        <5> QED
          BY <4>2, <4>3, <4>4, <4>5, <5>1 DEF Device!Promised, Answer, Device!Secret
      <4>6. CASE request[p].op = "create_derive"
        <5>1. cred[p] = mine[p] /\ request[p].salt \in {NULL, salt[p]}
          BY <4>1, <4>6 DEF Arguments
        <5> DEFINE y == <<cred[p], salt[p]>>
        <5>2. /\ y \in Cred \X Salt /\ y[1] = mine[p] /\ y[2] = salt[p] /\ y[1] = cred[p]
              /\ y \in Cred \X (Salt \cup {ShortSalt})
          BY <4>2, <5>1
        <5>3. Device!Derivable(mine[p], request[p].rp) /\ found[p] = Device!Secret(y[1], y[2])
          BY <4>3, <4>4, <5>1, <5>2
        <5> HIDE DEF y
        <5>4. found[p] \in Device!Promised(request[p], mine[p])
          BY <4>6, <5>1, <5>2, <5>3 DEF Device!Promised
        <5>5. found[p] \in Answer
          BY <3>2, <4>2 DEF Answer
        <5> QED
          BY <5>4, <5>5
      <4> QED
        BY <4>1, <4>5, <4>6 DEF Arguments, Asked
    <3> QED
      BY <1>1, <2>2, <3>1, <3>2 DEF IInv, CallInv, Asserting
  <2> QED
    BY <2>1, <2>2
<1> HIDE DEF Device!Reply
<1> QED
  BY <1>1, <1>2, <1>3, ReplyRefines

LEMMA ToAssertionRefines ==
    ASSUME IInv, NEW p \in Proc, NEW c, NEW s, NEW pr, ToAssertion(p, c, s, pr),
           answer[p] = NULL, UNCHANGED <<kept, request, mine>>, request[p] \in Request
    PROVE  Device!Reply(p) \/ UNCHANGED Device!vars
<1>1. CASE UNCHANGED answer
  BY <1>1, Stutters
<1>2. CASE Fail(p, "ErrInvalidArgument")
  BY <1>2, FailureRefines DEF Fail, Return, Reasons
<1> QED
  BY <1>1, <1>2 DEF ToAssertion

LEMMA StepRefines == IInv /\ [Next]_vars => [Device!Next]_(Device!vars)
<1> SUFFICES ASSUME IInv, [Next]_vars
             PROVE  Device!Next \/ UNCHANGED Device!vars
  OBVIOUS
<1>1. CASE UNCHANGED vars
  BY <1>1, Stutters DEF vars, local
<1>2. CASE Next
  <2>1. PICK p \in Proc :
           \/ Open(p)
           \/ \E q \in Requests : Ask(p, q)
           \/ CreateCredential(p) \/ Derive(p)
           \/ VersionTooLow(p) \/ InputRefused(p)
           \/ MakeSucceeds(p) \/ MakeFails(p)
           \/ CallError(p, "read_make") \/ CallError(p, "read_get")
           \/ ReadAttestation(p) \/ ReadAssertion(p)
           \/ GetSucceeds(p) \/ GetFails(p)
           \/ FreeAndReturn(p, "free_make") \/ FreeAndReturn(p, "free_get")
           \/ FreeAndDerive(p)
           \/ Leave(p)
    BY <1>2 DEF Next
  <2>2. SUFFICES Device!Ask(p) \/ Device!Make(p) \/ Device!Reply(p) \/ Device!Leave(p) \/ UNCHANGED Device!vars
    BY DEF Device!Next
  <2>3. CASE \E q \in Requests : Ask(p, q)
    BY <2>3, AskRefines
  <2>4. CASE Open(p) \/ ReadAttestation(p) \/ ReadAssertion(p) \/ GetSucceeds(p) \/ GetFails(p)
    BY <2>4, Stutters DEF Open, ReadAttestation, ReadAssertion, Copied, GetSucceeds, GetFails, Calls
  <2>5. CASE CreateCredential(p)
    <3>1. answer[p] = NULL /\ request[p] \in Request /\ UNCHANGED <<kept, request, mine>>
      BY <2>5 DEF CreateCredential, IInv, CallInv, Outside
    <3>2. CASE Fail(p, "ErrInvalidArgument")
      BY <3>1, <3>2, FailureRefines DEF Fail, Return, Reasons
    <3>3. CASE UNCHANGED answer
      BY <3>1, <3>3, Stutters
    <3> QED
      BY <2>5, <3>2, <3>3 DEF CreateCredential
  <2>6. CASE Derive(p)
    <3>1. answer[p] = NULL /\ request[p] \in Request /\ UNCHANGED <<kept, request, mine>>
      BY <2>6 DEF Derive, IInv, CallInv, Outside
    <3>2. ToAssertion(p, request[p].cred, request[p].salt, request[p].presence)
      BY <2>6 DEF Derive
    <3> QED
      BY <3>1, <3>2, ToAssertionRefines
  <2>7. CASE VersionTooLow(p) \/ InputRefused(p)
    <3>1. answer[p] = NULL /\ request[p] \in Request /\ UNCHANGED <<kept, request, mine>>
      BY <2>7 DEF VersionTooLow, InputRefused, IInv, CallInv, Making, Asserting, Arguments, Asked, Outside
    <3>2. \E err : Fail(p, MapWindowsError(err))
      BY <2>7 DEF VersionTooLow, InputRefused
    <3> QED
      BY <3>1, <3>2, FailureRefines, MapsToReasons DEF Fail, Return
  <2>8. CASE CallError(p, "read_make") \/ CallError(p, "read_get")
    <3>1. answer[p] = NULL /\ request[p] \in Request /\ UNCHANGED <<kept, request, mine>>
      BY <2>8 DEF CallError, IInv, CallInv, Making, Asserting, Arguments, Asked, Outside
    <3>2. \E err : Fail(p, MapWindowsError(err))
      BY <2>8 DEF CallError
    <3> QED
      BY <3>1, <3>2, FailureRefines, MapsToReasons DEF Fail, Return
  <2>9. CASE MakeSucceeds(p)
    BY <2>9, MakeRefines DEF MakeSucceeds, Calls
  <2>10. CASE MakeFails(p)
    <3>1. pc[p] = "call_make" /\ UNCHANGED <<request, answer>> /\ (UNCHANGED <<kept, mine>> \/ Register(p))
      BY <2>10 DEF MakeFails, Calls
    <3> QED
      BY <3>1, MakeRefines, Stutters
  <2>11. CASE FreeAndReturn(p, "free_make") \/ FreeAndReturn(p, "free_get")
    BY <2>11, ReturnRefines
  <2>12. CASE FreeAndDerive(p)
    <3>1. UNCHANGED <<kept, request, mine>> /\ \E c, s : ToAssertion(p, c, s, TRUE)
      BY <2>12 DEF FreeAndDerive, Free
    <3>2. answer[p] = NULL /\ request[p] \in Request
      BY <2>12 DEF FreeAndDerive, Free, IInv, CallInv, Making, Asked, Outside
    <3> QED
      BY <3>1, <3>2, ToAssertionRefines
  <2>13. CASE Leave(p)
    <3>1. answer[p] \in Answer
      BY <2>13 DEF Leave, IInv, CallInv, Outside
    <3>2. Replies[p] # NULL
      BY <3>1, AnswerAssumption DEF Replies
    <3>3. answer' = [answer EXCEPT ![p] = NULL]
      BY <2>13 DEF Leave
    <3>4. Replies' = [Replies EXCEPT ![p] = NULL]
      BY <3>3 DEF Replies, IInv, TypeOK
    <3> QED
      BY <2>13, <3>2, <3>4 DEF Leave, Device!Leave
  <2> QED
    BY <2>1, <2>3, <2>4, <2>5, <2>6, <2>7, <2>8, <2>9, <2>10, <2>11, <2>12, <2>13
<1> QED
  BY <1>1, <1>2

(* The calls of the Windows binding, taken together, are calls of a Device *)
(* as the contract has it: what they return is their own credential that   *)
(* can derive, or the secret of the credential and the salt they name.     *)
THEOREM Refinement == Spec => ImplementsAuthenticator
<1>1. Init => Device!Init
  BY DEF Init, Device!Init, Replies
<1> QED
  BY <1>1, Invariance, StepRefines, PTL DEF Spec, ImplementsAuthenticator, Device!Spec
=============================================================================
