# Verification of hmacsecret

TLA+ models, TLC configurations and TLAPS proofs for `hmacsecret`, a Go library
and command line tool that creates FIDO2 `hmac-secret` credentials, derives
secrets from them, and stores the credential metadata, optionally encrypted
under a key that is itself derived from an authenticator. Paths below are
relative to the repository root.

## 1. Inventory

| Component | State | Operations | Hard behaviour |
|---|---|---|---|
| `pkg/store/encrypted` (`lib/store/encrypted.go` is its interface) | per `Store`: cached header, sealed DEK, `sync.RWMutex`, backend pointer; persisted: one header, envelopes by alias | Initialize, Unlock, Lock, RotateKEK, Put, Get, Delete, Has, List, Header, Close | several goroutines and several processes; header loaded before the mutex is taken; snapshot used after it is released; compare-and-swap races; a write applied although an error is returned; crash between disk and memory |
| `pkg/secrets` (`lib/secrets` holds its two callbacks) | per `Secrets`: `createMu`; shared: the store, the authenticators | Create, Derive, Delete, Has, List | check-then-act over prompts; two instances over one store; credential created and record lost; Delete in the middle of a Create |
| `pkg/store/pebble` | key space of one Pebble database, a mutex | Put, Get, Delete, Has, List, CreateHeader, LoadHeader, CompareAndSwapHeader, Put/Get/Delete/Has/ListEnvelopes, Close | check-then-act under the mutex; plain records, header and envelopes share one key space |
| `pkg/store/sqlite` | three tables, one connection | the same | single-statement atomicity across processes; the two statements of a failed compare-and-swap |
| `lib/hmacsecret` | none that lasts: a device handle per call | ListDevices, Open, OpenIndex, CreateCredential, Derive, CreateAndDerive | an index read in one listing and used in another; a credential made by a call that fails later |
| `internal/webauthn` | structures owned by `webauthn.dll` | MakeCredential, GetAssertion, Load | memory freed exactly once; errors discovered after the authenticator has acted |
| `third_party/go-libfido2/fido2.go` | one native handle per Device, a lock | open, close, Cancel, MakeCredential, Assertion | Cancel against close |
| `pkg/device/cli`, `pkg/pin/*` | none | Select, PIN prompts | the list on the screen ages while the user reads it |
| `cmd/hmac-secret`, `cmd/secrets` | none that lasts | list, create, reuse, derive, print | what is printed must suffice for a later run |

How they interact: the command `secrets` builds a `Secrets` over a Pebble or
SQLite store (the encrypted store offers the same `store.Store` interface and
wraps either backend as an `EnvelopeBackend`). `Secrets` calls back into a
`DeviceSelector` and a `PINProvider` and opens the chosen device through
`lib/hmacsecret`, which uses libfido2 or the Windows DLL. The command `hmac-secret`
uses `lib/hmacsecret` directly and stores nothing.

What makes each part correct:

* encrypted store: one DEK for ever, wrapped in a header that always opens under
  the KEK it names; records readable across rotations; no rotation lost; locked
  means locked;
* secrets service: an alias keeps one secret until it is deleted, a stored record
  names its credential and an alias that has answered once can be derived again,
  Creates of one instance do not waste credentials;
* backends: insert-only Put, compare-and-swap header, disjoint key spaces;
* device layer: a list shows what was found, in its order, under its numbers;
  whichever authenticator is behind a path, secrets match credentials;
* native bindings: every structure freed once, no use after close.

## 2. Modules

| Module | Models | Used by |
|---|---|---|
| `Vault` | the promise of an encrypted store: one KEK, a version, a map | refined by `EncryptedStore` |
| `EncryptedStore` | `pkg/store/encrypted/encrypted.go` over an atomic backend | `MCEncryptedStore`, `EncryptedStoreProofs` |
| `RecordCodec` | its bytes: record codec, additional data, sizes | `EnvelopeBinding` |
| `EnvelopeBinding` | its envelopes and headers over a database that gives back other rows | `MCEnvelopeBinding`, `EnvelopeBindingProofs` |
| `Keyring` | the promise of the alias API | refined by `SecretsService` |
| `SecretsService` | `pkg/secrets/secrets.go` over an abstract store and authenticators | `MCSecretsService`, `SecretsServiceProofs` |
| `EnvelopeBackend` | the promise of a backend: a table whose operations are atomic | refined by the next two |
| `PebbleBackend` | `pkg/store/pebble/pebble.go`: key space, mutex, Pebble calls | `MCPebbleBackend`, `PebbleBackendProofs` |
| `SqliteBackend` | `pkg/store/sqlite/sqlite.go`: tables and statements | `MCSqliteBackend`, `SqliteBackendProofs` |
| `Authenticator` | the promise of an open `Device` | refined by the next two |
| `WebAuthn` | `internal/webauthn` and `hmacsecret_windows.go` over `webauthn.dll` | `MCWebAuthn`, `WebAuthnProofs` |
| `LibfidoDevice` | `lib/hmacsecret/hmacsecret.go` over libfido2 and authenticators that come and go | extended by `DeviceSelection` |
| `DeviceListing` | the order and the numbers of `ListDevices` | `DeviceSelection` |
| `DeviceSelection` | `openSelected`, the command line selector, `OpenIndex` | extended by `HmacSecretCLI` |
| `HmacSecretCLI` | `cmd/hmac-secret` from flags to output | `MCHmacSecretCLI`, `HmacSecretCLIProofs` |
| `NativeDevice` | open, close and Cancel of `third_party/go-libfido2/fido2.go` | `MCNativeDevice`, `NativeDeviceProofs` |

Modules named `MC...` instantiate a module for TLC, modules named `...Proofs`
hold its theorems: `EnvelopeBindingProofs` also those about `RecordCodec`,
`HmacSecretCLIProofs` those about the whole stack down to `DeviceListing` and
`LibfidoDevice`, whose variables are the command's too.

The layers meet at their contracts. `EncryptedStore` takes each backend call as one
atomic step; the backend modules show that this is so, down to the answer. It takes
cryptography as symbolic, with additional data that name a place; `EnvelopeBinding`
shows on bytes that they do. It in turn implements `Vault`, whose insert-only map
is the store that `SecretsService` calls. (`SecretsService` allows its store every
failure the others show.) Below, both bindings implement `Authenticator`, and
`HmacSecretCLI`, `DeviceSelection` and `LibfidoDevice` are one stack of modules, each
extending the one under it.

### EncryptedStore

State and code: `header` and `envelopes` are what the backend persists;
`memHeader`, `memDek`, `backend` are the fields `header`, `dek`, `backend` of each
`Store` (`Inst`); `writer` is the writer side of `Store.mu`, which only RotateKEK
holds across a step; `pc`, `call`, `hdr`, `dek` are a goroutine's position,
arguments and locals. `drawn` counts what the random source has returned;
`history`, `acks` and `promised` are ghosts the code does not have.

A handler is cut at each acquisition of `Store.mu` and at each backend call, the
points where another goroutine or process can act:

| Code | Actions |
|---|---|
| Initialize 74-128 | InitializeLoad, InitializeList (list, draw, wrap), InitializeCreate, InitializePublish |
| Unlock 132-157 | UnlockLoad (load, unwrap), UnlockPublish |
| Lock 160-165 | Lock |
| RotateKEK 168-210 | RotateLock, RotateLoad (load, compare, rewrap), RotateSwap |
| Put, Get, Delete 213-290 | Put/Get/DeleteSnapshot, then PutWrite, GetRead, DeleteWrite |
| Close 313-324 | CloseLock, CloseCheck, CloseBackend, CloseNil |
| any backend call that fails | BackendFails (no effect), or the second disjunct of InitializeCreate, RotateSwap, PutWrite, DeleteWrite (effect, and an error) |
| process death, reopening | Restart; NilBackend for the panic of a call through a nil backend |

Cryptography is symbolic: a KEK is named by the public reference it is derived
from, a blob opens exactly under the key and additional data it was sealed with.
The header's additional data binds revision, store id and KEK reference, a
record's binds store id and alias, as in `headerAAD` and `recordAAD`.

### SecretsService

`records` is the store, `made` the credentials on authenticators, `creator` the
holder of each instance's `createMu`; `rec` and `dev` are the locals `rec`/`salt`
and `auth`. `epoch`, `since`, `used`, `handed` are ghosts, and so is the field
`svc` of a credential. A secret is the pair (credential, salt) because an
authenticator computes HMAC of the one keyed by the other. Create is cut into
CreateLock, CreateHas, CreateOpen, CreateFido, CreatePut, CreateDerive; Derive
into DeriveGet, DeriveOpen, DeriveFido; Delete is one step and takes no mutex.
`Crash` ends the process of an instance at any point.

`HmacSecret` says which authenticators grant the extension. The others make
credentials too, and `CreateFido` keeps them, as `hmacsecret.go:103-111` does over
libfido2: a record may be stored whose credential never derives, its alias is taken
until it is deleted, and nothing says that every stored alias can be derived. What
holds is that a record names its credential (`RecordsNameCredentials`), and that an
alias that has answered once can be derived until it is deleted
(`AnsweredStaysDerivable`). User verification is taken to be the same for every call:
an authenticator has a second key per credential for calls with a PIN, and an alias
derived once with and once without one would yield two secrets (`hmacsecret.go:163`,
and `pin.go:12` of the same directory allows an empty PIN). This holds for the modules
of the devices below, too.

### Backends

`EnvelopeBackend` is an atomic object: a caller asks, at one moment its request is
performed against `table` and answered, and it leaves, with or without reading the
answer. A write that answers "failed" may have been performed. `PebbleBackend` keeps
one map from keys to values, with `EnvelopeKey` and the header key as in the code,
and cuts each writer into Lock, `CheckKey` (the `db.Get`) and `WriteKey` (the
`db.Set` or `db.Delete`); readers are one step and take no mutex. `SqliteBackend`
keeps three tables and makes each statement a step, so that only
CompareAndSwapHeader has two (`CompareAndSwapHeader`, `Count`); the header row holds
a revision column and a body. The requests follow the callers: a header is created
at revision 1 and swapped by someone who has loaded the revision he expects
(`encrypted.go:187-205`). An arbitrary client of SQLite could be told ErrConflict
about a header created between UPDATE and SELECT; no code of the repository is one.
`AskedAssumption` says this of the constant `Asked`: a header is not removed, it has a
revision, and a swap writes a later revision than it expects.
An alias is any sequence but the empty one (`AliasAssumption`), as in
`store.ValidateAlias`. An alias that is a key of the encrypted store (`InternalKey`)
would share it, if plain records and an encrypted store used one database: that none
is (`NoInternalAlias`) is a hypothesis of the refinement, which `MCPebbleBackend` asserts
of its aliases, and not a fact about the code.

The requests are the constant `Uses`, the sets of requests of the programs
considered; a behaviour begins with the choice of one. A program that lists plain
records and also keeps envelopes in the same database is the one that `pebble_list`
shows to go wrong; the others are `Separated`.

### RecordCodec and EnvelopeBinding

`RecordCodec` is functions on sequences of bytes: the three integer encodings,
`LengthPrefixed`, `HeaderAAD`, `RecordAAD`, `EncodeRecord`, `DecodeRecord` and
`ValidSize`. The readers return a sequence of one result, or an empty one for an
error, and check in the order the code does. The size limits are constants; the two
conditions on them (`SizeAssumption`, `FitAssumption`) hold for the code's values:
2 * 2^20 + 32 + 14 + 16 <= 2^22.

`EnvelopeBinding` has one Store per database and no interleaving. Its databases may
give back, at any time, an envelope that was sealed for another alias or another
store (`RowRestored`), or the public part of one header with the wrapped key of
another header of the store (`HeaderRestored`). A ciphertext opens under the key and
the additional data, as bytes, that it was sealed with. Restoring a whole database
of another store under an open handle is left out: `RotateKEK` compares revisions
and not store ids (`encrypted.go:190`) and would carry the old key over.

### WebAuthn

`heap` holds the structures `webauthn.dll` has allocated, by address; an address that
has been freed may be given out again. A call is cut into the check of the version
and of the input, the call of the DLL, the reading of its structure, and the deferred
free, so that two goroutines may meet at each of them. An `HRESULT` may report a
failure before or after an authenticator has acted, except for those by which the DLL
refuses what it does not understand. The fields of a structure may be missing or
damaged, but do not lie; an old structure has nothing at the place of a later field,
which the model gives any value. `ExtensionLimit` stands for the 64 extension outputs
that are looked at.

### DeviceListing, DeviceSelection, LibfidoDevice, HmacSecretCLI

`port` says which authenticator is plugged in at a path; `World` changes it at any
time. A `Device` remembers its path, although the comment of `Open` in
`lib/hmacsecret/device.go` says that it opens it: each operation opens the path twice,
once for `IsFIDO2` and once to act, and meets whatever is there. A wrong PIN is one
of the ways to fail; user presence, which libfido2 asks for by default, is fixed.
The secret is a function of credential and salt under the same user verification
each time (an authenticator keeps two keys per credential, and a run with and a run
without a PIN use different ones, `hmacsecret.go:163`).

The contract `Authenticator` has a constant `Checked`: a credential is returned only if
it can derive. It is TRUE for the Windows binding, which looks at the PRF report, and
FALSE for libfido2, which does not ask whether the extension was granted, although
`types.go:80` calls a `Credential` hmac-secret-enabled.

`DeviceListing` writes the loop of `ListDevices` that leaves devices out as a counted
selection (`Picked`: the k-th place has the allowed location with k allowed ones up to
it), which the proofs can reason about, and the loop that puts the broker first as a
shift. A program of `DeviceSelection` lists, chooses and opens, or opens by an index in a
new listing. `MaxDevices` stands for the 64 devices `libfido2.DeviceLocations` has
room for. A program remembers a path, or only a number that the next listing may give
to another device: nothing says that the authenticator asked is the one that was
shown, and the contract is checked whichever it is. A run of `HmacSecretCLI` also makes
or reuses a credential, parses the salt, derives and prints. What any run has printed
may be given to a later one.

### NativeDevice

`native` is the life of each handle, `dev` the field that names the handle opened last,
`mutex` the lock of the `Device`. `OpenPublish` writes the field without the mutex, as
the code does; `CloseClear` and `Cancel` take it. A handle that does not open is
never freed (`fido2.go:248`).

## 3. Runs

| Run | Question | Bounds |
|---|---|---|
| `processes` | do two processes agree on one DEK, and is no rotation lost? is the inductive invariant kept? | 2 goroutines, 2 instances, 2 KEKs, 2 draws, revisions 1-2 |
| `records` | do records survive rotations, Locks, crashes, delayed writes; does the store implement the vault? | 2 goroutines, 2 instances, 1 alias, 2 records |
| `returns` | does every call return? | 2 goroutines, 1 instance, 1 alias |
| `close` (expected violation) | does Close leave a locked store, with an Initialize or an Unlock in flight? | 2 goroutines, 1 instance |
| `service` | does every record name its credential; are secrets that were handed out stable and derivable across instances; do Creates collide; does the service implement the keyring; does every call return? | 2 goroutines, 2 instances with different RP ids, 1 alias, 2 authenticators (one without hmac-secret), 2 credentials, 1 salt |
| `pebble` | is each operation of a shared database, and of one with plain records only, atomic? | 2 goroutines, 2 aliases (one extends the other), 2 contents, revisions 1-2 |
| `pebble_list` (expected violation) | does List return aliases only? | 1 goroutine |
| `sqlite` | are the statements atomic operations across processes? | 3 goroutines, 1 alias, 2 contents, revisions 1-3 |
| `webauthn` | is every structure freed once, and by its call; is no usable credential given up; does a Device keep its contract? | 2 goroutines, 2 addresses, 2 credentials, every installation and request, 1 extension output looked at |
| `hmac_secret` | is a list what was found; do the device layer and the tool keep their contracts while devices come and go? | 1 process, 2 paths (one the broker), 3 kinds of authenticator, 2 credentials, 2 RP ids, 2 salts |
| `envelope_binding` | is a row that was moved or mixed refused; can what Put accepts be read? | 2 databases, 2 aliases, 6 records up to and over the limit, 2 KEK references that read alike, 3 seals, revisions 1-2 |
| `native_device` | does Cancel meet open handles only, and does every operation end? | 3 goroutines, 3 handles |

Why the bounds are enough to be interesting: two instances and two goroutines
are what a lost update, a stale publication or a losing Create needs; two draws
let two initialisers each bring a DEK; revision 2 is the first rotation, and two
rotations compete for it; in `sqlite` a third goroutine lets two swaps pass a failed
one by between its two statements, and in `native_device` it cancels between an
operation that ends and one that begins. Two addresses are what a reuse under a
reader needs. Three seals are a header, a rotation and a record, or two records and
their header. Two paths suffice for another authenticator behind a path, and for a
listing that ages; `MaxDevices` is their number, so that no enumeration of the run is cut
short. That a listing is right for any number of devices and any limit is proved.
One process runs the tool because processes share only the devices, which `World`
changes at any step.

`MaxRevision`, `MaxDraw`, `MaxCred` and `MaxNonce` are the only bounds in guards; the
addresses, handles and credentials of a run are bounds too, as a step that needs a
new one waits. The proofs hold for every value of them.

`CHECK_DEADLOCK FALSE` is set where the system may stop: in `envelope_binding` when the
seals are used up, in `native_device` when every handle has been lost to a failed open.

Fairness: a backend call, a prompt, an authenticator and a native call of libfido2
answer or fail (weak fairness of the step after them), and neither `sync.Mutex` nor
`sync.RWMutex` passes over a waiter for ever (strong fairness of the acquiring step;
Go's mutexes hand over to a waiter that has starved). Nothing is assumed about which
outcome a call has, and nothing forces a call to be made.

`close` is a divergence between code and comment: `encrypted.go:312` says Close
locks the store, but in the trace of the run an Initialize that has created the
header takes the mutex after Close has cleared the fields and released it, and
publishes the DEK (lines 123-126) before Close sets the backend to nil; the field stays
set in a store whose backend is nil. An Unlock that has loaded the header before Close
does the same (152-155), in a longer trace.

`pebble_list` is another: `lib/store/store.go:41` says List returns all aliases, and
`pebble.go:183-185` returns every key of the database, with the header's key and the
envelopes' keys once the encrypted store has used it. SQLite keeps separate tables
and does not.

## 4. Proofs

All theorems hold for every value of the constants that satisfies the named
assumptions of the module.

`EncryptedStoreProofs` proves every safety property of the runs and the refinement of
`Vault`. The argument has two layers. `ShapeInv` says which locals are set at
which step and that a rotation in progress owns the mutex of an unlocked
instance; it is inductive alone and contains `TypeOK`. `KeyInv` says that every
header in memory or in flight is genuine: it was the stored header at the
revision it names, and wraps the DEK of the stored header. `TypeOK` and the
stated properties alone are not inductive, because a header on its way from a
load to a publication is seen by neither the disk nor the fields. From `KeyInv`
each property follows in a few lines, and a step of the store maps to a step of
the vault because an envelope that opens under a genuine header opens under the
rotated one too.

`SecretsServiceProofs` proves every safety property of `service` and the refinement of
`Keyring`, for any number of goroutines, instances, aliases and authenticators.
`ShapeInv` says that a Create past its lock owns the mutex of its instance;
`CredentialInv` says whose each credential is: the one a Create has just made is its
own and in no record (`FreshInv`), a record's secret is in use (`StoredInv`), and what
a call is about to hand out is what is stored unless the alias has been deleted since
(`RequestInv`, which compares epochs). What has been handed out is of a credential on an
authenticator with the extension (`HandedInv`), so that with `SecretsAreStable`, and
credentials that have one home each, the record stored now can be derived.
`SecretsAreStable` alone is not inductive, as it does not know what calls in flight will
hand out. Most steps leave records and
credentials alone and are done by one lemma (`QuietStep`); the others have one each.

`EnvelopeBindingProofs` first proves that the additional data are injective
(`RecordAADInjective`, `HeaderAADInjective`, and no record's are a header's), that
decoding undoes encoding for every record that `encodeRecord` accepts, and that its
size is accepted, so for the code's limits too, which TLC cannot reach. It takes this
to the store: whatever rows are given back, `IInv` is kept, and with it the three
properties.

`NativeDeviceProofs` proves `IInv`, that operations own different open handles and
whoever is within Cancel holds the mutex and a running operation's handle, and from it
`CancelReachesOpenHandle`.

`PebbleBackendProofs` proves that each operation of the Pebble store is atomic, for any
number of goroutines, aliases and revisions. The argument: whoever is between check
and write holds the mutex, so that what the check has found (`Checked`) is still so
at the write; nobody else writes, and readers see one moment anyway. Keys do not
collide (`KeysDiffer` and its neighbours) if no alias is an internal key. The invariant
does not need this. The theorem `Refinement` supposes it (`NoInternalAlias`), and that
every member of `Uses` is `Separated`, which the program of `pebble_list` is not;
`MCPebbleBackend` asserts both of what the run `pebble` checks. Where plain records are
listed there is nothing else (`PlainInv`).

`SqliteBackendProofs` proves the same of SQLite, for any number of processes. One
operation has two statements, and between them anything may happen. `SwapInv` says
why the answer of the second is still the answer of one moment: headers are not
removed and revisions only grow, so that a swap that has found another revision will
not find its own again. `HeaderInv` says that the revision column is the body's, without
which LoadHeader would refuse a header the contract has.

`WebAuthnProofs` proves every safety property of `webauthn` and that the binding
implements `Authenticator`, for any number of goroutines, addresses, credentials and
salts and any limit of extension outputs. `IInv` has, per call, what it holds at each
step: a structure that was allocated for it and describes its own credential
(`Making`) or the credential and salt it asked about (`Asserting`), nothing between
calls (`Outside`), and an answer that is justified (`Told`). The stated properties are
not inductive: they do not say that a structure still describes the credential by the
time it is read, after other calls have registered theirs. Ids are not used twice, so
they may only add credentials that are of no concern to it (`OthersKeep`).
`PRFIsHeard` says why a credential that can derive is never given up: if the
structure reports the PRF at all, by flag or within the first outputs, the code finds
it. A reply of the contract is the step that sets the answer, the free of a structure
included; the reading and freeing of structures stutters.

`HmacSecretCLIProofs` proves every safety property of `hmac_secret` and that the layer over
libfido2 implements `Authenticator`, for any number of processes, paths (finitely many,
`PathAssumption`), authenticators, credentials and salts. It has three parts.

* The list: `ListIsFaithful` goes from counting the allowed locations (`RankIs`,
  `PickedIs`) to the places after the broker has been moved (`NumberedRearranges`).
* The device layer: `DeviceInv` says of each call what it holds at each step; that its
  arguments are the caller's or of its own credential (`Arguments`), and that an answer
  is justified (`Told`): a secret is of a credential that is kept, for the relying party
  asked for, on an authenticator with the extension (`Delivered`). It does not mention
  `port`, so plugging and unplugging cannot disturb it: what is plugged in counts only
  in the step of the authenticator itself. A call's steps are lemmas of their own, and
  each is a step of the contract or a stutter (`Refines`).
* The programs: `SessionInv` says that a list on the screen is of one enumeration and that
  nothing is open while it is there, `CommandInv` that the derivation under way is for
  the relying party of the flags. The stated properties are not inductive without
  them: `PrintedSuffices` would not know what an answer is about. `ProcessStep` reduces
  each action to what it does to its own process.

Assumptions on the constants are of two kinds. `NULL`, which stands for an empty value,
is none of the values (`NullAssumption`, `AnswerAssumption`), and a salt of another length
than 32 is not one of 32 (`SaltAssumption`): these are about how values are written
down. The others are about the code's callers and are explained in section 2.

Model-checked only: the liveness properties (`returns`, `service`, `native_device`), which
need fairness and are out of the prover's reach. Every safety property, action
property and refinement that a passing run checks is proved.

## 5. Plan

1. `Vault`, `EncryptedStore`; `Keyring`, `SecretsService`; `RecordCodec`, `EnvelopeBinding`;
   `NativeDevice`; `EnvelopeBackend`, `PebbleBackend`, `SqliteBackend`; `WebAuthn`;
   `DeviceListing` up to `HmacSecretCLI`: modelled, checked and proved.
2. Next: what joins the layers. That the map of `Vault` is the store `SecretsService` calls,
   and that the atomic backend is the one `EncryptedStore` calls, is argued in section 2
   and not proved.

## 6. Not modelled, and why

* The vendored native code, and the operations of `fido2.go` between open and close
  (`LibfidoDevice` has their effects): C code behind cgo.
* The command `secrets`: it opens a store, makes one call of the service modelled in
  `SecretsService`, and closes the store.
* Prompts, hidden input, flag syntax, wording of errors, logging, time-outs as
  numbers, client data and the layout of Windows structures: no property is about
  them.
* Has, List and Header of the encrypted store and Has and List of the service: single
  reads that change nothing. (List of the backends is modelled.)
* Validation that returns before anything shared happens, except where it decides
  what can be stored or derived. Blanks are trimmed beforehand.
* The contents of nonces and ciphertexts, and memory locking by memguard.
* What a failure of the user's making leaves behind: a credential whose creation was
  reported as failed, or whose record was not stored, stays on its authenticator in
  the models as it does in fact; no property says otherwise.
