# A TLA+ model of pkcs11-go

pkcs11-go binds Go programs to PKCS #11 modules: native libraries, supplied by
the vendor of a hardware token, that are loaded at run time and called through
cgo. These modules model the parts of it that keep state and meet concurrency
or failure: who may be in the native library when, who owns a block of native
memory, what a session is doing, and what a Go caller can conclude from a
result. TLC checks them on small instances, and TLAPS proves the main
invariants for instances of every size.

Paths below are relative to `src/`.

## The system

| Part | State | Operations | Interacts with | What makes it right |
|---|---|---|---|---|
| `cryptoki.Ctx` (`binding.go`, `lifecycle.go`, `slot.go`) | RWMutex `mu`, native `module`, wait group `waiters` | `New`, `Initialize`, `Finalize`, `Destroy`, `SupportsV32`, `WaitForSlotEvent`, and some sixty calls under the read lock | the native library; every other part | no use after unload; lifecycle calls are exclusive; nobody is stuck |
| Native shim (`shim.c`) | function lists, `dlopen` handle | load, negotiate, one wrapper per function | the module | the list used is the one negotiated |
| `outOp` and marshalling (`marshal.go`) | one native buffer per call | two-pass output, C copies of Go data | the module, which writes lengths back | buffers scrubbed and freed; success means the call was executed |
| `GCMParams` (`params.go`) | native block, `inUse`, `freePending`, mutex | `build`, its cleanup, `IV`, `Free` | `EncryptInit`, `DecryptInit`; the token, which may write the nonce back | not freed under a reader, freed once, not forgotten |
| Other parameters (`params.go`) | none | OAEP, PSS, ECDH blocks | `cMechanism` | faithful conversion |
| Session operations (`sign.go`, `crypt.go`, `digest.go`, `combined.go`, `object.go`, `v32.go`) | in the token: the active operations of each session | Init, one-shot, Update, Final, and the combined updates | `outOp`, the policy | the caller can tell what is still active |
| Policy (`policy.go`) | a process-wide function | set, check a mechanism and its hashes | every Init and key operation | every mechanism is checked |
| Attributes, lists (`object.go`, `slot.go`) | none across calls | count, then fetch | the module | a change between the two is survived |
| Keys and KEM (`key.go`, `wrap.go`, `v32.go`) | objects in the token | generate, wrap, derive, encapsulate | `outOp`, templates | no object is lost |
| `p11.Module` (`p11/module.go`) | `closeOnce`, `closeErr` | `OpenModule`, `Close`, queries | `Ctx` | finalised and unloaded once; one error for all |
| `p11` sessions, objects, keys (`p11/*.go`) | mutex, `closed`, handle | the operations as whole methods | `Ctx`, one token session | no method on a foreign session or a foreign operation |
| Secure defaults (`p11/defaults.go`) | none | completes templates | key creation | the caller's value wins |
| `cmd/genconst`, generated tables, `internal/` headers | none | offline generation | the build | – |

What is hard here is where two of these meet: a slot-event wait that runs
without the lock while another goroutine unloads the library; a length that
the module overwrites while the binding still needs it; a block freed while
another goroutine's Init reads it; a handle that the token gives out again; an
operation left active by a call that reported an error. `PROJECT.json` lists
these hazards line by line with the properties that cover them.

## The modules

**`ModuleAccess`** is the abstract promise of a Ctx: goroutines are out of the
library, or in it for a call, a wait or a lifecycle call; a lifecycle call
shares it with waits only; it is unloaded once, empty. No locks.

**`Ctx`** is the locking code, one action per step that another goroutine can
see. `RLock`, `LockAnnounce`, `LockAcquire`, `RUnlock` and `UnlockReturn` are
Go's RWMutex, whose order of admission matters: a writer announces itself,
later readers queue, Unlock admits them all. `GrabClosed` and `GrabCall` are
`grab`; `WaitAdd` to `WaitDone` are the lines of `WaitForSlotEvent`, with the
lock dropped between `Add` and the C call; `LifecycleEnter`,
`InitializeReturn`, `FinalizeReturn` are `lifecycle.go`; `DestroyDrain`,
`DestroyUnload`, `DestroyReturn` are `Destroy` with its wait on `waiters`
inside the lock. The native module is two flags: `mapped` and `initialized`.
A lifecycle call fails whenever it likes. What any other call does is left
out, being inside is not.

**`P11Module`** extends `Ctx`: `OpenModule` with its failure path, `Close`
under `sync.Once`, and calls in flight.

**`GCMParams`**: one parameter block. Every body that runs under `p.mu` is one
action; `build`'s return statement, which reads `p.gp` after the unlock, is one
of its own. An operation of a goroutine goes from `build` through the C Init
call and the cleanup to the C Encrypt call. **`SharedBlock`** is what it promises, with
no lock, counter or flag: a block that is freed once, in the step that finds it asked
for and unused. A user of the block is a goroutine between `build` and its cleanup.

**`OutOp`** is `outOp` statement by statement. The module answers each call with
any code and any length. `exact` remembers whether each buffer was scrubbed
over precisely its allocation, and `due` whether the token still has to execute
the call.

**`SessionOps`** is the abstract specification of the operation methods: what
the token has active in a session, next to what the caller must believe from the
results. There is one definition per method of `Ctx`, each an instance of a few
shapes (`Start`, `Continue`, `Finish`, `Output`). An output method is two steps:
the answer to its sizing pass, and a data pass that is one of `DataOK`,
`DataError`, `DataLimit` and `DataOverclaim`.

**`SessionOutput`** is the detailed one: the same methods over `OutOp`. `Begin` is
the sizing pass, `Data` a call that the token executes or answers with
CKR_BUFFER_TOO_SMALL, `Local` the Go code between calls, `Finish` the return of
the method. It implements `SessionOps` (`OpsSpec`) under the mapping that shows
the operations of a running method as active until it returns, and keeps
everything else.

**`P11Session`**: goroutines, Sessions and the handles of the token. Every
method has one of five shapes: `Crypt` (Init and operation: `key.go`), `Object`
(check and one call: `object.go`, creation, wrap, derive), `Plain` (one call,
no check: `Login`, ...), `Find` (a search) and `Close`. A search is ended by
`FindObjectsFinal`, which the module may refuse; the operation is then `Stuck` in the
session, nobody's, until the session is closed. A handle that was closed
may be given out again. **`IdealSessions`** is the abstract promise: no mutex, no flag
and no handles, every Session a token session of its own, that one goroutine uses at a
time, until `CloseAllSessions` is called. Under the mapping a Session is new without a
handle, open until the flag is set, then closing, and gone when its handle no longer
denotes it; its user is the goroutine that is in the module with a checked method or
Close; its active operation is that of its handle.

**`Attributes`** is `GetAttributeValue`: the sizing call, the buffers, the second
call that overwrites their lengths, the copy and the scrubbing. Between the calls
the object may change in any way. The module answers by the rules of PKCS #11
or anything at all; `honest` remembers which. Lengths are CK_ULONGs without a limit, and
a value is copied by a length of type C.int, which wraps (`Copied`, `MaxInt`). An
allocation that fails panics before the cleanup is deferred (`OutOfMemory`); `filled` is
the set of buffers that the module was given and may hold a value.

**`Lists`** is `GetSlotList` and `GetMechanismList` (`GetList`: count, limit, fetch,
copy) and the search loop of `p11.Session.FindObjects` with `Ctx.FindObjects` in it
(`FindObjects`: batches until one is empty). Slots come and go between the two
calls (`TokenChanges`). A list is abstracted to its length, because what can go wrong
is the number of entries; `truthful` remembers whether the module kept the rules.

**`CKULong`**, **`SecureDefaults`** and **`AttributeNames`** are pure: numbers in the
width and byte order of a platform's CK_ULONG, `withSecureDefaults` and its seven
callers (to create, generate, unwrap, encapsulate, derive or decapsulate), and genconst's evaluation of
the header's defines (a define stands for a set of bits and names; how it is written is
left out). **`Marshalling`** is one call of one of these helpers, or of `Attributes` or
`Lists`, with the properties that compare the pure ones with what they are meant to
compute.

**`Loader`** has several `p11.Module`s on one path. `Dlopen` to `Loaded` are
`ck_load` with its failure paths and `ck_resolve_v32`; `Initialize` to `Destroy` are
`OpenModule` and `Close`. The linker maps a library once and counts handles
(`refs`); the library's own state (`initialized`) is shared and dies with the
mapping; a list of function pointers is live or dangling. What a library
exports, which interfaces it offers, which is its default, whether it honours
the version it is asked for and whether it stays mapped are chosen at the start.

**`Policy`** is the process-wide mechanism policy and the way of one Mechanism
through it: constructed (each identifier it names is checked) or written as a
literal, perhaps changed, and checked again by `cMechanism`, one identifier at a
time, while other goroutines install other policies. A policy is the set of
identifiers it allows. `since` collects the policies in force during the last
check. **`KeyCreation`** extends it with the methods that go on from there to
create a key: `EncapsulateKey` with its own two passes, and those of one call.

The modules named `*Proofs` hold the proofs, the `MC*` modules the constants of
the runs. Definitions called `X_Something` are plausible slips in `X`; each is
the evidence that some property would notice it.

## The runs

| Run | Instance | Shows |
|---|---|---|
| `ctx` | 3 goroutines, any methods, for ever | `CtxInv` (with the types), `NoUseAfterUnload`, `NoAddDuringWait`; the refinement `AccessSpec`; `DestroyReturns`, `CallsReturn` |
| `ctx_race` | 2 goroutines | finding 1 |
| `p11_module` | 3 goroutines, all may close | `CloseMeansUnloaded`, `CloseErrSettled`, `OpenSettles`, `CloseReturns` |
| `gcm` | 3 goroutines, one block | `GCMInv`, `InitReadsLiveBlock`; the refinement `SharedSpec` |
| `gcm_active` | 3 goroutines | finding 2 |
| `session_output` | 1 session, 7 operations, at most 2 at a time; limit 3 bytes, 3 retries, lengths 0 to 5 | `OutOpInv`, `BufferScrubbed`, `SuccessIsExecuted`, `ResultsTellState`; the refinement `OpsSpec`; `MethodsReturn` |
| `p11_session` | 2 goroutines, 2 Sessions, 2 handles, `CloseAllSessions` at any time | `OwnHandleOnly`, `SearchesEnd`; the refinement `IdealSpec`; `GoroutinesReturn` |
| `p11_session_close_all` | the same | finding 3 |
| `marshalling` | templates of up to 2 attributes, lengths 0, 1, 2 and 9, a C.int of 3 bits; lists of up to 5, limit 3, batches of 2; every CK_ULONG of up to 4 two-valued bytes; templates of up to 3 attributes; headers of 3 defines | `BuffersScrubbed`, `ValuesComplete`, `NilIsExplained`, `ErrorTellsHidden`; `ListIsWhole`, `PanicOnlyOnOverclaim`, `SearchEnds`; `NumbersSurvive`, `MarkerIsRecognised`; `DefaultsFillGaps`; `NamesAreCurrent` |
| `attributes_wide` | templates of up to 2 attributes, lengths 0, 1, 2, 4 and 9, a C.int of 3 bits | finding 4 |
| `key_creation` | 2 identifiers, all policies, up to 2 digests, lengths 0 to 4, limit 3 | `PolicyHolds`, `NoOrphanKey`, `SuccessIsWhole` |
| `loader` | 3 Modules on one path, interfaces 3.0, 3.2 and 4.0, any library | `HandlesBalanced`, `OpenIsUsable`, `V32Negotiated` |

The bounds. The worst interleavings of `Ctx` need three roles: a wait in the
library, a lifecycle call, and a third goroutine that queues.
Two builds and a Free are needed to defer a free and join late; the third
goroutine is spare. In `session_output` the lengths include zero, the limit, one
byte over it and more, and three retries leave the loop each way. Sessions share
no variable but `open`, so one session reaches every combination; the methods use
one or two operations, so two of the seven active at a time (`maxActive`) let each
method meet its own and a foreign one. Two handles and two Sessions
let a handle be reused while its first Session is referenced, and let both
Sessions be open at once. Two attributes are enough for one to hide what
happened to the other, and lengths up to 2 let a value grow, shrink and become
empty. A C.int of three bits holds these; of nine bytes it keeps one, as the real one
keeps k of 2^32+k, and four bytes (in `attributes_wide`) are negative to it, as 2^31 is to
the real one. In `key_creation` the two identifiers can be judged differently by two
policies, and the lengths lie on both sides of the true one and of the limit.
The lists reach past the limit (3) and past every buffer; a search of up to five
objects takes full, short and empty batches, and `maxFound` stops only a module
that breaks the rules and never ends. A byte of two values and a uint of four of
them have every relation that the 8-byte uint and the 4- or 8-byte CK_ULONG have,
and the run converts every number, -1 and one that does not fit. Three attributes
let one be set twice or be nil, three defines let two of them collide with an
alias between or after. Two Modules suffice for one to disturb the other, the
third fails its `OpenModule` meanwhile.

Every bound is a constant of a module: `maxActive` and `maxFound` are bounds of the
model, the others stand for a limit of the code. `waiters`, `inUse`, `retries`,
`calls` and `refs` are bounded by the model itself.

Deadlock is checked except in `marshalling` and `attributes_wide`, which end when
the method returns, and in `p11_module`, where an OpenModule that failed leaves
nothing to do.

## Fairness

Weak fairness of a goroutine's own steps says that Go runs every goroutine that can run
and that calls into the native library return. A blocking slot wait is the exception: it
returns at a slot event, which nobody promises, or when it finds the module finalised,
which is a step of its own (`WaitWoken`). Lock acquisition between writers
(`LockAnnounce`), and of a Session's mutex, is strongly fair: Go's `sync.Mutex` hands
itself to the longest waiter when one starves. In `P11Session` the weak fairness of a
goroutine's steps implies that a search comes to its last batch, since `FindBatch` changes
nothing: `GoroutinesReturn` rests on a module that runs out of matches. It does not need
the module to end the search. `SearchEnds` (`Lists`) says what that takes: the search
has weak fairness, and ends or the module has broken the rules. In `SessionOutput` a
method that has been called is weakly fair; the answers of the module are not
constrained, so its `MethodsReturn` holds also for one that answers CKR_BUFFER_TOO_SMALL
for ever. Calls are never forced to be made.

`CallsReturn` says what the code gives and no more: `Destroy` with a wait
parked in an initialised module holds the write lock and freezes the Ctx, as
its comment warns; nothing else does.

## What is proved

All proofs are for arbitrary constants under the assumptions the modules name:
`ThreadsAssumption` (a finite set of goroutines that does not contain
`NoThread`), `ThreadsFinite`, `OutOpAssumption`, `P11SessionAssumption`,
`PolicyAssumption`, `KeyCreationAssumption`, `LoaderAssumption`, `AttributesAssumption`,
`ListsAssumption`, `CKULongAssumption` (a byte has at least two values, a uint at least
one byte), `NilAssumption` (a nil pointer is not an attribute) and
`MarshallingAssumption` (the numbers are integers, templates and headers are sequences,
of any length). The inductive invariants include the type invariants.

* `CtxProofs`. The inductive invariant is `TypeOK /\ CtxInv`: the readers are
  exactly the goroutines between RLock and RUnlock, the writer is the one
  goroutine in a write section, readers and the holder of the write lock
  exclude each other (`LockInv`); `waiters` is the number of goroutines between
  `Add` and `Done` (`WaitersInv`, a cardinality, which is why the set must be
  finite); the library is mapped while `module` is non-nil except between
  `ck_unload` and the assignment, and whoever waits is counted
  (`LibraryInv`). `NoUseAfterUnload` alone is not inductive: that `Destroy`
  finds nobody inside needs both the exclusion and the count. From it follow
  `UnloadIsSafe`, `LifecycleIsExclusive`, the action property
  `WaitGroupUsedByItsRules`, and `CtxImplementsModuleAccess`, step by step.
  The second part is about `P11Module`. Each of its steps is a step of `Ctx` or changes
  nothing there (`ModuleIsCtxCaller`), so a Module inherits all of this, the refinement
  included (`ModuleImplementsAccess`). `PInv` adds how
  far Close has come (`ProgressInv`: a caller has returned only when `once` is done, and
  then the library is gone) and who may finalise (`LifecycleInv`: the one goroutine that
  runs the function of `closeOnce`, while no error is recorded). `CloseUnloads` and the
  action property `CloseErrIsSettled` follow; the first needs `LibraryInv` of the Ctx,
  the second the exclusion of a second `Initialize`.
* `GCMParamsProofs`. `TypeOK /\ GCMInv`: `inUse` counts the builds in flight;
  the block is freed exactly when `gp` is cleared; while a build is in flight it
  is not. Hence `InitIsSafe`: reading `p.gp` outside the lock is harmless,
  because the increment before the unlock keeps it. `GCMImplementsSharedBlock` needs
  also that a free is pending exactly while one was asked for and the block is there
  (`PendingInv`): a pending free survives a late `build`, and the last cleanup is the
  step in which `SharedBlock` frees.
* `SessionOpsProofs`. `TypeOK /\ ResultsTellState`, strengthened by what the
  data pass finds (`PendingInv`), is kept by each shape of method; the methods are
  instances.
* `SessionOutputProofs`. First `outOp` alone: `OutOpInv` relates the place in the
  function to the live buffer, the number of calls and whether the token has executed the
  call. It is proved as action lemmas, which the methods then use; `CallsAreBounded`
  follows. `IInv` joins `OutOpInv` to the session: a method is pending
  exactly from its sizing pass to its return, and where `outOp` is tells what the token
  has made of the call (`CallInv`: untouched, executed, or ended by an error). Under the
  mapping each step is a step of `SessionOps` or a stutter: `Begin` is `Output`, `Data`
  and `Local` change nothing that the abstract session shows, `Finish` is the outcome
  that `outOp` returned (`MethodsImplementOps`). `ResultsAreTruthful` is then inherited
  from `SessionOps` through the mapping.
* `LoaderProofs`. The handle count is the number of Modules that hold a handle
  (`RefsInv`, a cardinality again); a Module has live lists exactly from
  C_GetFunctionList to Destroy (`ListInv`); at most one Module is open, and the library
  is then initialised (`OpenInv`). `OpenStaysUsable` rests on that uniqueness: whoever
  failed to initialise the library calls Destroy and never C_Finalize, and gives back
  a handle that is not the last. `V32IsNegotiated` follows the two lookups (`V32Inv`).
* `P11SessionProofs`. `BaseInv` says that whoever is past the lock holds the
  mutex of its Session (`MutexInv`) and that every active search belongs to a
  goroutine still in `FindObjects`, unless the module refused to end it (`SearchInv`);
  `SearchesAreEnded` follows.
  `OwnInv` adds that an open Session's handle denotes it and that a `Close` in
  the module has set the flag (`HandleInv`); `swept` records that
  `CloseAllSessions` was called, and all of this is claimed until then.
  `HandlesAreOwn` and `OperationsAreOwn` (`NoCrossTalk`: the call that ends an operation
  ends the one its goroutine started) follow: what makes them true is the
  mutex, the flag set before `C_CloseSession`, and a token that starts no
  operation over an active one. `LinkInv` adds the converse of `MutexInv`, that nothing
  is active under a closed handle, and that a Session in which a checked method is stays
  open. With it every step is one of `IdealSessions`, or shows nothing
  (`SessionsAreIdeal`): one lemma per action says which.
* `KeyCreationProofs`. For the policy, `CheckInv`: while a check runs, each
  identifier of the Mechanism is still to be asked about or was allowed by a
  policy in force since the check began. For the keys, `KeyInv`: where the
  method is tells which key exists. `PolicyIsEnforced`, `FailuresLeaveNoKey` and
  `SuccessesAreWhole` follow.
* `MarshallingProofs`. For GetAttributeValue: the buffers live from the allocation to
  the deferred cleanup and have the sizes that were saved (`BufferInv`); with a module
  that keeps the rules these are the sizes of the first call (`SizedInv`), and the list
  that the second call leaves is what the object held then, or unavailable where it has
  outgrown its buffer (`FetchedInv`, `CollectedInv`). What is copied of a value is the
  whole of it when a C.int holds its length (`CopiedLength`), for any greatest C.int.
  The four properties follow by comparing the two calls. An allocation that fails loses
  only buffers that the module was never given (`filled` is empty until the second
  call). For the lists, `ProgressInv` says what a module that keeps the rules has told
  at each place; `ListsAreWhole` and `PanicsAreOverclaims` are parts of the invariant.
  The pure functions come first, for arguments of any size. Their tables are defined by
  recursion, so an induction is needed; it is made by hand, from the least element of a
  set of naturals (`LeastElement`, `UpTo`), and `Recursion` shows that a recursive
  definition has the table it describes. From there: a number is the sum of its digits,
  place by place (`LowerOfDigits`, for `NumbersComeBack`; the greatest number of a width
  is its marker, for `MarkersAreRecognised`); the three steps of `withSecureDefaults`
  each complete the template or find it complete (`FillCompletes`, for `GapsAreFilled`);
  define by define, the values that are known solve the defines (`EvaluateSolves`) and
  the name of a value is the last that is not an alias (`OneMore`, `AllNamed`, for
  `NamesAreTheCurrentOnes`). `PureInv` says of a behaviour of `Marshalling` that its
  output is that of one of these functions.

Only model-checked: liveness (`DestroyReturns`, `CallsReturn`, `OpenSettles`,
`CloseReturns`, `GoroutinesReturn`, `MethodsReturn`, `SearchEnds`), which the prover
does not do under fairness.

## Where code and documentation disagree

1. `lifecycle.go:42` promises that Finalize cannot race a concurrent operation.
   `WaitForSlotEvent` gives up the lock for every flag, so a `CKF_DONT_BLOCK`
   poll can be in the module during `C_Finalize` (`ctx_race`).
2. `CHANGELOG.md:61` says that Free cannot take the block from an active
   `Encrypt`. It can: `inUse` covers Init only (`gcm_active`). The comment on Free
   asks callers to wait; the changelog promises more than the code does.
3. `p11/session.go:27` says that a handle cannot be used after its session is
   gone. `Slot.CloseAllSessions` sets no flag (`p11_session_close_all`).
4. `cryptoki/object.go:223` says that a value is copied only when its length fits the
   C.int that C.GoBytes accepts. The code converts first and tests the result
   (`object.go:230`), and no limit bounds the length: of a value of 2^32+k bytes the
   caller gets k bytes and no error, and nil for one of 2^31 bytes (`attributes_wide`).
   `outOp` and `EncapsulateKey` are not affected: they refuse such lengths.

Observations that no run isolates.

* `params.go:120` says that build "Panics if called after Free"; after a Free that was
  deferred it does not, because it tests `gp` and not `freePending`. Such a build
  postpones the free, perhaps again and again.
* `p11/object.go:22` says that Attribute fails if the token reports the attribute as
  unavailable or sensitive. It also fails, with the text "unavailable", for an attribute
  that is there and empty: an empty value comes back nil (`NilIsExplained`).
* Between the sizing pass that reported zero and the data pass, `outOp` allocates one
  byte and advertises none. A module that nevertheless claims to have written one byte
  is accepted, because the length is compared with the allocation (`OutOpInv` allows it).
* `EncapsulateKey` passes NULL a second time when the sizing pass reported 0, so that
  its data pass creates no key and success comes with the handle 0: `SuccessIsWhole`
  names the exception. `outOp` takes care of that case with a buffer of one byte.
* `p11/session.go:148` says that GenerateKeyPair adds CKA_PRIVATE to the public
  template. It adds nothing to it; `p11/defaults.go:18` and `p11/hardening_test.go:62`
  agree with the code, so that the comment is what is wrong. `CreateObject`, on the other
  hand, adds the attributes of private keys to whatever object it creates.
* `FindObjects` ignores the answer of FindObjectsFinal when a batch has failed
  (`p11/session.go:183`), and returns it otherwise. Where the module refuses to end the
  search, the next search on the session is refused, too (`Stuck`).
* `cryptoki/object.go:281` says that a slice shorter than `maxObjects` means that the
  search is exhausted. PKCS #11 does not say so, and `p11.FindObjects` does not rely on
  it: `ListIsWhole` allows short batches.
* `slot.go:76` bounds the count before allocating; the slice at line 88 is allocated by
  the count of the second call, which has no bound. A module that claims more than it
  was given room for is met by an index out of range (`PanicOnlyOnOverclaim`). A list
  that grew between the calls is an error, with no second try.
* `BytesToULong` extends a short value with zeros at the end of the buffer, which is
  the value on a little-endian machine only (`NumbersSurvive` says so).
* `shim.c:35` says that calls go through the newest list a module advertises. A module
  that has 3.2 and a newer default is called through 3.2. One that offers only a
  version above 3.2 by name, and an older default, counts as having none
  (`OffersV32` is exactly what the two lookups find).
* Login, Logout, the PIN methods, `GenerateRandom` and `FindObjects` of a p11 Session do
  not check the closed flag (`Plain`, `Find`); after Close they may meet a handle that
  the token has given out again. The documentation promises the check for objects.

## Not modelled, and why

* `SetOperationState` replaces what is active by what a blob says; only the token
  knows what that is, so nothing could be claimed after it.
* `cAttributes`, `cBytes` and the OAEP, PSS and ECDH parameter blocks copy Go data to C
  memory that lives for one call. `cMechanism` allocates before `build`, which may
  panic and then leaks the copy; no state of the binding depends on it. The panic of
  `cMalloc` for want of memory is left out as well; that of `GetAttributeValue`, which
  allocates what the module says, is `OutOfMemory`.
* Random, PIN and login calls are one call each, with no state in the binding: `Call`
  in `Ctx`, `Plain` in `P11Session`. Who is logged in is the token's business.
* `FindObject` and the `Find*Key` methods count or filter what `FindObjects` returned;
  `Session.Info`, `GCMParams.IV` and the info getters read only.
* `Wipe`, `Mlock` and `Munlock` are system calls on memory the model does not have.
* Generated tables and vendored headers, the texts of errors, and the reading and
  writing of text in `cmd/genconst`. Its choice of names is in `AttributeNames`.
* A crash of the process: nothing is persisted, so there is nothing to recover.
* `P11Session` over `Ctx`: a p11 method adds a mutex around Ctx calls, and a Ctx call
  needs no p11 mutex to make progress, so the two locks nest in one order only. Each
  side is modelled; their product would add states and no new order.
