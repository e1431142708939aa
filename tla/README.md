# TAWS: verification of the attester

TAWS runs WebAssembly applications in an SGX enclave and installs them over
TEEP: the device's *attester* talks to a Trusted Application Manager (TAM),
proves what it is with SGX evidence, receives SUIT manifests with the
applications in them and runs what was installed. This directory holds TLA+
models of that program, the TLC runs that check them and proofs, checked by the
TLA+ proof system, of every safety property the passing runs check, for every
value of the constants.
All line numbers and paths are of the repository; every definition's lines are in
the `map` of `PROJECT.json`.

## 1. The system

| Component | Code | State it keeps | Operations |
|---|---|---|---|
| Trusted Component ledger | `Enclave/src/tc_manager.cpp` | an array of 20 records, its length | store manifest, store payload, check and update, list, look up by name and by digest, remove all |
| SUIT callbacks | `Enclave/src/suit_processor_wrapper.cpp` | the last SUIT report (`g_suit_report`) | store, condition (image match), report, invoke (empty) |
| Update processing | `process_update` in `Enclave/src/Enclave_process_message.cpp` | none of its own | one libcsuit processor per manifest, finalisation, the answer |
| TEEP agent | the rest of `Enclave_process_message.cpp` | `g_agent_status` | `ecall_process_message`: QueryRequest, Update, encode, sign |
| Key store | `Enclave_generate_keypair.cpp` | key pair, `g_key_state`, who owns each buffer | generate, set the built-in pair, free |
| Wasm runtime | `Enclave_wasm.cpp` | whether WAMR is up, the one loaded module | `ecall_invoke_wasm` |
| Evidence | `Enclave_generate_evidence.cpp`, `App/src/dcap_quote_ocalls.cpp` | none | claims, SGX quote, evidence payload |
| TEEP session, HTTP client | `App/src/sgx_teep_session.cpp`, `teep_http_client.cpp` | a session's buffers and two sticky flags | POST, ECALL, loop until the TAM ends it |
| Attester API | `App/src/attester_api.cpp` | `g_initialized`, `g_key_ready` | init, log level, install, invoke, close |
| Web front end | `yolov8-frontend/web.go` | a mutex, the worker and its channel | `/teep`, `/detect`, `/` |
| Command line, cgo bridge | `yolov8-frontend/main.go`, `attester_c_bridge.go` | where it is | initialise once, install, detector, exit |
| Logging, EDL, build, TAM mock | the rest | none that is read back | |

How they interact. A request on `/teep` takes the mutex, initialises the enclave
if there is none and runs a TEEP session: an empty POST, then each message of
the TAM goes into the enclave with `ecall_process_message` and the answer goes
back with the next POST, until the TAM answers 204. In the enclave a QueryRequest
is answered with a QueryResponse (with evidence if challenged, with the tc-list
if asked for), an Update with Success or Error. `process_update` hands each
manifest to libcsuit, which calls back into the SUIT wrapper, and that stores
into the ledger; then the record is finalised. A request on `/detect` goes over a
channel to one worker, which takes the mutex and calls `ecall_invoke_wasm`; the
runtime looks the application up in the ledger, (re)loads it if its hash
differs from the loaded one, and calls it twice, for the size and for the output.
The command line makes the same calls one after the other. Evidence is made inside a QueryRequest:
report data from the agent's public key and the challenge, a report, and through OCALLs a quote of it.

What is hard in it:

* **Partial failure.** A store writes a record in several steps, an envelope
  makes several stores, an Update has several manifests, loading a module takes
  three allocations; each may fail, and what the earlier steps wrote is then met
  by other components (lookups, the tc-list, the next Update).
* **State that outlives the call it belongs to.** The agent status, the SUIT
  report, the loaded module, the two initialisation flags and the ledger are
  globals; a session that is cut off leaves them where they are.
* **Reused slots.** Records move by swaps and are taken again without being cleared.
* **Concurrency on the host.** HTTP handlers and the worker share one enclave with one
  thread control structure; the worker starts without the mutex.
* **Ownership by convention.** Records, keys and evidence hold heap blocks that pointers and flags own;
  swaps, error exits and static arrays decide whether each is freed once.
* **The network.** Requests and responses are lost, and a response can be larger than the buffer.

What makes each component correct, in short: the ledger is a map keyed by
manifest digest that never loses a newer finished application; a Success means that
every application of the Update is there, verified and as new as asked; no Update
touches another application; Updates are processed only after a QueryResponse; a
tc-list sent is exact; a key that is ready is one key, and evidence is about this challenge and that key; what runs is the image the ledger has now; no path of an
invocation leaks; a session reports every Error and loses no answer silently; one
enclave, one caller in it, and every HTTP request is answered.

`PROJECT.json` lists under `hazards` the places in the code where these can go
wrong, each with the properties that watch it.

## 2. The modules

```
TcRecord ── the record type, shared by all
   │
TcLedger ◄──refines── TcManager
                      ▲      ▲ TC
                TcBuffers    │                  KeyStore
                             │                     ▲
UpdateService ◄──refines── ProcessUpdate        Evidence
                       ▲ PU   ▲ PU
                TeepAgent     WasmRuntime       WebFrontend
                   ▲ AG                            ▲
              TeepSession                       CommandLine
```

Each `MCx` module gives the constants of module `x` values for TLC. The theorems are in modules of their own,
and those of a module that composes others rest on theirs:

```
TcManagerProofs ◄── TcBuffersProofs             EvidenceProofs (with KeyStore)
      ▲ TP
ProcessUpdateProofs ◄─PP─ TeepAgentProofs ◄─AP─ TeepSessionProofs
      ▲ PP
WasmRuntimeProofs                               CommandLineProofs (with WebFrontend)
```

**TcRecord** (`tc_manager.cpp`, `tc_list_types.h`): a record, with a missing
buffer as a `No...` value; an image and its SHA-256 are one value, so two
different images always differ in hash. `IsComplete` is `record_is_complete`.

**TcManager** (`tc_manager.cpp`): `records` is the array, slots from 0, `record_len`
its length, `rc` what the last call returned. `StoreAManifest`, `StoreAPayload`, `StoreFails`,
`Finalise`, `ReadList`, `RemoveAll` are the calls of the API with all they do;
`StoreFails` has the exits that leave the table as it was (table full, no memory,
bad arguments). The failed allocations between two writes of a store
are part of the two stores. `remove_at` swaps with the last and zeroes, as the code does.

**TcLedger**: what the table promises, without slots: a bounded map from digests
to records. `Write`, `DropIncomplete`, `Resolve`, `Accept`, `Report`, `Clear`,
`Refuse`. `TcManager!ImplementsLedger` is the refinement, under the mapping
`LedgerView` (digest of an active slot to its record).

**TcBuffers** (the `malloc` and `free` calls of `tc_manager.cpp`): the calls of `TcManager`, each with the blocks it
allocates and frees; `live` counts the blocks of each kind. It adds one variable and constrains none of the table's.

**ProcessUpdate** (`process_update`, the SUIT callbacks): one action per argument check,
set-up, callback, end of envelope, report and finalisation. libcsuit is external: it may call the two
store callbacks in either order, the match after the payload, deliver a report or not, and
stop at any point. `Faults` says which of four failures a run allows: `memory` (an allocation),
`setup` (contexts, keys, processor), `envelope` (libcsuit stops), `payload`
(the payload is not the one the manifest describes).

**UpdateService**: what an Update promises, in three steps: `Receive`, `Decide`, `Deliver`. `Decide` picks an
answer and a new set of records that are related by `Effect`: only records of the manifests and applications sent are
touched; no finished application is lost or replaced by an older one, even by an Update that fails; a Success
means everything sent is there, complete and verified; and only `MANIFEST_PROCESSING_FAILED` leaves unfinished or
doubled records. `ProcessUpdate!ImplementsUpdateService` is the refinement, under `Seen` (the
records at the call while one runs, else those in the table) and `Answer`.

**TeepAgent** (`ecall_process_message`, `process_query_request`, key state): a call
that processes no Update is one action, one that does is `EcallUpdate`, the
steps of `ProcessUpdate`, and `EcallUpdateReturns`. `Send` is the common tail: the
status moves with the type of the message, then encoding and signing may fail. An Update while a QueryRequest is awaited
leaves `send_message` uninitialised; its type is any of `StackValues`.

**KeyStore** (`Enclave_generate_keypair.cpp`): `agent_sign.key` with where each of its pointers points, the static
arrays, the ownership flags, the TAM's key. `stage` is where a key operation fails, `Abort` what `free()` does
with an address that is not of the heap. `TeepAgent` uses only its outcome.

**Evidence** (`Enclave_generate_evidence.cpp`, `dcap_quote_ocalls.cpp`): one request for evidence after another, of the
DCAP or of the generic build (`SGX_EVIDENCE`), one action per OCALL, allocation and encoding; between
requests any key ECALL, at any time a new process. An OCALL has two statuses, and its out parameters
are copied back when the bridge works, even if the call failed. `quote_buf` keeps its content while it is
free: `malloc` may hand out the same block again.

**WasmRuntime** (`ecall_invoke_wasm`, `ensure_wamr_running`,
`reset_wamr_loaded_module`): one action per WAMR call, allocation and check, between the
Updates that change the ledger. `live` counts copies, modules and instances that exist, owned or
not; `held` is what the call must give back.

**TeepSession** (`run_teep_session`, `teep_send_http_post`, `write_callback`): a
session around `TeepAgent`, with TAM and network as environment. While times are rough the
TAM sends anything and messages are lost; at some time they become calm: nothing is
lost and the TAM behaves as the mock server does (QueryRequest, Update, 204). In calm times the agent does not fail
on a message it can read (`Sane`), nor libcsuit by itself (`SaneStep`); nothing is assumed about
the state the rough times left.

**WebFrontend** (`web.go`, `attester_api.cpp`, `sgx_enclave_init`): the two
handlers and the worker as threads with program counters, the mutex, the unbuffered channel, the two initialisation
flags. A session and an invocation are one step with either outcome: their inside is the modules above.

**CommandLine** (`main.go`, `attester_c_bridge.go`, `attester_close`): the program as either of its two modes. `cli` is
where the command line is; in the other mode the steps are those of `WebFrontend`. When the command line has ended the
program may be started again.

## 3. The runs

| Run | Module and cfg | Question |
|---|---|---|
| `ledger` | MCTcManager, `TcManager_table.cfg` | does the slot table keep its invariants, behave as the map and free each block once, for every sequence of calls? |
| `update` | MCProcessUpdate, `ProcessUpdate_update.cfg` | with anything failing, is a Success true, is no bystander touched, is an Update one step of `UpdateService`? |
| `agent` | MCTeepAgent, `TeepAgent_agent.cfg` | are Updates only processed when asked for, is a tc-list exact, does every call return? |
| `wasm` | MCWasmRuntime, `WasmRuntime_wasm.cfg` | does the current image run, does no path leak, does the output fit? |
| `session` | MCTeepSession, `TeepSession_session.cfg` | does a session tell the truth, and does the device recover? |
| `web` | MCWebFrontend, `WebFrontend_web.cfg` | in either mode: one enclave, one caller in it, an answer to everyone? |
| `evidence` | MCEvidence, `Evidence_evidence.cfg` | is a ready key whole, is evidence bound to key and challenge, does every exit give back? |
| `update_executable`, `agent_unasked`, `wasm_verified`, `session_stuck`, `key_free` | | the five disagreements of section 4 |

What the properties say and why they are not obvious:

* `DigestIsKey`, `FreeSlotsBlank` (ledger): a lookup stops at the first match and a
  slot is taken without being cleared; the two invariants are what makes both
  safe across swaps, deletions and undone stores.
* `HashOfPayload`: the hash the match, the tc-list and the reload test use is that of the
  stored bytes, also after an image is overwritten in place. It assumes SHA-256 succeeds
  (`ShaOutcomes = {TRUE}`): the code drops the result of `suit_generate_sha256`
  (`tc_manager.cpp:158`), and without the assumption the property fails.
* `NoDowngrade`: a finalisation removes a finished record only for another of
  the same name at least as new. `ImplementsLedger`: the refinement.
* `BuffersOwned`: the blocks on the heap are those the active records point to, one each; a leak, a double
  free and a block freed under a bystander would all break the count.
* `SuccessNotOlder`, `SuccessVerified`, `BystandersKept`, `ReportOfLastManifest` are true of every answer,
  whatever failed. `SuccessExecutable` is not (section 4); `ExecutableFromClean` says exactly when it is: the Update
  found no unfinished and no doubled record.
* `ImplementsUpdateService`: the Update as one step. Its parts on Updates that *fail* are what the other
  properties do not say.
* `UpdateAnswersQuery`, `StatusFollowsMessages`: over whole exchanges, the status is a
  function of the messages built, whether or not they could be sent.
* `TcListExact`: a tc-list that is sent lists every record and only complete ones. `EcallReturns`: every call comes to its end.
* `RunsCurrentImage`: after any mix of Updates and calls the instance that
  produced an output is of the image the ledger has now. `NothingLeaks`, `OutputFits`: every exit.
* `ResultTellsErrors`, `ResponsesDelivered`: the sticky flags and the end of a session.
  `Recovers`: however earlier sessions were cut off, with TAM and network cooperating the
  current version is installed in the end (with `Faults` empty; `session_stuck` shows why).
* `OneInEnclave`, `OneEnclave`: the worker's start is the only exception to the
  mutex. `OneEnclave` excepts runs in which two initialisations met, as
  `doc/external-design-web-ui-api.md:10` puts concurrent requests out of scope.
  `RequestsAnswered`: no handler waits for ever.
* `ReadyIsWhole`: generating zeroes the arrays the current key points at before it knows whether it
  succeeds, and every failure ends in the middle; still a key that is READY signs, identifies and is attested
  as one pair. `EvidenceBound`: nothing an earlier request left in the heap, and no half-failed OCALL, gets into a
  payload. `EvidenceGivesBack`: every exit.

### Bounds

Slots and identities are symmetric data; what the code distinguishes is whether
digests, names, images are equal, how sequence numbers compare, and whether the
table is full.

* `ledger`: 3 slots, 4 digests. Three records are the least for a swap in which
  the deleted, the last and a bystander differ; the fourth digest meets the full
  table. Sequence numbers meet newer, older and equal. 2 application names, 2 images.
* `update`: two versions of one application, two manifests of another, one of them without a payload; one message with
  a newer and an older manifest, one too long for `MaxManifests = 2` (`TEEP_MAX_ARRAY_LENGTH`), one empty, one without a token;
  a table of 2 (3 in `update_executable`), which three records overflow. Two manifests in a message are the least for one to
  meet what the other left.
* `agent`: Updates of up to two manifests; 3 records against `TcListCapacity = 2`, the situation the code's 20 against
  libteep's array has; a QueryRequest of every kind the code tells apart. `StackValues` is `{"OTHER"}`
  there; the other values are `agent_unasked`.
* `wasm`: two versions and a second application with the first one's image (the reload
  test compares hashes only), announced and real lengths 0 to 2 against buffers of 1 and 2.
* `session`: two versions; message sizes 1, 2, 3 against a buffer of 2. The number of messages
  and sessions is not bounded.
* `evidence`: two pairs and the built-in one (a wrong key needs another to be confused with), two challenges of different
  length and none, `BufferLength = 5` against quote sizes that are 0, fit with either challenge, only without one, and not at all.
  Requests, key calls and restarts are not bounded.
* `web`: two clients per path, which may come again without bound: two are what it takes for one to wait for
  the lock or the worker while another holds it.

### Fairness

* `TcManager`, `TcBuffers`, `WasmRuntime`, `Evidence`: none; only safety is checked.
* `ProcessUpdate`, `TeepAgent`: weak fairness of the steps of a call under way and of its return.
  The enclave's one thread runs a call to its end; libcsuit's loop is over the commands of one
  manifest. Nothing makes the TAM send an Update. `EcallReturns` needs no more.
* `TeepSession`: weak fairness of `Session` (the thread runs on, the caller asks again),
  `MakeKey`, and `CalmDown`, the assumption that the environment settles. The calm TAM answers the same way every time.
* `WebFrontend`: weak fairness of every goroutine's own steps; strong fairness of
  taking the mutex and of the channel's rendezvous. Go's `sync.Mutex` turns to hand-over when a
  waiter starves, and a channel's senders queue in order. That sessions and invocations end
  is an assumption: the code sets no timeout on either. `CommandLine` adds none: nothing makes a user type.

`CHECK_DEADLOCK` is on everywhere: none of the models may stop.

## 4. Where code and documentation disagree

Each has a run that must find the violation; the trace is short and is the explanation.

* `update_executable` (`tc_manager.cpp:316`): an Update of version 2 fails for want of memory after the
  application's name was stored, and leaves an unfinished record with sequence number 2. A later Update
  of version 1 is answered with Success, but its complete record was discarded in favour of the
  unfinished one. `doc/InternalDesignDocument.md:95` promises an executable application.
* `agent_unasked` (`Enclave_process_message.cpp:727`): an Update that nobody asked for leaves
  `send_message` unwritten and its type is then read; the status may move without a message built.
* `wasm_verified` (`Enclave_wasm.cpp:64`): a payload is stored before its image match and
  stays when the match fails; the Update is answered with an Error and the application can be run.
* `session_stuck` (`tc_manager.cpp:202`): an envelope that breaks off between its two stores leaves a record
  that is never finalised; from then on every QueryRequest for the tc-list fails, for ever.
* `key_free` (`Enclave_generate_keypair.cpp:209`): a generated pair lives in static arrays that are flagged as owned. When
  the key identifier or the TAM's key cannot be made, the error exit frees them and the enclave aborts, in place of the
  error code line 122 promises. Generating or setting a key after a generated one, and freeing it, do the same; the attester
  makes one key call per enclave.

## 5. What is proved

### The table

`TcManagerProofs` proves, with TLAPS, for a table of every size and any digests, names,
images, sequence numbers and sets of calls (`TcManagerAssumption`, `RecordAssumption`):

| Theorem | States |
|---|---|
| `TypeCorrect` | `Spec => []TypeOK` |
| `DigestStaysKey` | `Spec => []DigestIsKey` |
| `FreeSlotsStayBlank` | `Spec => []FreeSlotsBlank` |
| `NeverDowngrades` | `Spec => NoDowngrade` |
| `TableImplementsLedger` | `Spec => ImplementsLedger`: the table refines the map |
| `HashStaysOfPayload` | `Spec => []HashOfPayload`, if `ShaOutcomes = {TRUE}` |

The argument. The inductive invariant `IInv` is the conjunction of the first three properties, proved in one
pass because the same lemmas about the table serve all of them. `FreeSlotsBlank` and `DigestIsKey` need the types, and what comes
after needs all three: a store takes its slot uncleared, so `HashOfPayload` and the refinement (where a store given back must
be a stutter) hold only because every deletion zeroes the slot it gives up; a table is a
map, and a lookup that stops at the first match is right, only because the digest is a key. `IInv` is written as
`Table(recs, len)`, of any table and length, so that it can be stated of the tables *inside* a finalisation,
between its swap and its deletion. Lemmas say cell by cell what `remove_at` and `swapped` yield, that each keeps
`Table`, and that the loops that stop at the first match find one (`MinIsLeast`, from the well-foundedness of
strict inclusion between finite sets); then one lemma per action shows `IInv /\ Action => IInv'`.

The refinement follows from `IInv`: `ViewOf(recs, len)` is the map a table shows, `Keyed` makes it a
function, and lemmas show that a swap does not change it, a deletion restricts it by one key, and
a store changes it at one key. `NextRefines` maps each action to an action of `TcLedger` or a stutter. For
`NoDowngrade`, `CheckKeeps` follows a record through the swap and deletion of a finalisation.

`TcBuffersProofs` adds the heap (`HeapSpec`), under the same assumptions:

| Theorem | States |
|---|---|
| `HeapImplementsTable` | `HeapSpec => Spec`: with the heap the calls are still those of the table |
| `BuffersStayOwned` | `HeapSpec => []BuffersOwned` |

`BuffersOwned` is a count: for each kind of buffer, as many live blocks as active records with one. `Count` is the number of
such records among the first `len` slots; one lemma each says how it moves when a slot is written, taken and given up, from the
cardinality theorems, and a swap and a deletion are two such steps. A store takes its slot as it finds it: that it
holds nothing yet is `FreeSlotsBlank` of `IInv`.

### Update processing

`ProcessUpdateProofs` proves, for any manifests, messages and faults and a table of every size (`RecordAssumption`,
`ProcessUpdateAssumption`; its conjuncts are the types of the constants, and that an empty report is no report):

| Theorem | States |
|---|---|
| `TypeCorrect` | `Spec => []TypeOK` |
| `BystandersAreKept` | `Spec => []BystandersKept` |
| `SuccessIsNotOlder` | `Spec => []SuccessNotOlder` |
| `SuccessIsVerified` | `Spec => []SuccessVerified` |
| `ReportIsOfLastManifest` | `Spec => []ReportOfLastManifest` |
| `CleanSuccessExecutable` | `Spec => []ExecutableFromClean` |
| `UpdateImplementsService` | `Spec => ImplementsUpdateService` |

None of these is inductive: they speak of answers and whole Updates, and the table is in disorder on the way to
one. The invariant `IInv` says what each point of `process_update` may rely on:

* `TP!IInv`, the invariant of the table; the records then form a set (`ActiveSet`) on which a store adds or
  changes one record and a finalisation deletes one, and everything below is about that set.
* `AllGenuine`: what a record holds was put there by the manifest of its digest, and hashes are of the images
  beside them. It makes records of one digest comparable over many Updates.
* `Touched` and `Kept` relate the records to those at the call: only what was sent is touched, and no finished application
  is lost. `Kept` is weaker than what is promised at the end, since the record that keeps an
  application may be the one being overwritten; it must be of a manifest that makes it complete again (`Full`).
* `Stored`, `AllCalled`, `ReportIsFresh`: what the callbacks of the current manifest have done, up to its finalisation.
* `DoneNotOlder`, `DoneVerified`: the manifests already finalised stay fulfilled and verified while later ones of the same
  message swap, overwrite and delete. A manifest may be sent twice, so the one being worked on is excepted.
* `CleanButCurrent`: a clean table is clean but for the current record. This is what a failure breaks,
  and why `SuccessExecutable` holds only from a clean table.
* `Replied`: what the answer says is so.

One lemma per stage shows that the step preserves each part, with the lemmas of `TcManagerProofs` for the
table. The refinement maps the step that builds the answer to `Decide`: `Touched`, `Kept` and `Replied` are
the conjuncts of `Effect`. Every step before it stutters, because `Seen` shows the records at the call.

### The agent and its sessions

`TeepAgentProofs` proves, for any QueryRequests, Updates and faults, and any array capacity (`TeepAgentAssumption`; the
parameters of the Update processing are those above, and `UpdateAssumption` assumes the same of them):

| Theorem | States |
|---|---|
| `TypeCorrect` | `Spec => []TypeOK` |
| `TcListIsExact` | `Spec => []TcListExact` |
| `UpdatesAnswerQueries` | `Spec => []UpdateAnswersQuery`, if `"QUERY_RESPONSE" \notin StackValues` |
| `StatusIsOfMessages` | `Spec => []StatusFollowsMessages`, under the same condition |
| `AgentImplementsService` | `Spec => PU!ImplementsUpdateService` |

The condition is that the message an unasked Update leaves uninitialised does not happen to look like a
QueryResponse. Without it both properties are false, which is the disagreement `agent_unasked`; the other theorems hold
whatever the stack has. `TcListExact` is about the ledger at a later time than the list was built, so `ListIsCurrent` carries the
list to the end of the call. `UpdateIsAwaited` is what ties the status to the Update under way, and `WaitsWhenAsked` the status
to the messages.

`TeepSessionProofs` proves, whatever TAM and network do, in rough times and calm ones, and for any number of messages
and sessions (`TeepSessionAssumption`, `AgentAssumption`):

| Theorem | States |
|---|---|
| `TypeCorrect` | `Spec => []TypeOK` |
| `ErrorsAreTold` | `Spec => []ResultTellsErrors` |
| `AllIsDelivered` | `Spec => []ResponsesDelivered` |
| `SessionImplementsService` | `Spec => AG!PU!ImplementsUpdateService` |

`DeliveredByStage` says which responses the TAM has at each point of the loop (all but the one about to be posted), `FlagsTell` that the
sticky flags tell what was built, `AnswerKnown` that an ECALL that is back has left a response or `FATAL`, from the
agent's types. The ending then reports and delivers what it should.

### The Wasm runtime

`WasmRuntimeProofs` proves, for any calls, announced and real lengths and any Updates between the calls
(`WasmRuntimeAssumption`, `UpdateAssumption`):

| Theorem | States |
|---|---|
| `TypeCorrect` | `Spec => []TypeOK` |
| `CurrentImageRuns` | `Spec => []RunsCurrentImage` |
| `NothingIsLeaked` | `Spec => []NothingLeaks` |
| `OutputAlwaysFits` | `Spec => []OutputFits` |
| `RuntimeImplementsService` | `Spec => PU!ImplementsUpdateService` |

The invariant gives, for every `ipc`, what `g_loaded_module` is (`LoadedByStage`: blank, the copy alone, or complete with the hash
of its copy), what is alive beyond it (`AliveByStage`), what the call holds (`HeldByStage`) and how the lengths compare
(`LengthsByStage`). That a reused instance runs the current image (`CurrentByStage`) takes one fact of the ledger
besides: there a hash is the hash of the image beside it, `AllGenuine` above, through every Update.

A composing module has its component as an instance (`PU`, `AG`) and so has its proof module (`PP`, `AP`); the lemmas
`SameNext`, `SameInit`, `SameTypeOK` and `SameService` show that the two instances are the same, and the component's invariant
and lemmas are then used as they stand.

### Key and evidence

`EvidenceProofs` proves, for any key pairs, challenges, quotes and block contents, any buffer length and quote sizes
(`KeyStoreAssumption`, `EvidenceAssumption`, `BlankAssumption`: the values that stand for "nothing" are none of the others,
sizes and lengths are natural numbers):

| Theorem | States |
|---|---|
| `EvidenceTypeCorrect` | `Spec => []TypeOK` |
| `ReadyStaysWhole` | `Spec => []ReadyIsWhole` |
| `EvidenceStaysBound` | `Spec => []EvidenceBound` |
| `EvidenceAlwaysGivesBack` | `Spec => []EvidenceGivesBack` |

`KInv`, the types with `ReadyIsWhole`, is inductive: a key operation either replaces every part of the key before it sets
`READY`, or zeroes what it reaches and leaves `UNINITIALIZED`, and each lemma follows one operation through its stages.
`EvidenceBound` is not: it needs that each step of a request leaves for the next what is of *this* request, `Bound`, the report
data of this key and this challenge, first in the report, then in the quote's block, then in the bytes that are encoded.
`Chain` says which of them holds it at the step the request is at; it survives because key and challenge stand still while a request is
under way. `Outcome` adds that nothing is handed out before the end, and `EvidenceGivesBack` at the end.

### The programs

`CommandLineProofs` proves, for any number of requests on either path of the web server and any sequence of commands
and restarts (`WebAssumption`: requests and worker are different things):

| Theorem | States |
|---|---|
| `OneStaysInEnclave` | `ProgramSpec => []OneInEnclave` |
| `OneEnclaveOnly` | `ProgramSpec => []OneEnclave` |

The invariant `Holder` says where each goroutine may be and that a `/teep` handler holds `mu` exactly from its lock to its answer, the
worker exactly while it invokes; two in the enclave would both hold it. `Creator` says that as long as no two
initialisations met (`overlap`), there is an enclave exactly when `g_initialized` is set, at most one goroutine is past
the test, and nothing is installed elsewhere (`Single`); the step that breaks it is the test itself, and it sets `overlap`
just then. In the command line nobody else can be past the test.

## 6. Only model-checked, and not modelled

Every invariant and action property of a passing run, and both refinements of abstract specifications, are proved. Only
model-checked are the liveness properties (`EcallReturns`, `Recovers`, `RequestsAnswered`) and what the five runs of section 4
refute: the prover reasons about neither fairness (`ENABLED`) nor counterexamples. Induction over data is out of its
reach as well; nothing here needs it, and no module has a RECURSIVE operator.

The abstract specifications are safety specifications: that an Update is answered at all is `EcallReturns`.

External, modelled from their use: libcsuit, libteep, QCBOR and t_cose (encode and sign succeed or fail), WAMR,
libcurl, the SGX SDK and DCAP, the TAM.

Not modelled, and why:

* The buffers of tc-list items. When an entry cannot be built, the cleanup runs over `tc_list.len`, which is still 0, and the
  entries before it are lost: a leak of one exit, visible in the line and of no consequence for any later step.
* What follows the uninitialised `send_message` of `agent_unasked` beyond its type: pointers that are garbage have no
  outcomes to enumerate.
* What a WAMR instance keeps after a trap: WAMR is external, and the next image reloads it.
* The fixed claims of the EAT (`Enclave_generate_evidence.cpp`), which are constants put one after the other; an encoding
  that fails is modelled. Its debug dumps, `taws_teep_debug_print.cpp` and `taws_logger.cpp`, write text that nothing reads.
* `parse_args`, the detector's image and result files, the static pages, the EDL's marshalling other than of evidence: layout and input/output.
* The build, scripts and the mock TAM; the latter only as the calm TAM of `TeepSession`.
* Sessions and invocations that never end are excluded by assumption: nothing in the code ends them.

## 7. Plan

Done: every component with control of its own is modelled, and the safety properties of the runs are proved. Of the program's
control nothing of size is left to model.

Next, proving:

1. More of what the theorems rest on in `UpdateService`: that it implies, by itself, that a finished application is never lost over any
   number of Updates, and through the refinements the same of agent, session and runtime.
2. `TeepSession`: that a device whose session ended OK after an Update has the application, from `SuccessIsVerified`.
3. The steps of the liveness arguments that are invariants: that in calm times no record is unfinished when `Faults` is
   empty, and that a goroutine waiting for `mu` always finds it held by one that can move.
