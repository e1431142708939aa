-------------------------- MODULE WasmRuntimeProofs -------------------------
(***************************************************************************)
(* Theorems about WasmRuntime: whatever Updates come between the calls,    *)
(* whatever WAMR and the application do and whichever step of a call       *)
(* fails.                                                                  *)
(*                                                                         *)
(* The invariant says what g_loaded_module, the things that are alive and  *)
(* the buffers of the call are at each point of ecall_invoke_wasm.  That a *)
(* reused instance runs the current image also needs a fact about the      *)
(* ledger: equal hashes mean equal images there, which ProcessUpdateProofs *)
(* has as a part of its invariant.  PP is that module.                     *)
(***************************************************************************)
EXTENDS WasmRuntime, TLAPS

PP == INSTANCE ProcessUpdateProofs

-----------------------------------------------------------------------------
(* The invariant.                                                          *)

Loading == {"copy", "load", "instantiate"}
Using   == {"prepare", "input", "size", "output", "call"}

(* A module is loaded completely, with the hash of its image, or not at    *)
(* all, but for the copy of the image while it is being loaded.            *)
Complete(loaded) ==
  /\ loaded \in [wapp_bin : Images, module : {TRUE}, module_instance : {TRUE},
                 wapp_hash : Images]
  /\ loaded.wapp_hash = loaded.wapp_bin

LoadedByStage ==
  CASE ipc \in {"load", "instantiate"} ->
         g_loaded_module = [BlankModule EXCEPT !.wapp_bin = record.wapp_bin]
    [] ipc = "copy"                    -> g_loaded_module = BlankModule
    [] ipc \in Using                   -> Complete(g_loaded_module)
    [] OTHER                           -> \/ g_loaded_module = BlankModule
                                          \/ Complete(g_loaded_module)

(* A call that has got past the lookup still finds its record, and past    *)
(* the loading the instance is one of the record's image.                  *)
CurrentByStage ==
  /\ ipc \in Loading \cup Using => Runnable
  /\ ipc \in Using \/ Answered =>
       g_loaded_module.module_instance /\ g_loaded_module.wapp_bin = record.wapp_bin

(* What is alive is owned, or is the module that is being instantiated.    *)
AliveByStage ==
  /\ live \in [Parts -> Nat]
  /\ \A p \in Parts :
       live[p] = IF Owns(g_loaded_module, p) \/ (p = "module" /\ ipc = "instantiate")
                 THEN 1 ELSE 0

HeldByStage ==
  /\ held \subseteq {"exec_env", "input", "output"}
  /\ "exec_env" \in held <=> ipc \in {"input", "size", "output", "call"}
  /\ "input" \in held <=> ipc \in {"size", "output", "call"} /\ call.input
  /\ "output" \in held <=> ipc = "call"

LengthsByStage ==
  /\ ret_len \in 0 .. MaxLen /\ actual_len \in 0 .. MaxLen
  /\ ipc \in {"output", "call"} \/ Answered => 0 < ret_len /\ ret_len <= call.output_len
  /\ IF Answered THEN 0 < actual_len /\ actual_len <= ret_len ELSE actual_len = 0

Control ==
  /\ runtime_inited \in BOOLEAN
  /\ ipc \in {"idle", "ensure", "returned"} \cup Loading \cup Using
  /\ call \in Calls \cup {NoCall}

IInv ==
  /\ PP!IInv
  /\ Control
  /\ LoadedByStage
  /\ CurrentByStage
  /\ AliveByStage
  /\ HeldByStage
  /\ LengthsByStage

-----------------------------------------------------------------------------
(* PU and PP are the same process_update.                                  *)

LEMMA SameNext == PU!Next <=> PP!Next
BY Zenon DEF
       PU!manifest, PP!manifest, PU!Memory, PP!Memory, PU!Message, PP!Message,
       PU!NoMessage, PP!NoMessage, PU!NoUpdate, PP!NoUpdate, PU!ActiveSet,
       PP!ActiveSet, PU!Fail, PP!Fail, PU!Acceptable, PP!Acceptable, PU!Begin,
       PP!Begin, PU!SetUp, PP!SetUp, PU!SetUpFails, PP!SetUpFails, PU!Called,
       PP!Called, PU!StoreRefused, PP!StoreRefused, PU!store_callback_manifest,
       PP!store_callback_manifest, PU!store_callback_payload,
       PP!store_callback_payload, PU!ImageMatches, PP!ImageMatches,
       PU!condition_callback, PP!condition_callback, PU!EnvelopeDone,
       PP!EnvelopeDone, PU!EnvelopeFails, PP!EnvelopeFails, PU!NewReport,
       PP!NewReport, PU!EndOfEnvelope, PP!EndOfEnvelope, PU!report_callback,
       PP!report_callback, PU!NextManifest, PP!NextManifest, PU!Finalise,
       PP!Finalise, PU!Return, PP!Return, PU!Step, PP!Step, PU!Next, PP!Next,
       PU!tcVars, PP!tcVars, PU!runVars, PP!runVars, PU!TC!OK, PP!TC!OK,
       PU!TC!ERROR, PP!TC!ERROR, PU!TC!Active, PP!TC!Active, PU!TC!WithDigest,
       PP!TC!WithDigest, PU!TC!find_by_digest, PP!TC!find_by_digest,
       PU!TC!TargetSlot, PP!TC!TargetSlot, PU!TC!remove_at, PP!TC!remove_at,
       PU!TC!swapped, PP!TC!swapped, PU!TC!set_ids_from_component_id,
       PP!TC!set_ids_from_component_id, PU!TC!StoredManifest,
       PP!TC!StoredManifest, PU!TC!StoredPayload, PP!TC!StoredPayload,
       PU!TC!Put, PP!TC!Put, PU!TC!CanStore, PP!TC!CanStore,
       PU!TC!StoreManifest, PP!TC!StoreManifest, PU!TC!StorePayload,
       PP!TC!StorePayload, PU!TC!StoreTableFull, PP!TC!StoreTableFull,
       PU!TC!StoreUndone, PP!TC!StoreUndone, PU!TC!Duplicates,
       PP!TC!Duplicates, PU!TC!update_or_discard, PP!TC!update_or_discard,
       PU!TC!CheckNotFound, PP!TC!CheckNotFound, PU!TC!CheckIncomplete,
       PP!TC!CheckIncomplete, PU!TC!CheckComplete, PP!TC!CheckComplete,
       PU!TC!CheckAndUpdate, PP!TC!CheckAndUpdate, PU!TC!BlankRecord,
       PP!TC!BlankRecord, PU!TC!IsComplete, PP!TC!IsComplete, PU!TC!Min,
       PP!TC!Min

LEMMA SameInit == PU!Init <=> PP!Init
BY Zenon DEF PU!Init, PP!Init, PU!TC!Init, PP!TC!Init, PU!TC!Slots, PP!TC!Slots,
       PU!TC!BlankRecord, PP!TC!BlankRecord, PU!TC!OK, PP!TC!OK, PU!NoUpdate, PP!NoUpdate,
       PU!NoMessage, PP!NoMessage, PU!Message, PP!Message

LEMMA SameTypeOK == PU!TypeOK <=> PP!TypeOK
BY Zenon DEF PU!TypeOK, PP!TypeOK, PU!TC!TypeOK, PP!TC!TypeOK, PU!TC!Slots, PP!TC!Slots,
       PU!TC!Record, PP!TC!Record, PU!TC!OK, PP!TC!OK, PU!TC!ERROR, PP!TC!ERROR,
       PU!Reports, PP!Reports, PU!NoUpdate, PP!NoUpdate, PU!Record, PP!Record

LEMMA SameLookup ==
  ASSUME NEW n
  PROVE  /\ PU!TC!WithWappName(n) = PP!TC!WithWappName(n)
         /\ PU!TC!find_by_wapp_name(n) = PP!TC!find_by_wapp_name(n)
BY Zenon DEF PU!TC!WithWappName, PP!TC!WithWappName, PU!TC!find_by_wapp_name,
       PP!TC!find_by_wapp_name, PU!TC!Active, PP!TC!Active, PU!TC!Min, PP!TC!Min

LEMMA ParametersHold == PP!UpdateParameters
BY Zenon, UpdateAssumption DEF PU!UpdateParameters, PP!UpdateParameters, PU!AllFaults, PP!AllFaults


(* The record an invocation finds is one of the ledger, and its hash is    *)
(* that of the image it would run.                                         *)
LEMMA RecordOfCall ==
  ASSUME PP!IInv, Runnable
  PROVE  /\ record \in Record
         /\ record.wapp_bin \in Images
         /\ record.wapp_hash = record.wapp_bin
<1>1. record \in PP!ActiveSet
  BY ParametersHold, RecordAssumption, SameLookup, PP!LookupByName DEF Runnable, record, PP!IInv
<1>2. PP!Genuine(record)
  BY <1>1 DEF PP!IInv, PP!AllGenuine
<1>3. record \in Record
  <2>1. PP!TypeOK
    BY ParametersHold, RecordAssumption, PP!IInvIsTyped
  <2>2. records \in [PP!TC!Slots -> Record] /\ record_len \in 0 .. MaxRecords
    BY <2>1 DEF PP!TypeOK, PP!TC!TypeOK, PP!TC!Record, Record
  <2> HIDE DEF record
  <2>3. \A i \in PP!TC!Active : i \in PP!TC!Slots
    BY <2>2, UpdateAssumption DEF PU!UpdateParameters, PP!TC!Active, PP!TC!Slots
  <2> QED
    BY <1>1, <2>2, <2>3 DEF PP!ActiveSet
<1> QED
  BY <1>2, <1>3 DEF PP!Genuine, Runnable, Record

LEMMA NoUpdateStep ==
  ASSUME PP!IInv, UNCHANGED puVars
  PROVE  PP!IInv'
<1>1. UNCHANGED PP!vars
  BY DEF puVars, PP!vars, PP!tcVars, PP!runVars
<1>2. [PP!Next]_(PP!vars)
  BY <1>1
<1> QED
  BY <1>2, ParametersHold, RecordAssumption, PP!NextIInv

LEMMA SameRecord ==
  ASSUME UNCHANGED <<puVars, call>>
  PROVE  record' = record /\ Runnable' = Runnable
BY DEF puVars, record, Runnable, PU!TC!WithWappName, PU!TC!find_by_wapp_name, PU!TC!Active,
       PU!TC!Min

-----------------------------------------------------------------------------
(* It holds initially and every step preserves it.                         *)

LEMMA InitIInv == Init => IInv
<1> SUFFICES ASSUME Init PROVE IInv
  OBVIOUS
<1>1. PP!IInv
  BY SameInit, ParametersHold, RecordAssumption, PP!InitIInv DEF Init
<1>2. Control /\ LoadedByStage /\ CurrentByStage /\ HeldByStage
  BY DEF Init, Control, LoadedByStage, CurrentByStage, HeldByStage, Loading, Using, Answered
<1>3. AliveByStage
  BY DEF Init, AliveByStage, Parts, Owns, BlankModule
<1>4. LengthsByStage
  BY WasmRuntimeAssumption DEF Init, LengthsByStage, Answered, WasmRuntimeAssumption
<1> QED
  BY <1>1, <1>2, <1>3, <1>4 DEF IInv

(* Updates come between the calls, when no stage speaks of the record.     *)
LEMMA UpdateStepIInv == IInv /\ UpdateStep => IInv'
<1> SUFFICES ASSUME IInv, UpdateStep PROVE IInv'
  OBVIOUS
<1>1. PP!IInv'
  BY SameNext, ParametersHold, RecordAssumption, PP!NextIInv DEF UpdateStep, IInv
<1>2. /\ ipc = "idle" /\ ipc' = "idle"
      /\ UNCHANGED <<runtime_inited, g_loaded_module, live, call, held, ret_len, actual_len, result>>
  BY DEF UpdateStep, loadVars, lenVars
<1>3. Control' /\ LoadedByStage' /\ CurrentByStage' /\ HeldByStage'
  BY <1>2 DEF IInv, Control, LoadedByStage, CurrentByStage, HeldByStage, Loading, Using, Answered,
              Complete
<1>4. AliveByStage'
  BY <1>2 DEF IInv, AliveByStage, Owns
<1>5. LengthsByStage'
  BY <1>2 DEF IInv, LengthsByStage, Answered
<1> QED
  BY <1>1, <1>3, <1>4, <1>5 DEF IInv

(* ensure_wamr_running leaves the call, its buffers and its lengths alone. *)
EnsureStep ==
  \/ NotFound \/ Reuse \/ Reload \/ InitRuntimeFails \/ CopyImage
  \/ Load \/ LoadFails \/ Instantiate \/ InstantiateFails

LEMMA EnsureStepShape ==
  ASSUME EnsureStep
  PROVE  /\ ipc \in {"ensure"} \cup Loading
         /\ ipc' \in {"prepare", "returned"} \cup Loading
         /\ ipc' = "returned" => result' # "OK"
         /\ runtime_inited' \in {runtime_inited, TRUE}
         /\ held' = held
         /\ UNCHANGED <<puVars, call, ret_len, actual_len>>
<1>1. CASE NotFound \/ Reuse \/ Reload
  BY <1>1 DEF NotFound, Reuse, Reload, At, Goto, Return, Loading, loadVars, lenVars
<1>2. CASE InitRuntimeFails \/ CopyImage
  BY <1>2 DEF InitRuntimeFails, CopyImage, At, Goto, Return, Loading, loadVars, lenVars
<1>3. CASE Load \/ LoadFails
  BY <1>3 DEF Load, LoadFails, At, Goto, Return, Loading, lenVars
<1>4. CASE Instantiate \/ InstantiateFails
  BY <1>4 DEF Instantiate, InstantiateFails, At, Goto, Return, Loading, lenVars
<1> QED
  BY <1>1, <1>2, <1>3, <1>4 DEF EnsureStep

LEMMA EnsureStepBuffers ==
  ASSUME IInv, EnsureStep
  PROVE  Control' /\ HeldByStage' /\ LengthsByStage'
<1>1. Control'
  BY EnsureStepShape DEF IInv, Control, Loading, Using
<1>2. HeldByStage'
  BY EnsureStepShape DEF IInv, HeldByStage, Loading
<1>3. LengthsByStage'
  BY EnsureStepShape DEF IInv, LengthsByStage, Answered, Loading
<1> QED
  BY <1>1, <1>2, <1>3

(* What reset_wamr_loaded_module frees is what g_loaded_module owns.       *)
LEMMA FreedNothing ==
  ASSUME IInv, ipc # "instantiate"
  PROVE  Freed(live) = [p \in Parts |-> 0]
BY DEF IInv, AliveByStage, Freed

LEMMA FreedNothingOfModule ==
  ASSUME IInv, ipc = "instantiate"
  PROVE  Freed(Unloaded(live)) = [p \in Parts |-> 0]
<1>1. \A p \in Parts : p # "wapp_bin" => ~Owns(g_loaded_module, p)
  <2>1. g_loaded_module = [BlankModule EXCEPT !.wapp_bin = record.wapp_bin]
    BY DEF IInv, LoadedByStage, Using
  <2> QED
    BY <2>1 DEF BlankModule, Owns, Parts
<1>2. \A p \in Parts : Unloaded(live)[p] = IF Owns(g_loaded_module, p) THEN 1 ELSE 0
  BY <1>1 DEF IInv, AliveByStage, Unloaded, Parts
<1> QED
  BY <1>2 DEF Freed

LEMMA BlankOwnsNothing == \A p \in Parts : ~Owns(BlankModule, p)
BY DEF Owns, BlankModule, Parts

(* The lookup, and the reset of a module of another image.                 *)
LEMMA LookupLoaded ==
  ASSUME IInv, NotFound \/ Reuse \/ Reload, record' = record, Runnable' = Runnable
  PROVE  LoadedByStage' /\ CurrentByStage' /\ AliveByStage'
<1>1. CASE NotFound
  BY <1>1 DEF NotFound, At, Return, loadVars, IInv, LoadedByStage, CurrentByStage, AliveByStage,
              Answered, Loading, Using, Complete, Owns
<1>2. CASE Reuse
  <2>1. /\ ipc = "ensure" /\ ipc' = "prepare" /\ Runnable /\ SameInstance
        /\ UNCHANGED <<g_loaded_module, live>>
    BY <1>2 DEF Reuse, At, Goto, loadVars
  <2>2. Complete(g_loaded_module)
    BY <2>1 DEF IInv, LoadedByStage, SameInstance, BlankModule, Loading, Using
  <2>3. g_loaded_module.wapp_bin = record.wapp_bin
    BY <2>1, <2>2, RecordOfCall DEF IInv, SameInstance, Complete
  <2>4. g_loaded_module.module_instance
    BY <2>1 DEF SameInstance
  <2> QED
    BY <2>1, <2>2, <2>3, <2>4
       DEF IInv, LoadedByStage, CurrentByStage, AliveByStage, Answered, Loading, Using, Complete,
           Owns
<1>3. CASE Reload
  <2>1. /\ ipc = "ensure" /\ ipc' = "copy" /\ Runnable
        /\ IF g_loaded_module.module_instance
           THEN live' = Freed(live) /\ g_loaded_module' = BlankModule
           ELSE UNCHANGED <<g_loaded_module, live>>
    BY <1>3 DEF Reload, At, Goto, reset
  <2>2. g_loaded_module' = BlankModule
    BY <2>1 DEF IInv, LoadedByStage, Complete, Loading, Using
  <2>3. live' = [p \in Parts |-> 0]
    <3>1. CASE g_loaded_module.module_instance
      BY <2>1, <3>1, FreedNothing
    <3>2. CASE ~g_loaded_module.module_instance
      BY <2>1, <2>2, <3>2, BlankOwnsNothing DEF IInv, AliveByStage
    <3> QED
      BY <3>1, <3>2
  <2>4. LoadedByStage' /\ CurrentByStage'
    BY <2>1, <2>2 DEF LoadedByStage, CurrentByStage, Answered, Loading, Using
  <2>5. AliveByStage'
    BY <2>1, <2>2, <2>3, BlankOwnsNothing DEF AliveByStage
  <2> QED
    BY <2>4, <2>5
<1> QED
  BY <1>1, <1>2, <1>3

(* The copy of the image.                                                  *)
LEMMA CopyLoaded ==
  ASSUME IInv, InitRuntimeFails \/ CopyImage, record' = record, Runnable' = Runnable
  PROVE  LoadedByStage' /\ CurrentByStage' /\ AliveByStage'
<1>1. ipc = "copy" /\ g_loaded_module = BlankModule /\ Runnable
  BY DEF IInv, LoadedByStage, CurrentByStage, InitRuntimeFails, CopyImage, At, Loading, Using
<1>2. CASE ipc' = "returned" /\ result' # "OK" /\ UNCHANGED <<g_loaded_module, live>>
  BY <1>1, <1>2 DEF IInv, LoadedByStage, CurrentByStage, AliveByStage, Answered, Loading, Using
<1>3. CASE /\ ipc' = "load"
           /\ g_loaded_module' = [g_loaded_module EXCEPT !.wapp_bin = record.wapp_bin]
           /\ live' = Made("wapp_bin")
  <2>1. record.wapp_bin # NoImage
    BY <1>1 DEF Runnable
  <2>2. LoadedByStage' /\ CurrentByStage'
    BY <1>1, <1>3 DEF LoadedByStage, CurrentByStage, Answered, Loading, Using
  <2>3. \A p \in Parts : Owns(g_loaded_module', p) <=> p = "wapp_bin"
    BY <1>1, <1>3, <2>1 DEF Owns, BlankModule, Parts
  <2>4. AliveByStage'
    BY <1>1, <1>3, <2>3, BlankOwnsNothing DEF IInv, AliveByStage, Made, Parts
  <2> QED
    BY <2>2, <2>4
<1> QED
  BY <1>2, <1>3 DEF InitRuntimeFails, CopyImage, Goto, Return, loadVars

(* wasm_runtime_load and wasm_runtime_instantiate; whichever fails, what   *)
(* has been made so far goes.                                              *)
LEMMA LoadLoaded ==
  ASSUME IInv, Load \/ LoadFails \/ Instantiate \/ InstantiateFails,
         record' = record, Runnable' = Runnable
  PROVE  LoadedByStage' /\ CurrentByStage' /\ AliveByStage'
<1>1. /\ ipc \in {"load", "instantiate"} /\ Runnable
      /\ g_loaded_module = [BlankModule EXCEPT !.wapp_bin = record.wapp_bin]
  BY DEF IInv, LoadedByStage, CurrentByStage, Load, LoadFails, Instantiate, InstantiateFails, At,
         Loading, Using
<1>2. record.wapp_bin \in Images /\ record.wapp_hash = record.wapp_bin /\ record.wapp_bin # NoImage
  BY <1>1, RecordOfCall DEF IInv, Runnable
<1>3. \A p \in Parts : Owns(g_loaded_module, p) <=> p = "wapp_bin"
  BY <1>1, <1>2 DEF Owns, BlankModule, Parts
<1>4. CASE Load
  <2>1. ipc = "load" /\ ipc' = "instantiate" /\ live' = Made("module") /\ UNCHANGED g_loaded_module
    BY <1>4 DEF Load, At, Goto
  <2>2. LoadedByStage' /\ CurrentByStage'
    BY <1>1, <2>1 DEF LoadedByStage, CurrentByStage, Answered, Loading, Using
  <2>3. AliveByStage'
    BY <1>3, <2>1 DEF IInv, AliveByStage, Made, Parts
  <2> QED
    BY <2>2, <2>3
<1>5. CASE LoadFails \/ InstantiateFails
  <2>1. ipc' = "returned" /\ result' # "OK" /\ g_loaded_module' = BlankModule
    BY <1>5 DEF LoadFails, InstantiateFails, reset, Return
  <2>2. live' = [p \in Parts |-> 0]
    BY <1>5, FreedNothing, FreedNothingOfModule DEF LoadFails, InstantiateFails, reset, At
  <2>3. LoadedByStage' /\ CurrentByStage'
    BY <2>1 DEF LoadedByStage, CurrentByStage, Answered, Loading, Using
  <2>4. AliveByStage'
    BY <2>1, <2>2, BlankOwnsNothing DEF AliveByStage
  <2> QED
    BY <2>3, <2>4
<1>6. CASE Instantiate
  <2>1. /\ ipc = "instantiate" /\ ipc' = "prepare" /\ live' = Made("module_instance")
        /\ g_loaded_module' = [g_loaded_module EXCEPT !.module = TRUE, !.module_instance = TRUE,
                                                      !.wapp_hash = record.wapp_hash]
    BY <1>6 DEF Instantiate, At, Goto
  <2>2. g_loaded_module' = [wapp_bin |-> record.wapp_bin, module |-> TRUE,
                            module_instance |-> TRUE, wapp_hash |-> record.wapp_hash]
    BY <1>1, <2>1 DEF BlankModule
  <2>3. Complete(g_loaded_module')
    BY <1>2, <2>2 DEF Complete
  <2>4. LoadedByStage' /\ CurrentByStage'
    BY <1>1, <2>1, <2>2, <2>3
       DEF LoadedByStage, CurrentByStage, Complete, Answered, Loading, Using
  <2>5. \A p \in Parts : Owns(g_loaded_module', p)
    BY <1>2, <2>2 DEF Owns, Parts
  <2>6. AliveByStage'
    BY <1>3, <2>1, <2>5 DEF IInv, AliveByStage, Made, Parts
  <2> QED
    BY <2>4, <2>6
<1> QED
  BY <1>4, <1>5, <1>6

LEMMA EnsureStepIInv == IInv /\ EnsureStep => IInv'
<1> SUFFICES ASSUME IInv, EnsureStep PROVE IInv'
  OBVIOUS
<1>1. PP!IInv' /\ record' = record /\ Runnable' = Runnable
  BY EnsureStepShape, SameRecord, NoUpdateStep DEF IInv
<1>2. LoadedByStage' /\ CurrentByStage' /\ AliveByStage'
  BY <1>1, LookupLoaded, CopyLoaded, LoadLoaded DEF EnsureStep
<1> QED
  BY <1>1, <1>2, EnsureStepBuffers DEF IInv

(* The call of the application leaves what is loaded alone.                *)
UseStep ==
  \/ Prepare \/ CopyInput \/ Trap \/ AllocateOutput \/ TrapAgain
  \/ \E n \in 0 .. MaxLen : CallForSize(n) \/ CallForOutput(n)

LEMMA UseStepShape ==
  ASSUME UseStep
  PROVE  /\ ipc \in Using /\ ipc' \in Using \cup {"returned"}
         /\ UNCHANGED <<puVars, call, runtime_inited, g_loaded_module, live>>
<1>1. CASE Prepare \/ CopyInput \/ Trap
  BY <1>1 DEF Prepare, CopyInput, Trap, At, Goto, Return, Using, loadVars
<1>2. CASE AllocateOutput \/ TrapAgain
  BY <1>2 DEF AllocateOutput, TrapAgain, At, Goto, Return, Using, loadVars
<1>3. ASSUME NEW n \in 0 .. MaxLen, CallForSize(n) \/ CallForOutput(n)
      PROVE  /\ ipc \in Using /\ ipc' \in Using \cup {"returned"}
             /\ UNCHANGED <<puVars, call, runtime_inited, g_loaded_module, live>>
  BY <1>3 DEF CallForSize, CallForOutput, At, Goto, Return, Using, loadVars
<1> QED
  BY <1>1, <1>2, <1>3 DEF UseStep

LEMMA UseStepLoaded ==
  ASSUME IInv, UseStep, record' = record, Runnable' = Runnable
  PROVE  Control' /\ LoadedByStage' /\ CurrentByStage' /\ AliveByStage'
<1>1. Control'
  BY UseStepShape DEF IInv, Control
<1>2. Complete(g_loaded_module) /\ Complete(g_loaded_module)'
  BY UseStepShape DEF IInv, LoadedByStage, Complete, Loading, Using
<1>3. LoadedByStage'
  BY <1>2, UseStepShape DEF LoadedByStage, Loading, Using
<1>4. CurrentByStage'
  BY UseStepShape DEF IInv, CurrentByStage, Answered
<1>5. AliveByStage'
  BY UseStepShape DEF IInv, AliveByStage, Owns, Using
<1> QED
  BY <1>1, <1>3, <1>4, <1>5

LEMMA CutFits ==
  ASSUME NEW n \in Nat, NEW m \in Nat, n > 0, m > 0
  PROVE  Min({n, m}) \in Nat /\ 0 < Min({n, m}) /\ Min({n, m}) <= m /\ Min({n, m}) <= n
<1>1. \E x \in {n, m} : \A y \in {n, m} : x <= y
  OBVIOUS
<1>2. Min({n, m}) \in {n, m} /\ \A y \in {n, m} : Min({n, m}) <= y
  BY <1>1 DEF Min
<1> QED
  BY <1>2

(* The buffers and the lengths, step by step.                              *)
LEMMA PrepareBuffers ==
  ASSUME IInv, Prepare \/ CopyInput \/ AllocateOutput
  PROVE  HeldByStage' /\ LengthsByStage'
<1>1. LengthsByStage'
  BY DEF IInv, LengthsByStage, Prepare, CopyInput, AllocateOutput, At, Goto, Return, Answered,
         lenVars
<1>2. CASE Prepare
  BY <1>1, <1>2 DEF IInv, HeldByStage, Prepare, At, Goto, Return
<1>3. CASE CopyInput
  BY <1>1, <1>3 DEF IInv, HeldByStage, CopyInput, At, Goto, Return
<1>4. CASE AllocateOutput
  BY <1>1, <1>4 DEF IInv, HeldByStage, AllocateOutput, InputBuffer, At, Goto, Return
<1> QED
  BY <1>1, <1>2, <1>3, <1>4

LEMMA TrapBuffers ==
  ASSUME IInv, Trap \/ TrapAgain
  PROVE  HeldByStage' /\ LengthsByStage'
BY DEF IInv, HeldByStage, LengthsByStage, Trap, TrapAgain, InputBuffer, OutputFreed, At, Goto,
       Return, Answered, lenVars

LEMMA CallBuffers ==
  ASSUME IInv, NEW n \in 0 .. MaxLen, CallForSize(n) \/ CallForOutput(n)
  PROVE  HeldByStage' /\ LengthsByStage'
<1>1. CASE CallForSize(n)
  <2>1. HeldByStage'
    BY <1>1 DEF IInv, HeldByStage, CallForSize, InputBuffer, At, Goto, Return
  <2>2. LengthsByStage'
    <3>1. call.output_len \in Nat
      BY WasmRuntimeAssumption DEF WasmRuntimeAssumption, IInv, Control, NoCall
    <3> QED
      BY <1>1, <3>1, WasmRuntimeAssumption
         DEF WasmRuntimeAssumption, IInv, LengthsByStage, CallForSize, SizeFits, At, Goto, Return,
             Answered
  <2> QED
    BY <2>1, <2>2
<1>2. CASE CallForOutput(n)
  <2>1. HeldByStage'
    BY <1>2 DEF IInv, HeldByStage, CallForOutput, InputBuffer, OutputFreed, At, Goto, Return
  <2>2. LengthsByStage'
    <3>1. /\ ipc = "call" /\ ipc' = "returned" /\ call' = call /\ ret_len' = ret_len
          /\ IF n = 0 THEN result' # "OK" /\ UNCHANGED actual_len
                      ELSE result' = "OK" /\ actual_len' = Cut(n)
      BY <1>2 DEF CallForOutput, At, Return
    <3>2. /\ ret_len \in 0 .. MaxLen /\ 0 < ret_len /\ ret_len <= call.output_len
          /\ actual_len = 0
      BY <3>1 DEF IInv, LengthsByStage, Answered
    <3>3. n > 0 => Cut(n) \in 0 .. MaxLen /\ 0 < Cut(n) /\ Cut(n) <= ret_len
      BY <3>2, CutFits, WasmRuntimeAssumption DEF WasmRuntimeAssumption, Cut
    <3> HIDE DEF Cut
    <3>4. CASE n = 0
      BY <3>1, <3>2, <3>4 DEF LengthsByStage, Answered
    <3>5. CASE n # 0
      <4>1. Cut(n) \in 0 .. MaxLen /\ 0 < Cut(n) /\ Cut(n) <= ret_len
        BY <3>3, <3>5
      <4> QED
        BY <3>1, <3>2, <3>5, <4>1 DEF LengthsByStage, Answered
    <3> QED
      BY <3>4, <3>5
  <2> QED
    BY <2>1, <2>2
<1> QED
  BY <1>1, <1>2

LEMMA UseStepIInv == IInv /\ UseStep => IInv'
<1> SUFFICES ASSUME IInv, UseStep PROVE IInv'
  OBVIOUS
<1>1. PP!IInv' /\ record' = record /\ Runnable' = Runnable
  BY UseStepShape, SameRecord, NoUpdateStep DEF IInv
<1>2. Control' /\ LoadedByStage' /\ CurrentByStage' /\ AliveByStage'
  BY <1>1, UseStepLoaded
<1>3. HeldByStage' /\ LengthsByStage'
  BY PrepareBuffers, TrapBuffers, CallBuffers DEF UseStep
<1> QED
  BY <1>1, <1>2, <1>3 DEF IInv

(* The call and its return.                                                *)
LEMMA InvokeIInv == ASSUME IInv, NEW c \in Calls, Invoke(c) PROVE IInv'
<1>1. /\ ipc = "idle" /\ ipc' \in {"ensure", "returned"} /\ call' = c /\ actual_len' = 0
      /\ ipc' = "returned" => result' # "OK"
      /\ held' = held
      /\ UNCHANGED <<puVars, runtime_inited, g_loaded_module, live, ret_len>>
  BY DEF Invoke, Return, Goto, loadVars
<1>2. PP!IInv'
  BY <1>1, NoUpdateStep DEF IInv
<1>3. Control' /\ LoadedByStage' /\ CurrentByStage'
  BY <1>1 DEF IInv, Control, LoadedByStage, CurrentByStage, Complete, Answered, Loading, Using
<1>4. AliveByStage'
  BY <1>1 DEF IInv, AliveByStage, Owns
<1>5. HeldByStage' /\ LengthsByStage'
  BY <1>1, WasmRuntimeAssumption
     DEF WasmRuntimeAssumption, IInv, HeldByStage, LengthsByStage, Answered
<1> QED
  BY <1>2, <1>3, <1>4, <1>5 DEF IInv

LEMMA LeaveIInv == IInv /\ Leave => IInv'
<1> SUFFICES ASSUME IInv, Leave PROVE IInv'
  OBVIOUS
<1>1. /\ ipc = "returned" /\ ipc' = "idle" /\ call' = NoCall /\ ret_len' = 0 /\ actual_len' = 0
      /\ UNCHANGED <<puVars, runtime_inited, g_loaded_module, live, held>>
  BY DEF Leave, loadVars
<1>2. PP!IInv'
  BY <1>1, NoUpdateStep DEF IInv
<1>3. Control' /\ LoadedByStage' /\ CurrentByStage'
  BY <1>1 DEF IInv, Control, LoadedByStage, CurrentByStage, Complete, Answered, Loading, Using
<1>4. AliveByStage'
  BY <1>1 DEF IInv, AliveByStage, Owns
<1>5. HeldByStage' /\ LengthsByStage'
  BY <1>1, WasmRuntimeAssumption
     DEF WasmRuntimeAssumption, IInv, HeldByStage, LengthsByStage, Answered
<1> QED
  BY <1>2, <1>3, <1>4, <1>5 DEF IInv

LEMMA StutterIInv == IInv /\ UNCHANGED vars => IInv'
<1> SUFFICES ASSUME IInv, UNCHANGED vars PROVE IInv'
  OBVIOUS
<1>1. UNCHANGED <<puVars, call, ipc, held, result, runtime_inited, g_loaded_module, live, ret_len,
                  actual_len>>
  BY DEF vars, loadVars, lenVars
<1>2. PP!IInv' /\ record' = record /\ Runnable' = Runnable
  BY <1>1, SameRecord, NoUpdateStep DEF IInv
<1>3. Control' /\ LoadedByStage' /\ CurrentByStage'
  BY <1>1, <1>2 DEF IInv, Control, LoadedByStage, CurrentByStage, Complete, Answered
<1>4. AliveByStage'
  BY <1>1 DEF IInv, AliveByStage, Owns
<1>5. HeldByStage' /\ LengthsByStage'
  BY <1>1 DEF IInv, HeldByStage, LengthsByStage, Answered
<1> QED
  BY <1>2, <1>3, <1>4, <1>5 DEF IInv

LEMMA SpecIInv == Spec => []IInv
<1>1. IInv /\ [Next]_vars => IInv'
  <2> SUFFICES ASSUME IInv, [Next]_vars PROVE IInv'
    OBVIOUS
  <2>1. ASSUME NEW c \in Calls, Invoke(c) PROVE IInv'
    BY <2>1, InvokeIInv
  <2>2. CASE EnsureStep
    BY <2>2, EnsureStepIInv
  <2>3. CASE UseStep
    BY <2>3, UseStepIInv
  <2> QED
    BY <2>1, <2>2, <2>3, UpdateStepIInv, LeaveIInv, StutterIInv DEF Next, EnsureStep, UseStep
<1> QED
  BY <1>1, InitIInv, PTL DEF Spec

-----------------------------------------------------------------------------
(* What follows from it.                                                   *)

(* The variables have their types: never more than one copy, one module    *)
(* and one instance is alive, and the lengths stay within MaxLen.          *)
THEOREM TypeCorrect == Spec => []TypeOK
<1>1. IInv => TypeOK
  <2> SUFFICES ASSUME IInv PROVE TypeOK
    OBVIOUS
  <2>1. PU!TypeOK
    BY SameTypeOK, ParametersHold, RecordAssumption, PP!IInvIsTyped DEF IInv
  <2>2. g_loaded_module \in [wapp_bin : Images \cup {NoImage}, module : BOOLEAN,
                             module_instance : BOOLEAN, wapp_hash : Images \cup {NoImage}]
    <3>1. CASE ipc \in {"load", "instantiate"}
      <4>1. record.wapp_bin \in Images
        BY <3>1, RecordOfCall DEF IInv, CurrentByStage, Loading
      <4>2. g_loaded_module = [BlankModule EXCEPT !.wapp_bin = record.wapp_bin]
        BY <3>1 DEF IInv, LoadedByStage, Using
      <4> QED
        BY <4>1, <4>2 DEF BlankModule
    <3>2. CASE g_loaded_module = BlankModule
      BY <3>2 DEF BlankModule
    <3>3. CASE Complete(g_loaded_module)
      BY <3>3 DEF Complete
    <3> QED
      BY <3>1, <3>2, <3>3 DEF IInv, LoadedByStage
  <2>3. live \in [Parts -> 0 .. 1]
    BY DEF IInv, AliveByStage
  <2>4. held \subseteq {"exec_env", "input", "output"}
    BY DEF IInv, HeldByStage
  <2> QED
    BY <2>1, <2>2, <2>3, <2>4 DEF IInv, Control, LengthsByStage, TypeOK
<1> QED
  BY <1>1, SpecIInv, PTL

(* The instance whose output ecall_invoke_wasm returns was made from the   *)
(* image the ledger has for the name, whatever was loaded before and       *)
(* whichever Updates came in between.                                      *)
THEOREM CurrentImageRuns == Spec => []RunsCurrentImage
<1>1. IInv => RunsCurrentImage
  BY DEF IInv, CurrentByStage, RunsCurrentImage
<1> QED
  BY <1>1, SpecIInv, PTL

(* Whichever step of ensure_wamr_running or of the call fails, what it     *)
(* made is given back or owned by g_loaded_module.                         *)
THEOREM NothingIsLeaked == Spec => []NothingLeaks
<1>1. IInv => NothingLeaks
  BY DEF IInv, HeldByStage, AliveByStage, NothingLeaks
<1> QED
  BY <1>1, SpecIInv, PTL

(* The output copied to the caller fits its buffer, whatever the           *)
(* application answers the second time.                                    *)
THEOREM OutputAlwaysFits == Spec => []OutputFits
<1>1. IInv => OutputFits
  <2> SUFFICES ASSUME IInv PROVE OutputFits
    OBVIOUS
  <2>1. call.output_len \in Nat
    BY WasmRuntimeAssumption DEF WasmRuntimeAssumption, IInv, Control, NoCall
  <2> QED
    BY <2>1, WasmRuntimeAssumption
       DEF WasmRuntimeAssumption, IInv, LengthsByStage, Answered, OutputFits
<1> QED
  BY <1>1, SpecIInv, PTL

-----------------------------------------------------------------------------
(* The runtime next to the ledger.                                         *)

LEMMA SameService ==
  /\ PU!Service!Init <=> PP!Service!Init
  /\ [PU!Service!Next]_(PU!Service!vars) <=> [PP!Service!Next]_(PP!Service!vars)
BY Zenon DEF
       PU!Service!Init, PP!Service!Init, PU!Service!Next, PP!Service!Next,
       PU!Service!vars, PP!Service!vars, PU!Service!Receive,
       PP!Service!Receive, PU!Service!Decide, PP!Service!Decide,
       PU!Service!Deliver, PP!Service!Deliver, PU!Service!Effect,
       PP!Service!Effect, PU!Service!TouchesOnlySent,
       PP!Service!TouchesOnlySent, PU!Service!LosesNothingNewer,
       PP!Service!LosesNothingNewer, PU!Service!Fulfilled,
       PP!Service!Fulfilled, PU!Service!CleanTable, PP!Service!CleanTable,
       PU!Service!Sent, PP!Service!Sent, PU!Service!IsComplete,
       PP!Service!IsComplete, PU!Service!Acceptable, PP!Service!Acceptable,
       PU!Service!Errors, PP!Service!Errors, PU!Seen, PP!Seen, PU!Answer,
       PP!Answer, PU!ActiveSet, PP!ActiveSet, PU!TC!Active, PP!TC!Active,
       PU!NoUpdate, PP!NoUpdate

(* A call of a Wasm function reads the ledger and writes nothing of it.    *)
LEMMA RuntimeStepUpdates == [Next]_vars => [PP!Next]_(PP!vars)
<1> SUFFICES ASSUME [Next]_vars PROVE [PP!Next]_(PP!vars)
  OBVIOUS
<1>1. CASE UNCHANGED puVars
  BY <1>1 DEF puVars, PP!vars, PP!tcVars, PP!runVars
<1>2. CASE UpdateStep
  BY <1>2, SameNext DEF UpdateStep
<1>3. CASE \/ UNCHANGED vars \/ Leave \/ EnsureStep \/ UseStep
           \/ \E c \in Calls : Invoke(c)
  <2>1. UNCHANGED puVars
    BY <1>3 DEF EnsureStep, UseStep, vars, At, Invoke, Leave, NotFound, Reuse, Reload,
       InitRuntimeFails, CopyImage, Load, LoadFails, Instantiate, InstantiateFails, Prepare,
       CopyInput, CallForSize, Trap, AllocateOutput, CallForOutput, TrapAgain
  <2> QED
    BY <2>1, <1>1
<1> QED
  BY <1>2, <1>3 DEF Next, EnsureStep, UseStep

(* Calls of Wasm functions between the Updates take nothing from what      *)
(* process_update promises: the ledger moves only as UpdateService allows. *)
THEOREM RuntimeImplementsService == Spec => PU!ImplementsUpdateService
<1>1. Init => PU!Service!Init
  BY SameInit, SameService, ParametersHold, RecordAssumption, PP!InitRefines DEF Init
<1>2. IInv /\ IInv' /\ [Next]_vars => [PU!Service!Next]_(PU!Service!vars)
  <2> SUFFICES ASSUME IInv, IInv', [Next]_vars PROVE [PU!Service!Next]_(PU!Service!vars)
    OBVIOUS
  <2>1. PP!IInv /\ PP!IInv' /\ [PP!Next]_(PP!vars)
    BY RuntimeStepUpdates DEF IInv
  <2>2. [PP!Service!Next]_(PP!Service!vars)
    BY <2>1, ParametersHold, RecordAssumption, PP!NextRefines
  <2> QED
    BY <2>2, SameService
<1> QED
  BY <1>1, <1>2, SpecIInv, PTL DEF Spec, PU!ImplementsUpdateService, PU!Service!Spec
=============================================================================
