----------------------------- MODULE WasmRuntime ----------------------------
(***************************************************************************)
(* Running an application: ecall_invoke_wasm of Enclave_wasm.cpp with the  *)
(* one module it keeps loaded between calls, next to the Updates (PU) that *)
(* install and replace applications in the ledger.                         *)
(*                                                                         *)
(* WAMR is external: each of its calls may fail, and a Wasm function       *)
(* returns any length or traps.  The application is asked twice, for the   *)
(* size of its output and for the output.  Between an Update and an        *)
(* invocation the enclave's one thread is free; inside either it is not.   *)
(***************************************************************************)
EXTENDS TcRecord, Sequences, FiniteSetsExt

CONSTANTS
  MaxRecords, SeqOf, ManifestNameOf, WappOf, ImageOf, CommandsOf, Updates,
  MaxManifests, NoReport, Faults,
  Calls,       (* the arguments ecall_invoke_wasm may get                  *)
  MaxLen       (* the largest length an application returns                *)

ASSUME WasmRuntimeAssumption ==
  /\ Calls \subseteq [wapp_name : Names \cup {NoName}, input : BOOLEAN, output_len : Nat]
  /\ MaxLen \in Nat \ {0}

VARIABLES
  records, record_len, rc, g_suit_report,
  pc, update, manifest_index, called, suit_ok, reported, message, before,
  runtime_inited,
  g_loaded_module, (* its copy of the image, module, instance and hash     *)
  live,            (* how many of each exist, referred to or not           *)
  ipc,             (* where ecall_invoke_wasm is                           *)
  call,            (* its arguments                                        *)
  held,            (* what this call has to give back                      *)
  ret_len,         (* the size the application announced                   *)
  actual_len,      (* the length of the output                             *)
  result           (* what the call returns                                *)

PU == INSTANCE ProcessUpdate

ASSUME UpdateAssumption == PU!UpdateParameters

puVars   == <<records, record_len, rc, g_suit_report, pc, update, manifest_index,
              called, suit_ok, reported, message, before>>
loadVars == <<runtime_inited, g_loaded_module, live>>
lenVars  == <<ret_len, actual_len>>
vars     == <<puVars, loadVars, ipc, call, held, lenVars, result>>

NoCall  == [wapp_name |-> NoName, input |-> FALSE, output_len |-> 0]

BlankModule ==
  [wapp_bin |-> NoImage, module |-> FALSE, module_instance |-> FALSE, wapp_hash |-> NoImage]

Parts == {"wapp_bin", "module", "module_instance"}

Owns(loaded, part) ==
  CASE part = "wapp_bin"        -> loaded.wapp_bin # NoImage
    [] part = "module"          -> loaded.module
    [] part = "module_instance" -> loaded.module_instance

Made(part) == [live EXCEPT ![part] = @ + 1]

(* (Mutant: a module that could not be instantiated is left to the reset,  *)
(* which does not know of it.)                                             *)
StillLoaded(n) == n

Unloaded(n) == [n EXCEPT !["module"] = @ - 1]

Freed(n) == [p \in Parts |-> IF Owns(g_loaded_module, p) THEN n[p] - 1 ELSE n[p]]

(* reset_wamr_loaded_module, n things being alive before it.  (Mutant: no  *)
(* memset.)                                                                *)
reset_without_memset(n) == live' = Freed(n) /\ UNCHANGED g_loaded_module

reset(n) == live' = Freed(n) /\ g_loaded_module' = BlankModule

record   == PU!TC!find_by_wapp_name(call.wapp_name)
Runnable == PU!TC!WithWappName(call.wapp_name) # {} /\ record.wapp_bin # NoImage

At(p)   == ipc = p /\ UNCHANGED <<puVars, call>>
Goto(p) == ipc' = p /\ UNCHANGED result

(* The call returns r, having given back what is in freed.                 *)
Return(r, freed) ==
  /\ ipc' = "returned"
  /\ result' = r
  /\ held' = held \ freed

-----------------------------------------------------------------------------
(* The call and ensure_wamr_running.  NoName stands for any argument that  *)
(* is missing.                                                             *)

Invoke(c) ==
  /\ ipc = "idle" /\ pc = "waiting"
  /\ call' = c
  /\ actual_len' = 0
  /\ IF c.wapp_name = NoName
     THEN Return("INVALID_ARGUMENT", {})
     ELSE Goto("ensure") /\ UNCHANGED held
  /\ UNCHANGED <<puVars, loadVars, ret_len>>

NotFound ==
  /\ At("ensure")
  /\ ~Runnable
  /\ Return("TRUSTED_COMPONENT_NOT_FOUND", {})
  /\ UNCHANGED <<loadVars, lenVars>>

(* Is the instance that is loaded the one the record asks for?  (Mutant:   *)
(* any instance is.)                                                       *)
AnyInstance == g_loaded_module.module_instance

SameInstance ==
  g_loaded_module.module_instance /\ g_loaded_module.wapp_hash = record.wapp_hash

Reuse ==
  /\ At("ensure")
  /\ Runnable
  /\ SameInstance
  /\ Goto("prepare")
  /\ UNCHANGED <<loadVars, held, lenVars>>

Reload ==
  /\ At("ensure")
  /\ Runnable
  /\ ~SameInstance
  /\ IF g_loaded_module.module_instance
     THEN reset(live)
     ELSE UNCHANGED <<g_loaded_module, live>>
  /\ Goto("copy")
  /\ UNCHANGED <<runtime_inited, held, lenVars>>

InitRuntimeFails ==
  /\ At("copy")
  /\ ~runtime_inited
  /\ Return("INTERNAL_ERROR", {})
  /\ UNCHANGED <<loadVars, lenVars>>

(* The runtime is up, and the image is copied if there is memory.          *)
CopyImage ==
  /\ At("copy")
  /\ runtime_inited' = TRUE
  /\ \/ /\ g_loaded_module' = [g_loaded_module EXCEPT !.wapp_bin = record.wapp_bin]
        /\ live' = Made("wapp_bin")
        /\ Goto("load")
        /\ UNCHANGED held
     \/ /\ Return("RESOURCE_EXHAUSTED", {})
        /\ UNCHANGED <<g_loaded_module, live>>
  /\ UNCHANGED lenVars

Load ==
  /\ At("load")
  /\ live' = Made("module")
  /\ Goto("instantiate")
  /\ UNCHANGED <<runtime_inited, g_loaded_module, held, lenVars>>

LoadFails ==
  /\ At("load")
  /\ reset(live)
  /\ Return("WASM_INCOMPATIBLE", {})
  /\ UNCHANGED <<runtime_inited, lenVars>>

(* The new module is not yet part of g_loaded_module.                      *)
Instantiate ==
  /\ At("instantiate")
  /\ live' = Made("module_instance")
  /\ g_loaded_module' = [g_loaded_module EXCEPT !.module = TRUE,
                                                !.module_instance = TRUE,
                                                !.wapp_hash = record.wapp_hash]
  /\ Goto("prepare")
  /\ UNCHANGED <<runtime_inited, held, lenVars>>

InstantiateFails ==
  /\ At("instantiate")
  /\ reset(Unloaded(live))
  /\ Return("WASM_INCOMPATIBLE", {})
  /\ UNCHANGED <<runtime_inited, lenVars>>

-----------------------------------------------------------------------------
(* The call of the application's function.                                 *)

InputBuffer == held \cap {"input"}

(* The function is looked up, then an execution environment is made.       *)
Prepare ==
  /\ At("prepare")
  /\ \/ Return("WASM_INCOMPATIBLE", {})
     \/ Return("INTERNAL_ERROR", {})
     \/ Goto("input") /\ held' = held \cup {"exec_env"}
  /\ UNCHANGED <<loadVars, lenVars>>

CopyInput ==
  /\ At("input")
  /\ \/ /\ held' = IF call.input THEN held \cup {"input"} ELSE held
        /\ Goto("size")
     \/ call.input /\ Return("RESOURCE_EXHAUSTED", {"exec_env"})
  /\ UNCHANGED <<loadVars, lenVars>>

(* The first call: n is the size of the output.                            *)
SizeFits(n) == n <= call.output_len

CallForSize(n) ==
  /\ At("size")
  /\ IF n = 0
     THEN Return("WASM_EXECUTION_FAILED", InputBuffer \cup {"exec_env"})
     ELSE IF ~SizeFits(n)
     THEN Return("OUTPUT_BUFFER_TOO_SMALL", InputBuffer \cup {"exec_env"})
     ELSE Goto("output") /\ UNCHANGED held
  /\ ret_len' = n
  /\ UNCHANGED <<loadVars, actual_len>>

Trap ==
  /\ At("size")
  /\ Return("WASM_EXECUTION_FAILED", InputBuffer \cup {"exec_env"})
  /\ UNCHANGED <<loadVars, lenVars>>

AllocateOutput ==
  /\ At("output")
  /\ \/ held' = held \cup {"output"} /\ Goto("call")
     \/ Return("RESOURCE_EXHAUSTED", InputBuffer \cup {"exec_env"})
  /\ UNCHANGED <<loadVars, lenVars>>

(* The second call: n is the length of the output, which is cut to the     *)
(* size announced.  (Mutant: it is not.)                                   *)
Uncut(n) == n

Cut(n) == Min({n, ret_len})

OutputFreed == InputBuffer \cup {"output", "exec_env"}

CallForOutput(n) ==
  /\ At("call")
  /\ IF n = 0
     THEN Return("WASM_EXECUTION_FAILED", OutputFreed) /\ UNCHANGED actual_len
     ELSE Return("OK", OutputFreed) /\ actual_len' = Cut(n)
  /\ UNCHANGED <<loadVars, ret_len>>

TrapAgain ==
  /\ At("call")
  /\ Return("WASM_EXECUTION_FAILED", OutputFreed)
  /\ UNCHANGED <<loadVars, lenVars>>

(* The caller has the result.                                              *)
Leave ==
  /\ ipc = "returned"
  /\ ipc' = "idle"
  /\ call' = NoCall
  /\ result' = "NONE"
  /\ ret_len' = 0
  /\ actual_len' = 0
  /\ UNCHANGED <<puVars, loadVars, held>>

-----------------------------------------------------------------------------
Init ==
  /\ PU!Init
  /\ runtime_inited = FALSE
  /\ g_loaded_module = BlankModule
  /\ live = [p \in Parts |-> 0]
  /\ ipc = "idle"
  /\ call = NoCall
  /\ held = {}
  /\ ret_len = 0
  /\ actual_len = 0
  /\ result = "NONE"

UpdateStep ==
  /\ ipc = "idle"
  /\ PU!Next
  /\ UNCHANGED <<loadVars, ipc, call, held, lenVars, result>>

Next ==
  \/ UpdateStep
  \/ \E c \in Calls : Invoke(c)
  \/ NotFound
  \/ Reuse
  \/ Reload
  \/ InitRuntimeFails
  \/ CopyImage
  \/ Load
  \/ LoadFails
  \/ Instantiate
  \/ InstantiateFails
  \/ Prepare
  \/ CopyInput
  \/ \E n \in 0 .. MaxLen : CallForSize(n) \/ CallForOutput(n)
  \/ Trap
  \/ AllocateOutput
  \/ TrapAgain
  \/ Leave

Spec == Init /\ [][Next]_vars

-----------------------------------------------------------------------------
(* Properties.                                                             *)

TypeOK ==
  /\ PU!TypeOK
  /\ runtime_inited \in BOOLEAN
  /\ g_loaded_module \in [wapp_bin : Images \cup {NoImage}, module : BOOLEAN,
                          module_instance : BOOLEAN, wapp_hash : Images \cup {NoImage}]
  /\ live \in [Parts -> 0 .. 1]
  /\ call \in Calls \cup {NoCall}
  /\ held \subseteq {"exec_env", "input", "output"}
  /\ ret_len \in 0 .. MaxLen /\ actual_len \in 0 .. MaxLen

Answered == ipc = "returned" /\ result = "OK"

(* The instance that produced an output was made from the image the ledger *)
(* has for the name at that moment: an installed update takes effect with  *)
(* the next invocation, whatever is loaded from before.                    *)
RunsCurrentImage ==
  Answered => g_loaded_module.module_instance /\ g_loaded_module.wapp_bin = record.wapp_bin

(* Between calls every copy, module and instance that is alive is the one  *)
(* g_loaded_module owns, and the call's own buffers and its environment    *)
(* are given back, whichever of the failures it ended with: with a heap of *)
(* one pool nothing that is lost there ever comes back.                    *)
NothingLeaks ==
  ipc \in {"idle", "returned"} =>
    /\ held = {}
    /\ \A p \in Parts : live[p] = IF Owns(g_loaded_module, p) THEN 1 ELSE 0

(* What is copied to the caller fits the output buffer of the enclave's    *)
(* heap and the caller's, though the second answer of the application need *)
(* not agree with the first; and only a call that succeeded has an output. *)
OutputFits ==
  /\ actual_len <= ret_len
  /\ actual_len > 0 => actual_len <= call.output_len
  /\ ipc = "returned" => (actual_len > 0 <=> result = "OK")

(* "verifies and processes the received manifest with SUIT; on success, it *)
(* stores or updates app information in records" (InternalDesignDocument): *)
(* an application that runs is complete and passed its image match.        *)
RunsOnlyVerified ==
  Answered =>
    /\ IsComplete(record)
    /\ "match" \in CommandsOf[record.manifest_digest] =>
         record.wapp_bin = ImageOf[record.manifest_digest]
=============================================================================
