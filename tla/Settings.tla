------------------------------- MODULE Settings -------------------------------
(***************************************************************************)
(* The settings: the file, the copy in memory, and the parts built from    *)
(* them (crates/misaka-studio-core/src/settings.rs; state.rs:              *)
(* apply_settings; the handlers that change a setting).                    *)
(*                                                                         *)
(* Settings are a function from field to value; a field has its default    *)
(* and one other value unless said otherwise.  What a load puts into the   *)
(* engine slot is ModelRuntime's; here the slot holds what was built.      *)
(***************************************************************************)
EXTENDS Naturals, Sequences, SequencesExt

CONSTANTS
  Requests,      \* requests that change settings, at the same time
  Varied,        \* the fields the client changes
  StartingFiles, \* what a file there at the first start may have set: [fields -> values]
  CommandLines,  \* [fields -> values] the command line may set
  Platform,      \* "mac" where MLX runs
  MaxApplies, MaxCrashes, MaxFailures   \* bounds

VARIABLES
  up,        \* the process runs
  flags,     \* what its command line sets
  file,      \* settings.json: [whole, is] or NoFile
  memory,    \* AppState.settings
  built,     \* [Parts -> what the part was built from]
  request,   \* [Requests -> where the request is]
  seed,      \* producer.seed exists
  owed,      \* settings a reader of the file may find: the last acknowledged, and those asked for since
  failed,    \* settings whose apply failed since every part was as it should be
  left       \* what the bounds leave

vars == <<up, flags, file, memory, built, request, seed, owed, failed, left>>
-----------------------------------------------------------------------------
(* The sections of the file. *)

ServerFields     == {"server.host", "server.port", "server.api_key", "server.cors_origins"}
StrataFields     == {"strata.config_path", "strata.python_path", "strata.arena_gb", "strata.io_threads", "strata.prefetch_experts"}
BackendFields    == {"backend.kind", "llama_server_path", "mlx_server_path", "misaka_serve_path", "misaka_tokenizer_path",
                     "gpu_layers", "threads", "flash_attention", "use_mmap", "use_mlock", "extra_args", "startup_timeout_secs"}
ImageFields      == {"image.kind", "image.python_path", "diffusion_server_path", "image.device", "image.startup_timeout_secs"}
FreePromptFields == {"gateway_path", "rail_path", "worker_path", "listen", "fp.artifact", "fp.tokenizer", "fp.bond",
                     "evidence_provider", "fp.accept_unverified"}
RemoteFields     == {"remote_miner_path", "attempt_exec_path", "rpc", "bond", "class", "artifact", "pay_address", "key_path",
                     "checkpoint", "state_dir", "verify_headers", "accept_unverified", "poll_secs"}
NodeFields       == {"misaka_rpc", "misaka_cli_path", "network", "producer_key_path", "install_default_class_artifact",
                     "palw_gateway_url", "mining_mode"} \cup RemoteFields \cup FreePromptFields
GenerationFields == {"system_prompt", "context_size", "temperature", "top_p", "top_k", "min_p", "repeat_penalty", "max_tokens", "seed"}
ContextFields    == {"summarizer_model", "tokenizer_path", "fetch_class_tokenizer"}
HubFields        == {"hf.endpoint", "hf.token"}
UiFields         == {"theme", "show_provenance", "show_performance"}
RecordFields     == {"record_inferences", "keep_transcripts", "max_records"}
WebFields        == {"web.mode", "tor_proxy", "tor_browser_path"}

Fields ==
  {"schema", "models_dir", "load_on_start"} \cup ServerFields \cup StrataFields \cup BackendFields \cup ImageFields
    \cup NodeFields \cup GenerationFields \cup ContextFields \cup HubFields \cup UiFields \cup RecordFields \cup WebFields

BackendKinds == {"auto", "llamacpp", "mlx", "mock", "strata", "gateway", "misaka"}
Networks     == {"testnet12", "testnet11", "devnet", "simnet"}
MiningModes  == {"inline", "background"}
Listens      == {"default", "other"}

\* A gateway URL is None, the one the Studio's own gateway listens at, or somebody else's.
Values(f) ==
  CASE f = "backend.kind"     -> BackendKinds
    [] f = "network"          -> Networks
    [] f = "mining_mode"      -> MiningModes
    [] f = "palw_gateway_url" -> {"none", "elsewhere"} \cup Listens
    [] f = "schema"           -> {"old", "default"}
    [] OTHER                  -> {"default", "other"}

Default(f) ==
  CASE f = "backend.kind"     -> "auto"
    [] f = "network"          -> "testnet12"
    [] f = "mining_mode"      -> "inline"
    [] f = "palw_gateway_url" -> "none"
    [] OTHER                  -> "default"
Defaults == [f \in Fields |-> Default(f)]

\* A public bind and no key.
requires_api_key(s) == s["server.host"] # "default" /\ s["server.api_key"] = "default"

\* A file of an older Studio is moved off the retired network, once.
migrate(s) ==
  [s EXCEPT !["network"] = IF s["schema"] = "old" /\ @ = "testnet11" THEN "testnet12" ELSE @,
            !["schema"] = "default"]

Overridden(s) == [f \in Fields |-> IF f \in DOMAIN flags THEN flags[f] ELSE s[f]]
-----------------------------------------------------------------------------
(* What is built from settings. *)

Parts == {"summarizer", "backend", "image", "roots", "catalog", "records"}

gateway_url(s) == IF s["palw_gateway_url"] = "none" THEN s["listen"] ELSE s["palw_gateway_url"]

Engine(s) ==
  CASE s["backend.kind"] # "auto" -> s["backend.kind"]
    [] Platform = "mac" /\ s["mlx_server_path"] # "default" -> "mlx"
    [] OTHER -> "llamacpp"

EngineReads(engine) ==
  CASE engine = "llamacpp" -> {"llama_server_path", "startup_timeout_secs"}
    [] engine = "mlx"      -> {"mlx_server_path", "startup_timeout_secs"}
    [] engine = "strata"   -> StrataFields \cup {"startup_timeout_secs"}
    [] engine = "misaka"   -> {"misaka_serve_path", "misaka_tokenizer_path", "startup_timeout_secs"}
    [] OTHER               -> {}                       \* the mock; the gateway reads its address

ImageReads(kind) == IF kind = "default" THEN {} ELSE ImageFields \ {"image.kind"}

Restricted(s, S) == [f \in S |-> s[f]]
Built(part, what, reads, address) == [part |-> part, what |-> what, reads |-> reads, address |-> address]

Build(part, s) ==
  CASE part = "backend" ->
         Built(part, Engine(s), Restricted(s, EngineReads(Engine(s))), IF Engine(s) = "gateway" THEN gateway_url(s) ELSE "none")
    [] part = "image"      -> Built(part, s["image.kind"], Restricted(s, ImageReads(s["image.kind"])), "none")
    [] part = "roots"      -> Built(part, "roots", Restricted(s, {"models_dir", "strata.config_path"}), "none")
    [] part = "catalog"    -> Built(part, "catalog", Restricted(s, HubFields), "none")
    [] part = "records"    -> Built(part, "records", Restricted(s, {"record_inferences", "max_records"}), "none")
    [] part = "summarizer" -> Built(part, "engine", Restricted(s, {"summarizer_model", "llama_server_path"}), "none")

NoEngine == Built("summarizer", "none", [summarizer_model |-> "none", llama_server_path |-> "none"], "none")

\* The fields a change of which rebuilds the part.
Compared(part) ==
  CASE part = "backend"    -> {"backend.kind", "llama_server_path", "mlx_server_path", "palw_gateway_url", "mining_mode"} \cup StrataFields
    [] part = "image"      -> {"image.kind", "image.python_path", "diffusion_server_path", "image.device"}
    [] part = "roots"      -> {"models_dir", "strata.config_path"}
    [] part = "catalog"    -> HubFields
    [] part = "records"    -> {"record_inferences", "max_records"}
    [] part = "summarizer" -> {"summarizer_model", "llama_server_path"}

Changed(part, old, new) == \E f \in Compared(part) : new[f] # old[f]
-----------------------------------------------------------------------------
NoFile == [whole |-> FALSE, is |-> <<>>]      \* a torn file reads like no settings at all, but is refused
Saved(set) == [whole |-> TRUE, is |-> [f \in Fields |-> IF f \in DOMAIN set THEN set[f] ELSE Default(f)]]
NoRequest == [at |-> "idle", old |-> <<>>, new |-> <<>>]

Places == {"idle", "read", "write", "rename", "memory"} \cup Parts

TypeOK ==
  /\ {up, seed} \subseteq BOOLEAN
  /\ file.whole \in BOOLEAN /\ (file.whole => file.is \in owed)
  /\ \A f \in Fields : memory[f] \in Values(f)
  /\ \A p \in Parts : built[p].part = p
  /\ \A r \in Requests : request[r].at \in Places

\* AppState::new.
BootWith(s) ==
  /\ memory' = s
  /\ built' = [p \in Parts |-> IF p = "summarizer" THEN NoEngine ELSE Build(p, s)]
  /\ request' = [r \in Requests |-> NoRequest]
  /\ failed' = {}

Init ==
  /\ file \in {NoFile} \cup {Saved(set) : set \in StartingFiles} /\ flags \in CommandLines
  /\ owed = {file.is} /\ failed = {}
  /\ LET s == Overridden(IF file.whole THEN migrate(file.is) ELSE Defaults)
     IN /\ memory = s
        /\ built = [p \in Parts |-> IF p = "summarizer" THEN NoEngine ELSE Build(p, s)]
  /\ up = ~requires_api_key(memory)
  /\ request = [r \in Requests |-> NoRequest]
  /\ seed = FALSE
  /\ left = [applies |-> MaxApplies, crashes |-> MaxCrashes, failures |-> MaxFailures]

\* No file is a first start; half a file, or a public bind without a key, is refused.
Boot ==
  /\ ~up /\ (file = NoFile \/ file.whole)
  /\ LET s == Overridden(IF file.whole THEN migrate(file.is) ELSE Defaults)
     IN ~requires_api_key(s) /\ BootWith(s)
  /\ up' = TRUE
  /\ UNCHANGED <<flags, file, seed, owed, left>>

Crash ==
  /\ up /\ left.crashes > 0
  /\ up' = FALSE /\ left' = [left EXCEPT !.crashes = @ - 1]
  /\ UNCHANGED <<flags, file, memory, built, request, seed, owed, failed>>
-----------------------------------------------------------------------------
(* The handlers: each takes a copy of the settings, changes it, and asks    *)
(* for it to be applied.                                                    *)

Ask(r, new) ==
  /\ up /\ request[r].at = "idle" /\ left.applies > 0
  /\ request' = [request EXCEPT ![r] = [NoRequest EXCEPT !.at = "read", !.new = new]]
  /\ left' = [left EXCEPT !.applies = @ - 1]
  /\ UNCHANGED <<up, flags, file, memory, built, owed, failed>>

put_settings(r) ==
  \E f \in Varied : \E v \in Values(f) \ {memory[f]} :
    LET new == [memory EXCEPT ![f] = v, !["schema"] = "default"]
    IN ~requires_api_key(new) /\ Ask(r, new) /\ UNCHANGED seed

reset_settings(r) == Ask(r, Defaults) /\ UNCHANGED seed

set_mode(r) == \E m \in MiningModes : Ask(r, [memory EXCEPT !["mining_mode"] = m]) /\ UNCHANGED seed

\* Not while the miner runs (external), nor over a seed that is there.
producer_key(r) ==
  /\ ~seed /\ seed' = TRUE
  /\ Ask(r, [memory EXCEPT !["producer_key_path"] = "other"])

\* The chat is pointed at the gateway just started, unless somebody chose another; and back.
prompt_stack_start(r) ==
  /\ memory["palw_gateway_url"] = "none"
  /\ Ask(r, [memory EXCEPT !["palw_gateway_url"] = gateway_url(memory)]) /\ UNCHANGED seed

prompt_stack_stop(r) ==
  /\ memory["palw_gateway_url"] = memory["listen"]
  /\ Ask(r, [memory EXCEPT !["palw_gateway_url"] = "none"]) /\ UNCHANGED seed

\* An engine was installed.
engine_installed(r) == Ask(r, [memory EXCEPT !["llama_server_path"] = "other"]) /\ UNCHANGED seed

Handlers(r) ==
  put_settings(r) \/ reset_settings(r) \/ set_mode(r) \/ producer_key(r) \/ prompt_stack_start(r) \/ prompt_stack_stop(r)
    \/ engine_installed(r)
-----------------------------------------------------------------------------
(* apply_settings. *)

Order == <<"summarizer", "backend", "image", "roots", "catalog", "records", "memory">>

\* The next part to rebuild, after the first n of them.
After(n, old, new) ==
  LET due == {i \in n + 1 .. Len(Order) : Order[i] = "memory" \/ Changed(Order[i], old, new)}
  IN Order[CHOOSE i \in due : \A j \in due : i <= j]

Position(part) == CHOOSE i \in 1 .. Len(Order) : Order[i] = part

Advance(r) == request' = [request EXCEPT ![r].at = After(Position(@), request[r].old, request[r].new)]
GiveUp(r)  == /\ request' = [request EXCEPT ![r] = NoRequest]
              /\ failed' = failed \cup {request[r].new}
              /\ left.failures > 0 /\ left' = [left EXCEPT !.failures = @ - 1]

\* A Strata profile that does not hold is refused before anything is written.
Begin(r) ==
  /\ up /\ request[r].at = "read"
  /\ \/ /\ request' = [request EXCEPT ![r].at = "write", ![r].old = memory]
        /\ owed' = owed \cup {request[r].new}
     \/ /\ \/ \E f \in StrataFields : request[r].new[f] # memory[f]
           \/ request[r].new["backend.kind"] = "strata" /\ memory["backend.kind"] # "strata"
        /\ request' = [request EXCEPT ![r] = NoRequest]
        /\ UNCHANGED owed
  /\ UNCHANGED <<up, flags, file, memory, built, seed, failed, left>>

\* Mutant: the file is written in place.
WriteInPlace(r) ==
  /\ up /\ request[r].at = "write"
  /\ file' = [NoFile EXCEPT !.is = request[r].new]
  /\ request' = [request EXCEPT ![r].at = "rename"]
  /\ UNCHANGED <<up, flags, memory, built, seed, owed, failed, left>>

\* Settings::save: a file beside it, and the name.
Write(r) ==
  /\ up /\ request[r].at = "write"
  /\ request' = [request EXCEPT ![r].at = "rename"]
  /\ UNCHANGED <<up, flags, file, memory, built, seed, owed, failed, left>>

Rename(r) ==
  /\ up /\ request[r].at = "rename"
  /\ file' = [whole |-> TRUE, is |-> request[r].new]
  /\ request' = [request EXCEPT ![r].at = After(0, request[r].old, request[r].new)]
  /\ UNCHANGED <<up, flags, memory, built, seed, owed, failed, left>>

Rebuild(r) ==
  LET part == request[r].at IN
  /\ up /\ part \in Parts
  /\ built' = [built EXCEPT ![part] = IF part = "summarizer" THEN NoEngine ELSE Build(part, request[r].new)]
  /\ Advance(r)
  /\ UNCHANGED <<up, flags, file, memory, seed, owed, failed, left>>

\* An engine that will not unload; directories that cannot be scanned, which are set all the same.
RebuildFails(r) ==
  LET part == request[r].at IN
  /\ up /\ part \in {"backend", "image", "roots"}
  /\ built' = IF part = "roots" THEN [built EXCEPT ![part] = Build(part, request[r].new)] ELSE built
  /\ GiveUp(r)
  /\ UNCHANGED <<up, flags, file, memory, seed, owed>>

\* The client is gone: the request ends where it waits.
Abandon(r) ==
  /\ up /\ request[r].at \in Parts \cup {"memory"}
  /\ GiveUp(r)
  /\ UNCHANGED <<up, flags, file, memory, built, seed, owed>>

\* Trying again what failed repairs everything it left half done.
Remember(r) ==
  LET new == request[r].new IN
  /\ up /\ request[r].at = "memory"
  /\ memory' = new
  /\ owed' = {new}
  /\ failed' = IF failed \subseteq {new} THEN {} ELSE failed
  /\ request' = [request EXCEPT ![r] = NoRequest]
  /\ UNCHANGED <<up, flags, file, built, seed, left>>

\* The summarizer's engine starts at its first use, and again for another model.
Summarize ==
  /\ up
  /\ built["summarizer"].reads["summarizer_model"] # memory["summarizer_model"]
  /\ built' = [built EXCEPT !["summarizer"] = Build("summarizer", memory)]
  /\ UNCHANGED <<up, flags, file, memory, request, seed, owed, failed, left>>

apply_settings(r) == Begin(r) \/ Write(r) \/ Rename(r) \/ Rebuild(r) \/ RebuildFails(r) \/ Abandon(r) \/ Remember(r)

Next == Boot \/ Crash \/ Summarize \/ \E r \in Requests : Handlers(r) \/ apply_settings(r)
Spec == Init /\ [][Next]_vars
-----------------------------------------------------------------------------
(* Properties. *)

(* The file holds a whole copy of the settings last acknowledged, or of     *)
(* those being applied, whatever moment the process dies at: a Studio with  *)
(* half a file would not start (Settings::save).                            *)
FileIsWhole == (file.whole \/ file = NoFile) /\ file.is \in owed

(* When no request is under way, memory is what the file holds, or the file *)
(* and the command line; and every part that apply_settings compares is     *)
(* built from memory.  A request that failed half way leaves neither, until *)
(* the same settings are asked for again, which must repair all of it: the  *)
(* copy in memory is written last, so that the second request still sees    *)
(* every difference.                                                        *)
AtRest == up /\ failed = {} /\ \A r \in Requests : request[r].at = "idle"

PartsFollow ==
  AtRest =>
    /\ memory \in {file.is, Overridden(IF file.whole THEN migrate(file.is) ELSE Defaults)}
    /\ \A p \in Parts \ {"summarizer"} : built[p] = Build(p, memory)

SettingsSafe == TypeOK /\ FileIsWhole /\ PartsFollow

(* "A gateway engine IS its address ... a changed gateway URL with the kind *)
(* still Gateway must rebuild the engine, or it keeps answering - and       *)
(* mining - at the old address" (state.rs, apply_settings).                 *)
GatewayIsWhereItListens ==
  AtRest /\ built["backend"].what = "gateway" => built["backend"].address = gateway_url(memory)
=============================================================================
