------------------------------- MODULE MCStudio -------------------------------
(***************************************************************************)
(* A Studio and its window: a workspace's files (WorkspaceFiles), the       *)
(* settings (Settings), the engines (EngineInstaller), the models           *)
(* (ModelStore), the agent (AgentRun) and the chat (ChatThreads).  A        *)
(* behaviour here is one of theirs, and scene says whose.  What is not in   *)
(* the scene stays as it starts.                                            *)
(***************************************************************************)
EXTENDS WorkspaceFiles, TLC

CONSTANTS notes, nested                                                              \* WorkspaceFiles
CONSTANTS Changers, Varied, StartingFiles, CommandLines, Platform, MaxApplies, MaxCrashes, MaxFailures   \* Settings
CONSTANTS Tags, Flavors, WithCompanion, None, MaxInstalls                            \* EngineInstaller
CONSTANTS Dirs, Ids, RootLists, MaxContents, MaxStoreAsks                  \* ModelStore
CONSTANTS MaxRuns, MAX_STEPS, REPEAT_WARN, REPEAT_STOP, Policies, Beginnings         \* AgentRun
CONSTANTS Threads, Models, MaxAsks, MaxLoads, ChatBeginnings                         \* ChatThreads

VARIABLES
  scene,
  up, flags, settingsFile, memory, built, change, seed, owed, failed, changesLeft,
  latest, listing, status, job, archives, disk, setting, renewed, installsLeft,
  shelf, sidecar, arrived, roots, list, asking, storeLeft,
  window, project, panel, took, needed, approved, late, cut, forgotten, runsLeft,
  thread, chosen, selected, ask, streaming, inFlight, load, latestLoad, loading, resident, unloading, hasty, asksLeft

S == INSTANCE Settings WITH Requests <- Changers, file <- settingsFile, request <- change, left <- changesLeft
I == INSTANCE EngineInstaller WITH replaced <- renewed, left <- installsLeft
M == INSTANCE ModelStore WITH disk <- shelf, ask <- asking, asksLeft <- storeLeft, MaxAsks <- MaxStoreAsks
A == INSTANCE AgentRun WITH disk <- project, left <- runsLeft
T == INSTANCE ChatThreads WITH latest <- latestLoad, left <- asksLeft, Beginnings <- ChatBeginnings

settingsVars == <<up, flags, settingsFile, memory, built, change, seed, owed, failed, changesLeft>>
engineVars   == <<latest, listing, status, job, archives, disk, setting, renewed, installsLeft>>
storeVars    == <<shelf, sidecar, arrived, roots, list, asking, storeLeft>>
agentVars    == <<window, project, panel, took, needed, approved, late, cut, forgotten, runsLeft>>
chatVars     == <<thread, chosen, selected, ask, streaming, inFlight, load, latestLoad, loading, resident, unloading, hasty, asksLeft>>

\* Elsewhere than in its own scene a model has one initial state.
Begin ==
  /\ scene \in {"files", "settings", "engines", "store", "agent", "chat"}
  /\ Init /\ S!Init /\ I!Init /\ M!Init /\ A!Init /\ T!Init
  /\ scene # "files"    => folder /\ \A p \in Paths : file[p] = Absent
  /\ scene # "settings" => settingsFile = S!NoFile /\ flags = <<>>
  /\ scene # "engines"  => latest = CHOOSE t \in Tags : TRUE
  /\ scene # "store"    => roots = CHOOSE l \in RootLists : TRUE
  /\ scene # "agent"    => runsLeft = (CHOOSE b \in Beginnings : TRUE).left
  /\ scene # "chat"     => asksLeft = CHOOSE b \in ChatBeginnings : TRUE

Workspace == scene = "files"    /\ Next   /\ UNCHANGED <<scene, settingsVars, engineVars, storeVars, agentVars, chatVars>>
Setting   == scene = "settings" /\ S!Next /\ UNCHANGED <<scene, vars, engineVars, storeVars, agentVars, chatVars>>
Engine    == scene = "engines"  /\ I!Next /\ UNCHANGED <<scene, vars, settingsVars, storeVars, agentVars, chatVars>>
Store     == scene = "store"    /\ M!Next /\ UNCHANGED <<scene, vars, settingsVars, engineVars, agentVars, chatVars>>
Agent     == scene = "agent"    /\ A!Next /\ UNCHANGED <<scene, vars, settingsVars, engineVars, storeVars, chatVars>>
Chat      == scene = "chat"     /\ T!Next /\ UNCHANGED <<scene, vars, settingsVars, engineVars, storeVars, agentVars>>

Behaviour == Begin /\ [][Workspace \/ Setting \/ Engine \/ Store \/ Agent \/ Chat]_<<scene, vars, settingsVars, engineVars, storeVars, agentVars, chatVars>>
-----------------------------------------------------------------------------
\* Settings whose every field holds something it may.
Fits(set) == \A f \in S!Fields \cap DOMAIN set : set[f] \in S!Values(f)

ASSUME StudioAssumption ==
  /\ \A set \in StartingFiles \cup CommandLines : Fits(set)
  /\ Varied \subseteq S!Fields
  /\ None \notin I!Builds
  /\ RootLists \subseteq Seq(Dirs) /\ MaxContents \in Nat
  /\ MaxRuns \in Nat /\ MAX_STEPS \in Nat
  /\ \A b \in Beginnings : b.file \in A!Texts /\ b.file.agent = A!NoCall
  /\ MaxAsks \in Nat /\ MaxLoads \in Nat /\ Threads # {} /\ Models # {}
  /\ None \notin Models \cup Seq([k: {"user", "reply"}, is: T!Asks, by: T!Asks, cut: BOOLEAN])
-----------------------------------------------------------------------------
(* The settings under Settings' invariant. *)
SettingsSafe == scene = "settings" => S!SettingsSafe
(* The engines under EngineInstaller's, the models under ModelStore's. *)
LibrarySafe == (scene = "engines" => I!InstallerSafe) /\ (scene = "store" => M!StoreSafe)
(* A window's agent under AgentRun's, its threads under ChatThreads'. *)
WindowSafe == (scene = "agent" => A!AgentSafe) /\ (scene = "chat" => T!ThreadsSafe)
-----------------------------------------------------------------------------
(* A file beside the folder, of every kind and mode the handlers tell apart; *)
(* in the folder a text, or nothing.                                         *)
MCPaths == {notes, nested}
Theirs(k, m) == File(<<Other>>, k, m, TRUE)
MCStarts == {(notes :> f) @@ (nested :> Absent) :
               f \in {Absent, Theirs("text", "program"), Theirs("text", "readonly"), Theirs("huge", "plain"), Theirs("binary", "plain")}}
            \cup {(notes :> Absent) @@ (nested :> Theirs("large", "program"))}
(* One directory, or two of which the second may hold a name of the first.   *)
MCRootLists == {<<"a">>, <<"b", "a">>}
\* Nothing tells one request for a file from another.
MCSymmetry == Permutations(Requests)
(* The settings of an older Studio, and a gateway's; and one field the       *)
(* command line sets.                                                        *)
MCFiles == {("network" :> "testnet11") @@ ("schema" :> "old"), ("backend.kind" :> "gateway") @@ ("server.api_key" :> "other")}
MCFlags == {<<>>, "backend.kind" :> "llamacpp"}
(* One thing a person, another program or the runtime may do to the agent in *)
(* each beginning, and the calls of that beginning.                          *)
MCLimits == [sends |-> 2, replies |-> 2, kinds |-> {"edit"}, others |-> 0, retries |-> 0, clears |-> 0,
             reloads |-> 0, reverts |-> 0, policies |-> 0, losses |-> 0]
NoFile  == [there |-> FALSE, agent |-> <<0, 0>>, other |-> 0]
OldFile == [there |-> TRUE, agent |-> <<0, 0>>, other |-> 0]
Beginning(policy, file_, limits) == [policy |-> policy, file |-> file_, left |-> limits]
MCBeginnings ==
  {Beginning("ask", NoFile, [MCLimits EXCEPT !.sends = 1, !.replies = 3, !.kinds = {"read", "edit", "write", "command"}]),
   Beginning("ask", OldFile, [MCLimits EXCEPT !.reloads = 1]),
   Beginning("ask", OldFile, [MCLimits EXCEPT !.sends = 1, !.replies = 3, !.policies = 1, !.kinds = {"edit", "command"}]),
   Beginning("auto_edit", NoFile, [MCLimits EXCEPT !.sends = 1, !.reverts = 1, !.kinds = {"write"}]),
   Beginning("auto_edit", OldFile, [MCLimits EXCEPT !.sends = 1, !.others = 1, !.reverts = 1]),
   Beginning("auto_edit", OldFile, [MCLimits EXCEPT !.losses = 1]),
   Beginning("auto_edit", OldFile, [MCLimits EXCEPT !.retries = 1, !.kinds = {"edit", "command"}]),
   Beginning("auto_edit", OldFile, [MCLimits EXCEPT !.clears = 1, !.kinds = {"edit", "command"}])}
(* Three replies; loads beside one; two turns beside two; two loads beside   *)
(* two.                                                                      *)
Chats(asks, loads, turns) == [asks |-> asks, loads |-> loads, turns |-> turns]
MCChats == {Chats(3, 0, 0), Chats(1, 2, 1), Chats(2, 0, 2), Chats(2, 2, 0)}
=============================================================================
