------------------------- MODULE ModelRuntimeProofs -------------------------
(***************************************************************************)
(* What TLAPS proves of the model lifecycle for any number of handlers,    *)
(* models, kinds, processes, deaths and hang-ups: its types and the        *)
(* exclusion of load_lock (RuntimeInv); that one kind of engine never runs *)
(* two processes; that the gauge counts the calls in flight; and that the  *)
(* record names what the slot's engine serves, and a load leaves an engine *)
(* alone that already serves its model (ServedInv).                        *)
(***************************************************************************)
EXTENDS ModelRuntime, FiniteSetTheorems, TLAPS

\* A load that holds load_lock.
Inside == {"check", "choose", "stop", "spawn", "health", "slot", "tokenizer"}

(* load_lock is held by who is inside a load, and by one of them.           *)
LockOK ==
  /\ \A l \in Loaders : at[l] \in Inside <=> l \in lock
  /\ \A k, l \in lock : k = l

(* Nothing remembered, recorded or served is a placeholder when it is used. *)
FramesOK ==
  /\ loaded = Nothing \/ loaded.model \in Models
  /\ alive \subseteq 1..spawned
  /\ \A p \in 1..spawned : holds[p] \in Models
  /\ \A l \in Loaders : at[l] # "idle" => frame[l].model \in Models
  /\ \A l \in Loaders : at[l] \in {"stop", "spawn", "health", "slot", "tokenizer"} =>
                          frame[l].engine \in Engines
  /\ \A x \in Hashers : at[x] # "idle" => frame[x].model \in Models
  /\ \A c \in Chats : at[c] # "idle" => frame[c].model \in Models
  /\ \A c \in Chats : at[c] \in {"first", "stream"} => frame[c].proc \in 1..spawned

(* Where each kind of handler can be.                                       *)
RolesOK ==
  /\ \A l \in Loaders : at[l] \in {"idle", "wait"} \cup Inside
  /\ \A u \in Unloaders : at[u] \in {"idle", "stop", "clear"}
  /\ \A s \in Savers : at[s] \in {"idle", "stop", "clear", "swap", "write"}
  /\ \A c \in Chats : at[c] \in {"idle", "probe", "clear", "plan", "first", "stream"}
  /\ \A q \in Pollers : at[q] \in {"idle", "probe", "clear"}
  /\ \A x \in Hashers : at[x] \in {"idle", "hash", "write"}

(* A handler that is over holds an empty frame.                             *)
LEMMA NoFrameType == NoFrame \in Frame
  BY RuntimeAssumption DEF NoFrame, Frame, AnyModel

(* Moving one handler, and writing its frame, keeps everybody's type.       *)
LEMMA MoveFacts ==
  ASSUME NEW h \in Handlers, NEW place \in Places, NEW f \in Frame,
         at \in [Handlers -> Places], frame \in [Handlers -> Frame]
  PROVE  /\ [at EXCEPT ![h] = place] \in [Handlers -> Places]
         /\ [frame EXCEPT ![h] = f] \in [Handlers -> Frame]
  OBVIOUS

(* A handler stays in the places of its own kind.                           *)
LEMMA RolesStep == TypeOK /\ RolesOK /\ [Next]_vars => RolesOK'
<1> SUFFICES ASSUME TypeOK, RolesOK, [Next]_vars PROVE RolesOK'
  OBVIOUS
<1>d. at \in [Handlers -> Places]
  BY DEF TypeOK
<1> USE RuntimeAssumption DEF Handlers, Goto, Finish
<1>1. ASSUME NEW l \in Loaders, NEW m \in Models, Request(l, m) PROVE RolesOK'
  BY <1>1, <1>d DEF RolesOK, Inside, Request
<1>2. ASSUME NEW l \in Loaders, Acquire(l) PROVE RolesOK'
  BY <1>2, <1>d DEF RolesOK, Inside, Acquire
<1>3. ASSUME NEW l \in Loaders, Check(l) PROVE RolesOK'
  BY <1>3, <1>d DEF RolesOK, Inside, Check, Release
<1>4. ASSUME NEW l \in Loaders, Choose(l) PROVE RolesOK'
  BY <1>4, <1>d DEF RolesOK, Inside, Choose
<1>5. ASSUME NEW l \in Loaders, Refuse(l) PROVE RolesOK'
  BY <1>5, <1>d DEF RolesOK, Inside, Refuse, Release
<1>6. ASSUME NEW l \in Loaders, StopOld(l) PROVE RolesOK'
  BY <1>6, <1>d DEF RolesOK, Inside, StopOld
<1>7. ASSUME NEW l \in Loaders, Spawn(l) PROVE RolesOK'
  BY <1>7, <1>d DEF RolesOK, Inside, Spawn
<1>8. ASSUME NEW l \in Loaders, Healthy(l) PROVE RolesOK'
  BY <1>8, <1>d DEF RolesOK, Inside, Healthy
<1>9. ASSUME NEW l \in Loaders, NotReady(l) PROVE RolesOK'
  BY <1>9, <1>d DEF RolesOK, Inside, NotReady, Release
<1>10. ASSUME NEW l \in Loaders, SetSlot(l) PROVE RolesOK'
  BY <1>10, <1>d DEF RolesOK, Inside, SetSlot
<1>11. ASSUME NEW l \in Loaders, SetLoaded(l) PROVE RolesOK'
  BY <1>11, <1>d DEF RolesOK, Inside, SetLoaded, Release
<1>12. ASSUME NEW u \in Unloaders, Unload(u) PROVE RolesOK'
  BY <1>12, <1>d DEF RolesOK, Inside, Unload
<1>13. ASSUME NEW s \in Savers, SaveSettings(s) PROVE RolesOK'
  BY <1>13, <1>d DEF RolesOK, Inside, SaveSettings
<1>14. ASSUME NEW s \in Savers, Swap(s) PROVE RolesOK'
  BY <1>14, <1>d DEF RolesOK, Inside, Swap
<1>15. ASSUME NEW s \in Savers, WriteSettings(s) PROVE RolesOK'
  BY <1>15, <1>d DEF RolesOK, Inside, WriteSettings
<1>16. ASSUME NEW h \in Unloaders \cup Savers, StopHeld(h) PROVE RolesOK'
  BY <1>16, <1>d DEF RolesOK, Inside, StopHeld
<1>17. ASSUME NEW h \in Handlers, Clear(h) PROVE RolesOK'
  BY <1>17, <1>d DEF RolesOK, Inside, Clear
<1>18. ASSUME NEW h \in Handlers, Hangup(h) PROVE RolesOK'
  BY <1>18, <1>d DEF RolesOK, Inside, Hangup
<1>19. ASSUME NEW q \in Pollers, Poll(q) PROVE RolesOK'
  BY <1>19, <1>d DEF RolesOK, Inside, Poll
<1>20. ASSUME NEW q \in Pollers, Probe(q) PROVE RolesOK'
  BY <1>20, <1>d DEF RolesOK, Inside, Probe
<1>21. ASSUME NEW x \in Hashers, Resolve(x) PROVE RolesOK'
  BY <1>21, <1>d DEF RolesOK, Inside, Resolve
<1>22. ASSUME NEW x \in Hashers, Hash(x) PROVE RolesOK'
  BY <1>22, <1>d DEF RolesOK, Inside, Hash
<1>23. ASSUME NEW x \in Hashers, WriteIdentity(x) PROVE RolesOK'
  BY <1>23, <1>d DEF RolesOK, Inside, WriteIdentity
<1>24. ASSUME NEW c \in Chats, Ask(c) PROVE RolesOK'
  BY <1>24, <1>d DEF RolesOK, Inside, Ask
<1>25. ASSUME NEW c \in Chats, AskEngine(c) PROVE RolesOK'
  BY <1>25, <1>d DEF RolesOK, Inside, AskEngine
<1>26. ASSUME NEW c \in Chats, Post(c) PROVE RolesOK'
  BY <1>26, <1>d DEF RolesOK, Inside, Post
<1>27. ASSUME NEW c \in Chats, Repost(c) PROVE RolesOK'
  BY <1>27, <1>d DEF RolesOK, Inside, Repost
<1>28. ASSUME NEW c \in Chats, Replan(c) PROVE RolesOK'
  BY <1>28, <1>d DEF RolesOK, Inside, Replan
<1>29. ASSUME NEW c \in Chats, First(c) PROVE RolesOK'
  BY <1>29, <1>d DEF RolesOK, Inside, First
<1>30. ASSUME NEW c \in Chats, EndStream(c) PROVE RolesOK'
  BY <1>30, <1>d DEF RolesOK, Inside, EndStream
<1>31. ASSUME NEW p \in Procs, EngineDies(p) PROVE RolesOK'
  BY <1>31, <1>d DEF RolesOK, Inside, EngineDies
<1>32. CASE UNCHANGED vars
  BY <1>32 DEF RolesOK, vars
<1> QED
  BY <1>1, <1>2, <1>3, <1>4, <1>5, <1>6, <1>7, <1>8, <1>9, <1>10, <1>11, <1>12, <1>13, <1>14,
       <1>15, <1>16, <1>17, <1>18, <1>19, <1>20, <1>21, <1>22, <1>23, <1>24, <1>25, <1>26,
       <1>27, <1>28, <1>29, <1>30, <1>31, <1>32 DEF Next, LoadStep, ChatStep

(* load_lock: who is inside a load holds it, and one at a time does.        *)
LEMMA LockStep == TypeOK /\ RolesOK /\ LockOK /\ [Next]_vars => LockOK'
<1> SUFFICES ASSUME TypeOK, RolesOK, LockOK, [Next]_vars PROVE LockOK'
  OBVIOUS
<1>d. at \in [Handlers -> Places] /\ frame \in [Handlers -> Frame]
  BY DEF TypeOK
<1> USE RuntimeAssumption DEF Handlers, Goto, Finish
<1>t. lock \subseteq Loaders
  BY DEF TypeOK
<1>1. ASSUME NEW l \in Loaders, NEW m \in Models, Request(l, m) PROVE LockOK'
  BY <1>1, <1>d, <1>t DEF LockOK, RolesOK, Inside, Request
<1>2. ASSUME NEW l \in Loaders, Acquire(l) PROVE LockOK'
  BY <1>2, <1>d, <1>t DEF LockOK, RolesOK, Inside, Acquire
<1>3. ASSUME NEW l \in Loaders, Check(l) PROVE LockOK'
  BY <1>3, <1>d, <1>t DEF LockOK, RolesOK, Inside, Check, Release
<1>4. ASSUME NEW l \in Loaders, Choose(l) PROVE LockOK'
  BY <1>4, <1>d, <1>t DEF LockOK, RolesOK, Inside, Choose
<1>5. ASSUME NEW l \in Loaders, Refuse(l) PROVE LockOK'
  BY <1>5, <1>d, <1>t DEF LockOK, RolesOK, Inside, Refuse, Release
<1>6. ASSUME NEW l \in Loaders, StopOld(l) PROVE LockOK'
  BY <1>6, <1>d, <1>t DEF LockOK, RolesOK, Inside, StopOld
<1>7. ASSUME NEW l \in Loaders, Spawn(l) PROVE LockOK'
  BY <1>7, <1>d, <1>t DEF LockOK, RolesOK, Inside, Spawn
<1>8. ASSUME NEW l \in Loaders, Healthy(l) PROVE LockOK'
  BY <1>8, <1>d, <1>t DEF LockOK, RolesOK, Inside, Healthy
<1>9. ASSUME NEW l \in Loaders, NotReady(l) PROVE LockOK'
  BY <1>9, <1>d, <1>t DEF LockOK, RolesOK, Inside, NotReady, Release
<1>10. ASSUME NEW l \in Loaders, SetSlot(l) PROVE LockOK'
  BY <1>10, <1>d, <1>t DEF LockOK, RolesOK, Inside, SetSlot
<1>11. ASSUME NEW l \in Loaders, SetLoaded(l) PROVE LockOK'
  BY <1>11, <1>d, <1>t DEF LockOK, RolesOK, Inside, SetLoaded, Release
<1>12. ASSUME NEW u \in Unloaders, Unload(u) PROVE LockOK'
  BY <1>12, <1>d, <1>t DEF LockOK, RolesOK, Inside, Unload
<1>13. ASSUME NEW s \in Savers, SaveSettings(s) PROVE LockOK'
  BY <1>13, <1>d, <1>t DEF LockOK, RolesOK, Inside, SaveSettings
<1>14. ASSUME NEW s \in Savers, Swap(s) PROVE LockOK'
  BY <1>14, <1>d, <1>t DEF LockOK, RolesOK, Inside, Swap
<1>15. ASSUME NEW s \in Savers, WriteSettings(s) PROVE LockOK'
  BY <1>15, <1>d, <1>t DEF LockOK, RolesOK, Inside, WriteSettings
<1>16. ASSUME NEW h \in Unloaders \cup Savers, StopHeld(h) PROVE LockOK'
  BY <1>16, <1>d, <1>t DEF LockOK, RolesOK, Inside, StopHeld
<1>17. ASSUME NEW h \in Handlers, Clear(h) PROVE LockOK'
  BY <1>17, <1>d, <1>t DEF LockOK, RolesOK, Inside, Clear
<1>18. ASSUME NEW h \in Handlers, Hangup(h) PROVE LockOK'
  BY <1>18, <1>d, <1>t DEF LockOK, RolesOK, Inside, Hangup
<1>19. ASSUME NEW q \in Pollers, Poll(q) PROVE LockOK'
  BY <1>19, <1>d, <1>t DEF LockOK, RolesOK, Inside, Poll
<1>20. ASSUME NEW q \in Pollers, Probe(q) PROVE LockOK'
  BY <1>20, <1>d, <1>t DEF LockOK, RolesOK, Inside, Probe
<1>21. ASSUME NEW x \in Hashers, Resolve(x) PROVE LockOK'
  BY <1>21, <1>d, <1>t DEF LockOK, RolesOK, Inside, Resolve
<1>22. ASSUME NEW x \in Hashers, Hash(x) PROVE LockOK'
  BY <1>22, <1>d, <1>t DEF LockOK, RolesOK, Inside, Hash
<1>23. ASSUME NEW x \in Hashers, WriteIdentity(x) PROVE LockOK'
  BY <1>23, <1>d, <1>t DEF LockOK, RolesOK, Inside, WriteIdentity
<1>24. ASSUME NEW c \in Chats, Ask(c) PROVE LockOK'
  BY <1>24, <1>d, <1>t DEF LockOK, RolesOK, Inside, Ask
<1>25. ASSUME NEW c \in Chats, AskEngine(c) PROVE LockOK'
  BY <1>25, <1>d, <1>t DEF LockOK, RolesOK, Inside, AskEngine
<1>26. ASSUME NEW c \in Chats, Post(c) PROVE LockOK'
  BY <1>26, <1>d, <1>t DEF LockOK, RolesOK, Inside, Post
<1>27. ASSUME NEW c \in Chats, Repost(c) PROVE LockOK'
  BY <1>27, <1>d, <1>t DEF LockOK, RolesOK, Inside, Repost
<1>28. ASSUME NEW c \in Chats, Replan(c) PROVE LockOK'
  BY <1>28, <1>d, <1>t DEF LockOK, RolesOK, Inside, Replan
<1>29. ASSUME NEW c \in Chats, First(c) PROVE LockOK'
  BY <1>29, <1>d, <1>t DEF LockOK, RolesOK, Inside, First
<1>30. ASSUME NEW c \in Chats, EndStream(c) PROVE LockOK'
  BY <1>30, <1>d, <1>t DEF LockOK, RolesOK, Inside, EndStream
<1>31. ASSUME NEW p \in Procs, EngineDies(p) PROVE LockOK'
  BY <1>31, <1>d, <1>t DEF LockOK, RolesOK, Inside, EngineDies
<1>32. CASE UNCHANGED vars
  BY <1>32 DEF LockOK, RolesOK, Inside, vars, settingVars, engineVars, procVars, logVars,
       boundVars
<1> QED
  BY <1>1, <1>2, <1>3, <1>4, <1>5, <1>6, <1>7, <1>8, <1>9, <1>10, <1>11, <1>12, <1>13, <1>14,
       <1>15, <1>16, <1>17, <1>18, <1>19, <1>20, <1>21, <1>22, <1>23, <1>24, <1>25, <1>26,
       <1>27, <1>28, <1>29, <1>30, <1>31, <1>32 DEF Next, LoadStep, ChatStep

(* What handlers remember, what is on record and what processes serve stays *)
(* real: models, engines that were built, processes that were spawned.      *)
LEMMA FramesStep == TypeOK /\ RolesOK /\ FramesOK /\ [Next]_vars => FramesOK'
<1> SUFFICES ASSUME TypeOK, RolesOK, FramesOK, [Next]_vars PROVE FramesOK'
  OBVIOUS
<1>d. at \in [Handlers -> Places] /\ frame \in [Handlers -> Frame]
  BY DEF TypeOK
<1> USE RuntimeAssumption DEF Handlers, Goto, Finish
<1>t. spawned \in Nat
  BY DEF TypeOK
<1> USE DEF procVars
<1>1. ASSUME NEW l \in Loaders, NEW m \in Models, Request(l, m) PROVE FramesOK'
  BY <1>1, <1>d, <1>t DEF FramesOK, RolesOK, Inside, Request
<1>2. ASSUME NEW l \in Loaders, Acquire(l) PROVE FramesOK'
  BY <1>2, <1>d, <1>t DEF FramesOK, RolesOK, Inside, Acquire
<1>3. ASSUME NEW l \in Loaders, Check(l) PROVE FramesOK'
  BY <1>3, <1>d, <1>t DEF FramesOK, RolesOK, Inside, Check, Release
<1>4. ASSUME NEW l \in Loaders, Choose(l) PROVE FramesOK'
  <2>1. /\ slot \in Engines /\ built + 1 \in Nat
        /\ built < MaxEngines => built + 1 \in Engines
    BY DEF TypeOK, Engines
  <2>2. /\ frame'[l].model = frame[l].model /\ frame'[l].engine \in Engines
        /\ \A h \in Handlers \ {l} : frame'[h] = frame[h]
    BY <1>4, <1>d, <2>1 DEF Choose, Frame
  <2> QED BY <1>4, <1>d, <2>2 DEF FramesOK, RolesOK, Inside, Choose
<1>5. ASSUME NEW l \in Loaders, Refuse(l) PROVE FramesOK'
  BY <1>5, <1>d, <1>t DEF FramesOK, RolesOK, Inside, Refuse, Release
<1>6. ASSUME NEW l \in Loaders, StopOld(l) PROVE FramesOK'
  BY <1>6, <1>d, <1>t DEF FramesOK, RolesOK, Inside, StopOld, Halt
<1>7. ASSUME NEW l \in Loaders, Spawn(l) PROVE FramesOK'
  <2>1. spawned' = spawned + 1 /\ spawned' \in Procs
    BY <1>7 DEF Spawn, TypeOK, Procs
  <2>2. \A p \in 1..spawned' : holds'[p] \in Models
    <3>1. frame[l].model \in Models
      BY <1>7 DEF Spawn, FramesOK
    <3>2. holds \in [Procs -> AnyModel]
      BY DEF TypeOK
    <3> QED BY <1>7, <1>t, <2>1, <3>1, <3>2 DEF Spawn, FramesOK
  <2>3. alive' \subseteq 1..spawned'
    BY <1>7, <1>t, <2>1 DEF Spawn, FramesOK
  <2>4. /\ frame'[l].model = frame[l].model /\ frame'[l].engine = frame[l].engine
        /\ \A h \in Handlers \ {l} : frame'[h] = frame[h]
    BY <1>7, <1>d DEF Spawn, Frame
  <2> QED BY <1>7, <1>d, <1>t, <2>1, <2>2, <2>3, <2>4 DEF FramesOK, RolesOK, Spawn
<1>8. ASSUME NEW l \in Loaders, Healthy(l) PROVE FramesOK'
  BY <1>8, <1>d, <1>t DEF FramesOK, RolesOK, Inside, Healthy
<1>9. ASSUME NEW l \in Loaders, NotReady(l) PROVE FramesOK'
  BY <1>9, <1>d, <1>t DEF FramesOK, RolesOK, Inside, NotReady, Release
<1>10. ASSUME NEW l \in Loaders, SetSlot(l) PROVE FramesOK'
  BY <1>10, <1>d, <1>t DEF FramesOK, RolesOK, Inside, SetSlot
<1>11. ASSUME NEW l \in Loaders, SetLoaded(l) PROVE FramesOK'
  BY <1>11, <1>d, <1>t DEF FramesOK, RolesOK, Inside, SetLoaded, Release
<1>12. ASSUME NEW u \in Unloaders, Unload(u) PROVE FramesOK'
  BY <1>12, <1>d, <1>t DEF FramesOK, RolesOK, Inside, Unload
<1>13. ASSUME NEW s \in Savers, SaveSettings(s) PROVE FramesOK'
  BY <1>13, <1>d, <1>t DEF FramesOK, RolesOK, Inside, SaveSettings
<1>14. ASSUME NEW s \in Savers, Swap(s) PROVE FramesOK'
  BY <1>14, <1>d, <1>t DEF FramesOK, RolesOK, Inside, Swap
<1>15. ASSUME NEW s \in Savers, WriteSettings(s) PROVE FramesOK'
  BY <1>15, <1>d, <1>t DEF FramesOK, RolesOK, Inside, WriteSettings
<1>16. ASSUME NEW h \in Unloaders \cup Savers, StopHeld(h) PROVE FramesOK'
  BY <1>16, <1>d, <1>t DEF FramesOK, RolesOK, Inside, StopHeld, Halt
<1>17. ASSUME NEW h \in Handlers, Clear(h) PROVE FramesOK'
  BY <1>17, <1>d, <1>t DEF FramesOK, RolesOK, Inside, Clear, Nothing
<1>18. ASSUME NEW h \in Handlers, Hangup(h) PROVE FramesOK'
  BY <1>18, <1>d, <1>t DEF FramesOK, RolesOK, Inside, Hangup
<1>19. ASSUME NEW q \in Pollers, Poll(q) PROVE FramesOK'
  BY <1>19, <1>d, <1>t DEF FramesOK, RolesOK, Inside, Poll
<1>20. ASSUME NEW q \in Pollers, Probe(q) PROVE FramesOK'
  BY <1>20, <1>d, <1>t DEF FramesOK, RolesOK, Inside, Probe
<1>21. ASSUME NEW x \in Hashers, Resolve(x) PROVE FramesOK'
  BY <1>21, <1>d, <1>t DEF FramesOK, RolesOK, Inside, Resolve
<1>22. ASSUME NEW x \in Hashers, Hash(x) PROVE FramesOK'
  BY <1>22, <1>d, <1>t DEF FramesOK, RolesOK, Inside, Hash
<1>23. ASSUME NEW x \in Hashers, WriteIdentity(x) PROVE FramesOK'
  BY <1>23, <1>d, <1>t DEF FramesOK, RolesOK, Inside, WriteIdentity
<1>24. ASSUME NEW c \in Chats, Ask(c) PROVE FramesOK'
  BY <1>24, <1>d, <1>t DEF FramesOK, RolesOK, Inside, Ask
<1>25. ASSUME NEW c \in Chats, AskEngine(c) PROVE FramesOK'
  BY <1>25, <1>d, <1>t DEF FramesOK, RolesOK, Inside, AskEngine
<1>26. ASSUME NEW c \in Chats, Post(c) PROVE FramesOK'
  <2>1. CASE running[frame[c].engine] \in alive
    <3>1. /\ frame'[c].model = frame[c].model /\ frame'[c].proc \in alive
          /\ \A h \in Handlers \ {c} : frame'[h] = frame[h]
      BY <1>26, <1>d, <2>1 DEF Post, Frame
    <3> QED BY <1>26, <1>d, <2>1, <3>1 DEF FramesOK, RolesOK, Post
  <2>2. CASE running[frame[c].engine] \notin alive
    BY <1>26, <1>d, <2>2 DEF FramesOK, RolesOK, Post
  <2> QED BY <2>1, <2>2
<1>27. ASSUME NEW c \in Chats, Repost(c) PROVE FramesOK'
  BY <1>27, <1>d, <1>t DEF FramesOK, RolesOK, Inside, Repost
<1>28. ASSUME NEW c \in Chats, Replan(c) PROVE FramesOK'
  BY <1>28, <1>d, <1>t DEF FramesOK, RolesOK, Inside, Replan
<1>29. ASSUME NEW c \in Chats, First(c) PROVE FramesOK'
  BY <1>29, <1>d, <1>t DEF FramesOK, RolesOK, Inside, First
<1>30. ASSUME NEW c \in Chats, EndStream(c) PROVE FramesOK'
  BY <1>30, <1>d, <1>t DEF FramesOK, RolesOK, Inside, EndStream
<1>31. ASSUME NEW p \in Procs, EngineDies(p) PROVE FramesOK'
  BY <1>31, <1>d, <1>t DEF FramesOK, RolesOK, Inside, EngineDies
<1>32. CASE UNCHANGED vars
  BY <1>32 DEF FramesOK, RolesOK, Inside, vars, settingVars, engineVars, procVars, logVars,
       boundVars
<1> QED
  BY <1>1, <1>2, <1>3, <1>4, <1>5, <1>6, <1>7, <1>8, <1>9, <1>10, <1>11, <1>12, <1>13, <1>14,
       <1>15, <1>16, <1>17, <1>18, <1>19, <1>20, <1>21, <1>22, <1>23, <1>24, <1>25, <1>26,
       <1>27, <1>28, <1>29, <1>30, <1>31, <1>32 DEF Next, LoadStep, ChatStep

(* TypeOK, part by part.                                                    *)
SettingTypes ==
  /\ lock \subseteq Loaders
  /\ settings \in 0..MaxSaves /\ stored \in 0..MaxSaves /\ saves \in 0..MaxSaves

EngineTypes ==
  /\ slot \in Engines
  /\ kind \in [Engines -> Kinds] /\ cfg \in [Engines -> 0..MaxSaves]
  /\ built \in 1..MaxEngines
  /\ running \in [Engines -> 0..MaxProcs]

ProcTypes ==
  /\ holds \in [Procs -> AnyModel] /\ spawned \in 0..MaxProcs
  /\ alive \subseteq Procs

RecordTypes ==
  /\ loaded \in [model: AnyModel, ident: AnyModel]
  /\ hashed \subseteq Models
  /\ active \in Nat
  /\ filed \subseteq [model: Models, ident: AnyModel, by: Models]
  /\ deaths \in 0..MaxDeaths /\ hangups \in 0..MaxHangups

HandlerTypes ==
  /\ at \in [Handlers -> Places]
  /\ frame \in [Handlers -> Frame]

(* The types in five parts, one per lemma below.                            *)
LEMMA TypeParts ==
  TypeOK <=> SettingTypes /\ EngineTypes /\ ProcTypes /\ RecordTypes /\ HandlerTypes
  BY DEF TypeOK, SettingTypes, EngineTypes, ProcTypes, RecordTypes, HandlerTypes

(* No step breaks the types of the lock and the settings.                   *)
LEMMA SettingTypesStep == TypeOK /\ RolesOK /\ FramesOK /\ [Next]_vars => SettingTypes'
<1> SUFFICES ASSUME TypeOK, RolesOK, FramesOK, [Next]_vars PROVE SettingTypes'
  OBVIOUS
<1>t. SettingTypes /\ HandlerTypes
  BY TypeParts
<1> USE RuntimeAssumption DEF Handlers, Goto, Finish
<1> USE DEF settingVars, HandlerTypes, Frame
<1>1. ASSUME NEW l \in Loaders, NEW m \in Models, Request(l, m) PROVE SettingTypes'
  BY <1>1, <1>t DEF SettingTypes, Request
<1>2. ASSUME NEW l \in Loaders, Acquire(l) PROVE SettingTypes'
  BY <1>2, <1>t DEF SettingTypes, Acquire
<1>3. ASSUME NEW l \in Loaders, Check(l) PROVE SettingTypes'
  BY <1>3, <1>t DEF SettingTypes, Check, Release
<1>4. ASSUME NEW l \in Loaders, Choose(l) PROVE SettingTypes'
  BY <1>4, <1>t DEF SettingTypes, Choose
<1>5. ASSUME NEW l \in Loaders, Refuse(l) PROVE SettingTypes'
  BY <1>5, <1>t DEF SettingTypes, Refuse, Release
<1>6. ASSUME NEW l \in Loaders, StopOld(l) PROVE SettingTypes'
  BY <1>6, <1>t DEF SettingTypes, StopOld
<1>7. ASSUME NEW l \in Loaders, Spawn(l) PROVE SettingTypes'
  BY <1>7, <1>t DEF SettingTypes, Spawn
<1>8. ASSUME NEW l \in Loaders, Healthy(l) PROVE SettingTypes'
  BY <1>8, <1>t DEF SettingTypes, Healthy
<1>9. ASSUME NEW l \in Loaders, NotReady(l) PROVE SettingTypes'
  BY <1>9, <1>t DEF SettingTypes, NotReady, Release
<1>10. ASSUME NEW l \in Loaders, SetSlot(l) PROVE SettingTypes'
  BY <1>10, <1>t DEF SettingTypes, SetSlot
<1>11. ASSUME NEW l \in Loaders, SetLoaded(l) PROVE SettingTypes'
  BY <1>11, <1>t DEF SettingTypes, SetLoaded, Release
<1>12. ASSUME NEW u \in Unloaders, Unload(u) PROVE SettingTypes'
  BY <1>12, <1>t DEF SettingTypes, Unload
<1>13. ASSUME NEW s \in Savers, SaveSettings(s) PROVE SettingTypes'
  BY <1>13, <1>t DEF SettingTypes, SaveSettings
<1>14. ASSUME NEW s \in Savers, Swap(s) PROVE SettingTypes'
  BY <1>14, <1>t DEF SettingTypes, Swap
<1>15. ASSUME NEW s \in Savers, WriteSettings(s) PROVE SettingTypes'
  BY <1>15, <1>t DEF SettingTypes, WriteSettings
<1>16. ASSUME NEW h \in Unloaders \cup Savers, StopHeld(h) PROVE SettingTypes'
  BY <1>16, <1>t DEF SettingTypes, StopHeld
<1>17. ASSUME NEW h \in Handlers, Clear(h) PROVE SettingTypes'
  BY <1>17, <1>t DEF SettingTypes, Clear
<1>18. ASSUME NEW h \in Handlers, Hangup(h) PROVE SettingTypes'
  BY <1>18, <1>t DEF SettingTypes, Hangup
<1>19. ASSUME NEW q \in Pollers, Poll(q) PROVE SettingTypes'
  BY <1>19, <1>t DEF SettingTypes, Poll
<1>20. ASSUME NEW q \in Pollers, Probe(q) PROVE SettingTypes'
  BY <1>20, <1>t DEF SettingTypes, Probe
<1>21. ASSUME NEW x \in Hashers, Resolve(x) PROVE SettingTypes'
  BY <1>21, <1>t DEF SettingTypes, Resolve
<1>22. ASSUME NEW x \in Hashers, Hash(x) PROVE SettingTypes'
  BY <1>22, <1>t DEF SettingTypes, Hash
<1>23. ASSUME NEW x \in Hashers, WriteIdentity(x) PROVE SettingTypes'
  BY <1>23, <1>t DEF SettingTypes, WriteIdentity
<1>24. ASSUME NEW c \in Chats, Ask(c) PROVE SettingTypes'
  BY <1>24, <1>t DEF SettingTypes, Ask
<1>25. ASSUME NEW c \in Chats, AskEngine(c) PROVE SettingTypes'
  BY <1>25, <1>t DEF SettingTypes, AskEngine
<1>26. ASSUME NEW c \in Chats, Post(c) PROVE SettingTypes'
  BY <1>26, <1>t DEF SettingTypes, Post
<1>27. ASSUME NEW c \in Chats, Repost(c) PROVE SettingTypes'
  BY <1>27, <1>t DEF SettingTypes, Repost
<1>28. ASSUME NEW c \in Chats, Replan(c) PROVE SettingTypes'
  BY <1>28, <1>t DEF SettingTypes, Replan
<1>29. ASSUME NEW c \in Chats, First(c) PROVE SettingTypes'
  BY <1>29, <1>t DEF SettingTypes, First
<1>30. ASSUME NEW c \in Chats, EndStream(c) PROVE SettingTypes'
  BY <1>30, <1>t DEF SettingTypes, EndStream
<1>31. ASSUME NEW p \in Procs, EngineDies(p) PROVE SettingTypes'
  BY <1>31, <1>t DEF SettingTypes, EngineDies
<1>32. CASE UNCHANGED vars
  BY <1>32, <1>t DEF SettingTypes, vars, settingVars, engineVars, procVars, logVars, boundVars
<1> QED
  BY <1>1, <1>2, <1>3, <1>4, <1>5, <1>6, <1>7, <1>8, <1>9, <1>10, <1>11, <1>12, <1>13, <1>14,
       <1>15, <1>16, <1>17, <1>18, <1>19, <1>20, <1>21, <1>22, <1>23, <1>24, <1>25, <1>26,
       <1>27, <1>28, <1>29, <1>30, <1>31, <1>32 DEF Next, LoadStep, ChatStep

(* No step breaks the types of the slot and the engine objects.             *)
LEMMA EngineTypesStep == TypeOK /\ RolesOK /\ FramesOK /\ [Next]_vars => EngineTypes'
<1> SUFFICES ASSUME TypeOK, RolesOK, FramesOK, [Next]_vars PROVE EngineTypes'
  OBVIOUS
<1>t. EngineTypes /\ HandlerTypes /\ SettingTypes
  BY TypeParts
<1> USE RuntimeAssumption DEF Handlers, Goto, Finish
<1>1. ASSUME NEW l \in Loaders, NEW m \in Models, Request(l, m) PROVE EngineTypes'
  BY <1>1, <1>t DEF EngineTypes, Request, engineVars
<1>2. ASSUME NEW l \in Loaders, Acquire(l) PROVE EngineTypes'
  BY <1>2, <1>t DEF EngineTypes, Acquire, engineVars
<1>3. ASSUME NEW l \in Loaders, Check(l) PROVE EngineTypes'
  <2>1. running' \in [Engines -> 0..MaxProcs]
    BY <1>3, <1>t DEF EngineTypes, Check, Reap, engineVars
  <2> QED BY <1>3, <1>t, <2>1 DEF EngineTypes, Check, engineVars
<1>4. ASSUME NEW l \in Loaders, Choose(l) PROVE EngineTypes'
  <2>1. CASE UNCHANGED engineVars
    BY <1>4, <1>t, <2>1 DEF EngineTypes, Choose, engineVars
  <2>2. CASE /\ built < MaxEngines /\ built' = built + 1
             /\ kind' = [kind EXCEPT ![built'] = KindOf[frame[l].model]]
             /\ cfg' = [cfg EXCEPT ![built'] = settings]
    <3>1. built' \in 1..MaxEngines
      BY <1>t, <2>2 DEF EngineTypes
    <3>2. KindOf[frame[l].model] \in Kinds
      BY <1>4 DEF FramesOK, Choose
    <3> QED BY <1>4, <1>t, <2>2, <3>1, <3>2 DEF EngineTypes, SettingTypes, Choose
  <2> QED BY <1>4, <2>1, <2>2 DEF Choose
<1>5. ASSUME NEW l \in Loaders, Refuse(l) PROVE EngineTypes'
  BY <1>5, <1>t DEF EngineTypes, Refuse, Release, engineVars
<1>6. ASSUME NEW l \in Loaders, StopOld(l) PROVE EngineTypes'
  <2>1. \A e : [running EXCEPT ![e] = 0] \in [Engines -> 0..MaxProcs]
    <3>1. 0 \in 0..MaxProcs
      OBVIOUS
    <3> QED BY <1>t, <3>1 DEF EngineTypes
  <2> QED BY <1>6, <1>t, <2>1 DEF EngineTypes, StopOld, Halt, engineVars
<1>7. ASSUME NEW l \in Loaders, Spawn(l) PROVE EngineTypes'
  BY <1>7, <1>t DEF EngineTypes, Spawn, engineVars
<1>8. ASSUME NEW l \in Loaders, Healthy(l) PROVE EngineTypes'
  BY <1>8, <1>t DEF EngineTypes, HandlerTypes, Frame, Healthy, engineVars
<1>9. ASSUME NEW l \in Loaders, NotReady(l) PROVE EngineTypes'
  BY <1>9, <1>t DEF EngineTypes, NotReady, Release, engineVars
<1>10. ASSUME NEW l \in Loaders, SetSlot(l) PROVE EngineTypes'
  <2>1. frame[l].engine \in Engines
    BY <1>10 DEF FramesOK, SetSlot
  <2> QED BY <1>10, <1>t, <2>1 DEF EngineTypes, SetSlot, engineVars
<1>11. ASSUME NEW l \in Loaders, SetLoaded(l) PROVE EngineTypes'
  BY <1>11, <1>t DEF EngineTypes, SetLoaded, Release, engineVars
<1>12. ASSUME NEW u \in Unloaders, Unload(u) PROVE EngineTypes'
  BY <1>12, <1>t DEF EngineTypes, Unload, engineVars
<1>13. ASSUME NEW s \in Savers, SaveSettings(s) PROVE EngineTypes'
  BY <1>13, <1>t DEF EngineTypes, SaveSettings, engineVars
<1>14. ASSUME NEW s \in Savers, Swap(s) PROVE EngineTypes'
  BY <1>14, <1>t DEF EngineTypes, HandlerTypes, Frame, Swap, Engines
<1>15. ASSUME NEW s \in Savers, WriteSettings(s) PROVE EngineTypes'
  BY <1>15, <1>t DEF EngineTypes, WriteSettings, engineVars
<1>16. ASSUME NEW h \in Unloaders \cup Savers, StopHeld(h) PROVE EngineTypes'
  <2>1. \A e : [running EXCEPT ![e] = 0] \in [Engines -> 0..MaxProcs]
    <3>1. 0 \in 0..MaxProcs
      OBVIOUS
    <3> QED BY <1>t, <3>1 DEF EngineTypes
  <2> QED BY <1>16, <1>t, <2>1 DEF EngineTypes, StopHeld, Halt, engineVars
<1>17. ASSUME NEW h \in Handlers, Clear(h) PROVE EngineTypes'
  BY <1>17, <1>t DEF EngineTypes, Clear, engineVars
<1>18. ASSUME NEW h \in Handlers, Hangup(h) PROVE EngineTypes'
  BY <1>18, <1>t DEF EngineTypes, Hangup, engineVars
<1>19. ASSUME NEW q \in Pollers, Poll(q) PROVE EngineTypes'
  BY <1>19, <1>t DEF EngineTypes, Poll, engineVars
<1>20. ASSUME NEW q \in Pollers, Probe(q) PROVE EngineTypes'
  BY <1>20, <1>t DEF EngineTypes, Probe, Reap, engineVars
<1>21. ASSUME NEW x \in Hashers, Resolve(x) PROVE EngineTypes'
  BY <1>21, <1>t DEF EngineTypes, Resolve, engineVars
<1>22. ASSUME NEW x \in Hashers, Hash(x) PROVE EngineTypes'
  BY <1>22, <1>t DEF EngineTypes, Hash, engineVars
<1>23. ASSUME NEW x \in Hashers, WriteIdentity(x) PROVE EngineTypes'
  BY <1>23, <1>t DEF EngineTypes, WriteIdentity, engineVars
<1>24. ASSUME NEW c \in Chats, Ask(c) PROVE EngineTypes'
  BY <1>24, <1>t DEF EngineTypes, Ask, engineVars
<1>25. ASSUME NEW c \in Chats, AskEngine(c) PROVE EngineTypes'
  BY <1>25, <1>t DEF EngineTypes, AskEngine, Reap, engineVars
<1>26. ASSUME NEW c \in Chats, Post(c) PROVE EngineTypes'
  BY <1>26, <1>t DEF EngineTypes, Post, engineVars
<1>27. ASSUME NEW c \in Chats, Repost(c) PROVE EngineTypes'
  BY <1>27, <1>t DEF EngineTypes, Repost, engineVars
<1>28. ASSUME NEW c \in Chats, Replan(c) PROVE EngineTypes'
  BY <1>28, <1>t DEF EngineTypes, Replan, engineVars
<1>29. ASSUME NEW c \in Chats, First(c) PROVE EngineTypes'
  BY <1>29, <1>t DEF EngineTypes, First, engineVars
<1>30. ASSUME NEW c \in Chats, EndStream(c) PROVE EngineTypes'
  BY <1>30, <1>t DEF EngineTypes, EndStream, engineVars
<1>31. ASSUME NEW p \in Procs, EngineDies(p) PROVE EngineTypes'
  BY <1>31, <1>t DEF EngineTypes, EngineDies, engineVars
<1>32. CASE UNCHANGED vars
  BY <1>32, <1>t DEF EngineTypes, vars, settingVars, engineVars, procVars, logVars, boundVars
<1> QED
  BY <1>1, <1>2, <1>3, <1>4, <1>5, <1>6, <1>7, <1>8, <1>9, <1>10, <1>11, <1>12, <1>13, <1>14,
       <1>15, <1>16, <1>17, <1>18, <1>19, <1>20, <1>21, <1>22, <1>23, <1>24, <1>25, <1>26,
       <1>27, <1>28, <1>29, <1>30, <1>31, <1>32 DEF Next, LoadStep, ChatStep

(* No step breaks the types of the processes.                               *)
LEMMA ProcTypesStep == TypeOK /\ RolesOK /\ FramesOK /\ [Next]_vars => ProcTypes'
<1> SUFFICES ASSUME TypeOK, RolesOK, FramesOK, [Next]_vars PROVE ProcTypes'
  OBVIOUS
<1>t. ProcTypes /\ HandlerTypes
  BY TypeParts
<1> USE RuntimeAssumption DEF Handlers, Goto, Finish
<1> USE DEF procVars, Procs, HandlerTypes, Frame, AnyModel
<1>1. ASSUME NEW l \in Loaders, NEW m \in Models, Request(l, m) PROVE ProcTypes'
  BY <1>1, <1>t DEF ProcTypes, Request
<1>2. ASSUME NEW l \in Loaders, Acquire(l) PROVE ProcTypes'
  BY <1>2, <1>t DEF ProcTypes, Acquire
<1>3. ASSUME NEW l \in Loaders, Check(l) PROVE ProcTypes'
  BY <1>3, <1>t DEF ProcTypes, Check, Release
<1>4. ASSUME NEW l \in Loaders, Choose(l) PROVE ProcTypes'
  BY <1>4, <1>t DEF ProcTypes, Choose
<1>5. ASSUME NEW l \in Loaders, Refuse(l) PROVE ProcTypes'
  BY <1>5, <1>t DEF ProcTypes, Refuse, Release
<1>6. ASSUME NEW l \in Loaders, StopOld(l) PROVE ProcTypes'
  BY <1>6, <1>t DEF ProcTypes, StopOld, Halt
<1>7. ASSUME NEW l \in Loaders, Spawn(l) PROVE ProcTypes'
  BY <1>7, <1>t DEF ProcTypes, Spawn
<1>8. ASSUME NEW l \in Loaders, Healthy(l) PROVE ProcTypes'
  BY <1>8, <1>t DEF ProcTypes, Healthy
<1>9. ASSUME NEW l \in Loaders, NotReady(l) PROVE ProcTypes'
  BY <1>9, <1>t DEF ProcTypes, NotReady, Release
<1>10. ASSUME NEW l \in Loaders, SetSlot(l) PROVE ProcTypes'
  BY <1>10, <1>t DEF ProcTypes, SetSlot
<1>11. ASSUME NEW l \in Loaders, SetLoaded(l) PROVE ProcTypes'
  BY <1>11, <1>t DEF ProcTypes, SetLoaded, Release
<1>12. ASSUME NEW u \in Unloaders, Unload(u) PROVE ProcTypes'
  BY <1>12, <1>t DEF ProcTypes, Unload
<1>13. ASSUME NEW s \in Savers, SaveSettings(s) PROVE ProcTypes'
  BY <1>13, <1>t DEF ProcTypes, SaveSettings
<1>14. ASSUME NEW s \in Savers, Swap(s) PROVE ProcTypes'
  BY <1>14, <1>t DEF ProcTypes, Swap
<1>15. ASSUME NEW s \in Savers, WriteSettings(s) PROVE ProcTypes'
  BY <1>15, <1>t DEF ProcTypes, WriteSettings
<1>16. ASSUME NEW h \in Unloaders \cup Savers, StopHeld(h) PROVE ProcTypes'
  BY <1>16, <1>t DEF ProcTypes, StopHeld, Halt
<1>17. ASSUME NEW h \in Handlers, Clear(h) PROVE ProcTypes'
  BY <1>17, <1>t DEF ProcTypes, Clear
<1>18. ASSUME NEW h \in Handlers, Hangup(h) PROVE ProcTypes'
  BY <1>18, <1>t DEF ProcTypes, Hangup
<1>19. ASSUME NEW q \in Pollers, Poll(q) PROVE ProcTypes'
  BY <1>19, <1>t DEF ProcTypes, Poll
<1>20. ASSUME NEW q \in Pollers, Probe(q) PROVE ProcTypes'
  BY <1>20, <1>t DEF ProcTypes, Probe
<1>21. ASSUME NEW x \in Hashers, Resolve(x) PROVE ProcTypes'
  BY <1>21, <1>t DEF ProcTypes, Resolve
<1>22. ASSUME NEW x \in Hashers, Hash(x) PROVE ProcTypes'
  BY <1>22, <1>t DEF ProcTypes, Hash
<1>23. ASSUME NEW x \in Hashers, WriteIdentity(x) PROVE ProcTypes'
  BY <1>23, <1>t DEF ProcTypes, WriteIdentity
<1>24. ASSUME NEW c \in Chats, Ask(c) PROVE ProcTypes'
  BY <1>24, <1>t DEF ProcTypes, Ask
<1>25. ASSUME NEW c \in Chats, AskEngine(c) PROVE ProcTypes'
  BY <1>25, <1>t DEF ProcTypes, AskEngine
<1>26. ASSUME NEW c \in Chats, Post(c) PROVE ProcTypes'
  BY <1>26, <1>t DEF ProcTypes, Post
<1>27. ASSUME NEW c \in Chats, Repost(c) PROVE ProcTypes'
  BY <1>27, <1>t DEF ProcTypes, Repost
<1>28. ASSUME NEW c \in Chats, Replan(c) PROVE ProcTypes'
  BY <1>28, <1>t DEF ProcTypes, Replan
<1>29. ASSUME NEW c \in Chats, First(c) PROVE ProcTypes'
  BY <1>29, <1>t DEF ProcTypes, First
<1>30. ASSUME NEW c \in Chats, EndStream(c) PROVE ProcTypes'
  BY <1>30, <1>t DEF ProcTypes, EndStream
<1>31. ASSUME NEW p \in Procs, EngineDies(p) PROVE ProcTypes'
  BY <1>31, <1>t DEF ProcTypes, EngineDies
<1>32. CASE UNCHANGED vars
  BY <1>32, <1>t DEF ProcTypes, vars, settingVars, engineVars, procVars, logVars, boundVars
<1> QED
  BY <1>1, <1>2, <1>3, <1>4, <1>5, <1>6, <1>7, <1>8, <1>9, <1>10, <1>11, <1>12, <1>13, <1>14,
       <1>15, <1>16, <1>17, <1>18, <1>19, <1>20, <1>21, <1>22, <1>23, <1>24, <1>25, <1>26,
       <1>27, <1>28, <1>29, <1>30, <1>31, <1>32 DEF Next, LoadStep, ChatStep

(* No step breaks the types of what is on record, counted or filed.         *)
LEMMA RecordTypesStep == TypeOK /\ RolesOK /\ FramesOK /\ [Next]_vars => RecordTypes'
<1> SUFFICES ASSUME TypeOK, RolesOK, FramesOK, [Next]_vars PROVE RecordTypes'
  OBVIOUS
<1>t. RecordTypes /\ HandlerTypes /\ ProcTypes
  BY TypeParts
<1> USE RuntimeAssumption DEF Handlers, Goto, Finish
<1> USE DEF logVars, boundVars, Procs, HandlerTypes, ProcTypes, Frame, AnyModel
<1>1. ASSUME NEW l \in Loaders, NEW m \in Models, Request(l, m) PROVE RecordTypes'
  BY <1>1, <1>t DEF RecordTypes, Request
<1>2. ASSUME NEW l \in Loaders, Acquire(l) PROVE RecordTypes'
  BY <1>2, <1>t DEF RecordTypes, Acquire
<1>3. ASSUME NEW l \in Loaders, Check(l) PROVE RecordTypes'
  BY <1>3, <1>t DEF RecordTypes, Check, Release
<1>4. ASSUME NEW l \in Loaders, Choose(l) PROVE RecordTypes'
  BY <1>4, <1>t DEF RecordTypes, Choose
<1>5. ASSUME NEW l \in Loaders, Refuse(l) PROVE RecordTypes'
  BY <1>5, <1>t DEF RecordTypes, Refuse, Release
<1>6. ASSUME NEW l \in Loaders, StopOld(l) PROVE RecordTypes'
  BY <1>6, <1>t DEF RecordTypes, StopOld
<1>7. ASSUME NEW l \in Loaders, Spawn(l) PROVE RecordTypes'
  BY <1>7, <1>t DEF RecordTypes, Spawn
<1>8. ASSUME NEW l \in Loaders, Healthy(l) PROVE RecordTypes'
  BY <1>8, <1>t DEF RecordTypes, Healthy
<1>9. ASSUME NEW l \in Loaders, NotReady(l) PROVE RecordTypes'
  BY <1>9, <1>t DEF RecordTypes, NotReady, Release
<1>10. ASSUME NEW l \in Loaders, SetSlot(l) PROVE RecordTypes'
  BY <1>10, <1>t DEF RecordTypes, SetSlot
<1>11. ASSUME NEW l \in Loaders, SetLoaded(l) PROVE RecordTypes'
  BY <1>11, <1>t DEF RecordTypes, SetLoaded, Release
<1>12. ASSUME NEW u \in Unloaders, Unload(u) PROVE RecordTypes'
  BY <1>12, <1>t DEF RecordTypes, Unload
<1>13. ASSUME NEW s \in Savers, SaveSettings(s) PROVE RecordTypes'
  BY <1>13, <1>t DEF RecordTypes, SaveSettings
<1>14. ASSUME NEW s \in Savers, Swap(s) PROVE RecordTypes'
  BY <1>14, <1>t DEF RecordTypes, Swap
<1>15. ASSUME NEW s \in Savers, WriteSettings(s) PROVE RecordTypes'
  BY <1>15, <1>t DEF RecordTypes, WriteSettings
<1>16. ASSUME NEW h \in Unloaders \cup Savers, StopHeld(h) PROVE RecordTypes'
  BY <1>16, <1>t DEF RecordTypes, StopHeld
<1>17. ASSUME NEW h \in Handlers, Clear(h) PROVE RecordTypes'
  BY <1>17, <1>t DEF RecordTypes, Clear, Nothing, FramesOK
<1>18. ASSUME NEW h \in Handlers, Hangup(h) PROVE RecordTypes'
  BY <1>18, <1>t DEF RecordTypes, Hangup
<1>19. ASSUME NEW q \in Pollers, Poll(q) PROVE RecordTypes'
  BY <1>19, <1>t DEF RecordTypes, Poll
<1>20. ASSUME NEW q \in Pollers, Probe(q) PROVE RecordTypes'
  BY <1>20, <1>t DEF RecordTypes, Probe
<1>21. ASSUME NEW x \in Hashers, Resolve(x) PROVE RecordTypes'
  BY <1>21, <1>t DEF RecordTypes, Resolve
<1>22. ASSUME NEW x \in Hashers, Hash(x) PROVE RecordTypes'
  BY <1>22, <1>t DEF RecordTypes, Hash, Nothing, FramesOK
<1>23. ASSUME NEW x \in Hashers, WriteIdentity(x) PROVE RecordTypes'
  BY <1>23, <1>t DEF RecordTypes, WriteIdentity, Nothing, FramesOK
<1>24. ASSUME NEW c \in Chats, Ask(c) PROVE RecordTypes'
  BY <1>24, <1>t DEF RecordTypes, Ask
<1>25. ASSUME NEW c \in Chats, AskEngine(c) PROVE RecordTypes'
  BY <1>25, <1>t DEF RecordTypes, AskEngine
<1>26. ASSUME NEW c \in Chats, Post(c) PROVE RecordTypes'
  BY <1>26, <1>t DEF RecordTypes, Post
<1>27. ASSUME NEW c \in Chats, Repost(c) PROVE RecordTypes'
  BY <1>27, <1>t DEF RecordTypes, Repost
<1>28. ASSUME NEW c \in Chats, Replan(c) PROVE RecordTypes'
  BY <1>28, <1>t DEF RecordTypes, Replan
<1>29. ASSUME NEW c \in Chats, First(c) PROVE RecordTypes'
  BY <1>29, <1>t DEF RecordTypes, First
<1>30. ASSUME NEW c \in Chats, EndStream(c) PROVE RecordTypes'
  BY <1>30, <1>t DEF RecordTypes, EndStream, Nothing, FramesOK
<1>31. ASSUME NEW p \in Procs, EngineDies(p) PROVE RecordTypes'
  BY <1>31, <1>t DEF RecordTypes, EngineDies
<1>32. CASE UNCHANGED vars
  BY <1>32, <1>t DEF RecordTypes, vars, settingVars, engineVars, procVars, logVars, boundVars
<1> QED
  BY <1>1, <1>2, <1>3, <1>4, <1>5, <1>6, <1>7, <1>8, <1>9, <1>10, <1>11, <1>12, <1>13, <1>14,
       <1>15, <1>16, <1>17, <1>18, <1>19, <1>20, <1>21, <1>22, <1>23, <1>24, <1>25, <1>26,
       <1>27, <1>28, <1>29, <1>30, <1>31, <1>32 DEF Next, LoadStep, ChatStep

(* No step breaks the types of where handlers are and what they remember.   *)
LEMMA HandlerTypesStep == TypeOK /\ RolesOK /\ FramesOK /\ [Next]_vars => HandlerTypes'
<1> SUFFICES ASSUME TypeOK, RolesOK, FramesOK, [Next]_vars PROVE HandlerTypes'
  OBVIOUS
<1>t. HandlerTypes /\ EngineTypes /\ ProcTypes /\ RecordTypes /\ SettingTypes
  BY TypeParts
<1> USE RuntimeAssumption DEF Handlers, Goto, Finish
<1> USE NoFrameType DEF Places
<1>1. ASSUME NEW l \in Loaders, NEW m \in Models, Request(l, m) PROVE HandlerTypes'
  <2>1. frame[l] \in Frame /\ l \in Handlers
    BY <1>t DEF HandlerTypes
  <2>2. [frame[l] EXCEPT !.model = m] \in Frame
    BY <1>1, <1>t, <2>1 DEF Request, Frame, AnyModel, Engines, Procs
  <2>3. frame' = [frame EXCEPT ![l] = [frame[l] EXCEPT !.model = m]]
    BY <1>1, <1>t, <2>1 DEF Request, HandlerTypes, Frame
  <2> QED BY <1>1, <1>t, <2>2, <2>3 DEF Request, HandlerTypes, Places
<1>2. ASSUME NEW l \in Loaders, Acquire(l) PROVE HandlerTypes'
  BY <1>2, <1>t DEF HandlerTypes, Acquire
<1>3. ASSUME NEW l \in Loaders, Check(l) PROVE HandlerTypes'
  BY <1>3, <1>t DEF HandlerTypes, Check, Release, Places
<1>4. ASSUME NEW l \in Loaders, Choose(l) PROVE HandlerTypes'
  <2>1. frame[l] \in Frame /\ l \in Handlers /\ Identity(frame[l].model) \in AnyModel
    BY <1>t DEF HandlerTypes, Frame, Identity, AnyModel
  <2>2. ASSUME NEW e \in 0..MaxEngines,
               frame' = [frame EXCEPT ![l].engine = e, ![l].ident = Identity(frame[l].model)]
        PROVE  HandlerTypes'
    <3>1. [frame[l] EXCEPT !.engine = e, !.ident = Identity(frame[l].model)] \in Frame
      BY <2>1 DEF Frame
    <3>2. frame' = [frame EXCEPT ![l] =
                      [frame[l] EXCEPT !.engine = e, !.ident = Identity(frame[l].model)]]
      BY <1>t, <2>1, <2>2 DEF HandlerTypes, Frame
    <3> QED BY <1>4, <1>t, <3>1, <3>2 DEF Choose, HandlerTypes, Places
  <2>3. slot \in 0..MaxEngines /\ (built < MaxEngines => built + 1 \in 0..MaxEngines)
    BY <1>t DEF EngineTypes, Engines
  <2> QED BY <1>4, <2>2, <2>3 DEF Choose
<1>5. ASSUME NEW l \in Loaders, Refuse(l) PROVE HandlerTypes'
  BY <1>5, <1>t DEF HandlerTypes, Refuse, Release
<1>6. ASSUME NEW l \in Loaders, StopOld(l) PROVE HandlerTypes'
  BY <1>6, <1>t DEF HandlerTypes, StopOld
<1>7. ASSUME NEW l \in Loaders, Spawn(l) PROVE HandlerTypes'
  <2>1. frame[l] \in Frame /\ l \in Handlers
    BY <1>t DEF HandlerTypes
  <2>2. spawned + 1 \in 0..MaxProcs
    BY <1>7, <1>t DEF Spawn, Engines, ProcTypes
  <2>3. [frame[l] EXCEPT !.proc = spawned + 1] \in Frame
    BY <2>1, <2>2 DEF Frame
  <2>4. frame' = [frame EXCEPT ![l] = [frame[l] EXCEPT !.proc = spawned + 1]]
    BY <1>7, <1>t, <2>1 DEF Spawn, HandlerTypes, Frame
  <2> QED BY <1>7, <1>t, <2>3, <2>4 DEF Spawn, HandlerTypes, Places
<1>8. ASSUME NEW l \in Loaders, Healthy(l) PROVE HandlerTypes'
  BY <1>8, <1>t DEF HandlerTypes, Healthy
<1>9. ASSUME NEW l \in Loaders, NotReady(l) PROVE HandlerTypes'
  BY <1>9, <1>t DEF HandlerTypes, NotReady, Release
<1>10. ASSUME NEW l \in Loaders, SetSlot(l) PROVE HandlerTypes'
  BY <1>10, <1>t DEF HandlerTypes, SetSlot
<1>11. ASSUME NEW l \in Loaders, SetLoaded(l) PROVE HandlerTypes'
  BY <1>11, <1>t DEF HandlerTypes, SetLoaded, Release
<1>12. ASSUME NEW u \in Unloaders, Unload(u) PROVE HandlerTypes'
  <2>1. frame[u] \in Frame /\ u \in Handlers
    BY <1>t DEF HandlerTypes
  <2>2. slot \in 0..MaxEngines
    BY <1>12, <1>t DEF Unload, Engines, EngineTypes
  <2>3. [frame[u] EXCEPT !.engine = slot] \in Frame
    BY <2>1, <2>2 DEF Frame
  <2>4. frame' = [frame EXCEPT ![u] = [frame[u] EXCEPT !.engine = slot]]
    BY <1>12, <1>t, <2>1 DEF Unload, HandlerTypes, Frame
  <2> QED BY <1>12, <1>t, <2>3, <2>4 DEF Unload, HandlerTypes, Places
<1>13. ASSUME NEW s \in Savers, SaveSettings(s) PROVE HandlerTypes'
  <2>1. frame[s] \in Frame /\ s \in Handlers
    BY <1>t DEF HandlerTypes
  <2>2. slot \in 0..MaxEngines /\ saves + 1 \in 0..MaxSaves
    BY <1>13, <1>t DEF SaveSettings, Engines, EngineTypes, SettingTypes
  <2>3. [frame[s] EXCEPT !.engine = slot, !.version = saves + 1] \in Frame
    BY <2>1, <2>2 DEF Frame
  <2>4. frame' = [frame EXCEPT ![s] = [frame[s] EXCEPT !.engine = slot, !.version = saves + 1]]
    BY <1>13, <1>t, <2>1 DEF SaveSettings, HandlerTypes, Frame
  <2> QED BY <1>13, <1>t, <2>3, <2>4 DEF SaveSettings, HandlerTypes, Places
<1>14. ASSUME NEW s \in Savers, Swap(s) PROVE HandlerTypes'
  BY <1>14, <1>t DEF HandlerTypes, Swap
<1>15. ASSUME NEW s \in Savers, WriteSettings(s) PROVE HandlerTypes'
  BY <1>15, <1>t DEF HandlerTypes, WriteSettings
<1>16. ASSUME NEW h \in Unloaders \cup Savers, StopHeld(h) PROVE HandlerTypes'
  BY <1>16, <1>t DEF HandlerTypes, StopHeld
<1>17. ASSUME NEW h \in Handlers, Clear(h) PROVE HandlerTypes'
  BY <1>17, <1>t DEF HandlerTypes, Clear
<1>18. ASSUME NEW h \in Handlers, Hangup(h) PROVE HandlerTypes'
  BY <1>18, <1>t DEF HandlerTypes, Hangup
<1>19. ASSUME NEW q \in Pollers, Poll(q) PROVE HandlerTypes'
  BY <1>19, <1>t DEF HandlerTypes, Poll
<1>20. ASSUME NEW q \in Pollers, Probe(q) PROVE HandlerTypes'
  BY <1>20, <1>t DEF HandlerTypes, Probe
<1>21. ASSUME NEW x \in Hashers, Resolve(x) PROVE HandlerTypes'
  <2>1. frame[x] \in Frame /\ x \in Handlers
    BY <1>t DEF HandlerTypes
  <2>2. [frame[x] EXCEPT !.model = loaded.model] \in Frame
    BY <1>21, <1>t, <2>1 DEF Resolve, Frame, AnyModel, Engines, Procs, RecordTypes
  <2>3. frame' = [frame EXCEPT ![x] = [frame[x] EXCEPT !.model = loaded.model]]
    BY <1>21, <1>t, <2>1 DEF Resolve, HandlerTypes, Frame
  <2> QED BY <1>21, <1>t, <2>2, <2>3 DEF Resolve, HandlerTypes, Places
<1>22. ASSUME NEW x \in Hashers, Hash(x) PROVE HandlerTypes'
  BY <1>22, <1>t DEF HandlerTypes, Hash
<1>23. ASSUME NEW x \in Hashers, WriteIdentity(x) PROVE HandlerTypes'
  BY <1>23, <1>t DEF HandlerTypes, WriteIdentity
<1>24. ASSUME NEW c \in Chats, Ask(c) PROVE HandlerTypes'
  <2>1. frame[c] \in Frame /\ c \in Handlers
    BY <1>t DEF HandlerTypes
  <2>2. [frame[c] EXCEPT !.model = loaded.model, !.ident = loaded.ident] \in Frame
    BY <1>24, <1>t, <2>1 DEF Ask, Frame, AnyModel, Engines, Procs, RecordTypes
  <2>3. frame' = [frame EXCEPT ![c] =
                      [frame[c] EXCEPT !.model = loaded.model, !.ident = loaded.ident]]
    BY <1>24, <1>t, <2>1 DEF Ask, HandlerTypes, Frame
  <2> QED BY <1>24, <1>t, <2>2, <2>3 DEF Ask, HandlerTypes, Places
<1>25. ASSUME NEW c \in Chats, AskEngine(c) PROVE HandlerTypes'
  <2>1. frame[c] \in Frame /\ c \in Handlers
    BY <1>t DEF HandlerTypes
  <2>2. slot \in 0..MaxEngines
    BY <1>25, <1>t DEF AskEngine, Engines, EngineTypes
  <2>3. [frame[c] EXCEPT !.engine = slot] \in Frame
    BY <2>1, <2>2 DEF Frame
  <2>4. frame' = [frame EXCEPT ![c] = [frame[c] EXCEPT !.engine = slot]]
    BY <1>25, <1>t, <2>1 DEF AskEngine, HandlerTypes, Frame
  <2> QED BY <1>25, <1>t, <2>3, <2>4 DEF AskEngine, HandlerTypes, Places
<1>26. ASSUME NEW c \in Chats, Post(c) PROVE HandlerTypes'
  <2>1. frame[c] \in Frame /\ c \in Handlers
    BY <1>t DEF HandlerTypes
  <2>2. CASE running[frame[c].engine] \in alive
    <3>1. \A p \in alive : p \in 0..MaxProcs
      BY <1>t DEF ProcTypes, Procs
    <3>2. [frame[c] EXCEPT !.proc = running[frame[c].engine]] \in Frame
      BY <2>1, <2>2, <3>1 DEF Frame
    <3> QED BY <1>26, <1>t, <2>2, <3>2 DEF Post, HandlerTypes, Places
  <2>3. CASE running[frame[c].engine] \notin alive
    BY <1>26, <1>t, <2>1, <2>3, NoFrameType DEF Post, HandlerTypes, Places
  <2> QED BY <2>2, <2>3
<1>27. ASSUME NEW c \in Chats, Repost(c) PROVE HandlerTypes'
  <2>1. frame[c] \in Frame /\ c \in Handlers
    BY <1>t DEF HandlerTypes
  <2>2. [frame[c] EXCEPT !.again = TRUE] \in Frame
    BY <1>27, <1>t, <2>1 DEF Repost, Frame, AnyModel, Engines, Procs
  <2>3. frame' = [frame EXCEPT ![c] = [frame[c] EXCEPT !.again = TRUE]]
    BY <1>27, <1>t, <2>1 DEF Repost, HandlerTypes, Frame
  <2> QED BY <1>27, <1>t, <2>2, <2>3 DEF Repost, HandlerTypes, Places
<1>28. ASSUME NEW c \in Chats, Replan(c) PROVE HandlerTypes'
  <2>1. frame[c] \in Frame /\ c \in Handlers
    BY <1>t DEF HandlerTypes
  <2>2. CASE running[frame[c].engine] \in alive
    <3>1. \A p \in alive : p \in 0..MaxProcs
      BY <1>t DEF ProcTypes, Procs
    <3>2. [frame[c] EXCEPT !.proc = running[frame[c].engine]] \in Frame
      BY <2>1, <2>2, <3>1 DEF Frame
    <3> QED BY <1>28, <1>t, <2>2, <3>2 DEF Replan, HandlerTypes, Places
  <2>3. CASE running[frame[c].engine] \notin alive
    BY <1>28, <1>t, <2>3 DEF Replan, HandlerTypes, Places
  <2> QED BY <2>2, <2>3
<1>29. ASSUME NEW c \in Chats, First(c) PROVE HandlerTypes'
  BY <1>29, <1>t DEF HandlerTypes, First
<1>30. ASSUME NEW c \in Chats, EndStream(c) PROVE HandlerTypes'
  BY <1>30, <1>t DEF HandlerTypes, EndStream
<1>31. ASSUME NEW p \in Procs, EngineDies(p) PROVE HandlerTypes'
  BY <1>31, <1>t DEF HandlerTypes, EngineDies
<1>32. CASE UNCHANGED vars
  BY <1>32, <1>t DEF HandlerTypes, vars, settingVars, engineVars, procVars, logVars, boundVars
<1> QED
  BY <1>1, <1>2, <1>3, <1>4, <1>5, <1>6, <1>7, <1>8, <1>9, <1>10, <1>11, <1>12, <1>13, <1>14,
       <1>15, <1>16, <1>17, <1>18, <1>19, <1>20, <1>21, <1>22, <1>23, <1>24, <1>25, <1>26,
       <1>27, <1>28, <1>29, <1>30, <1>31, <1>32 DEF Next, LoadStep, ChatStep

(* No step breaks a type.                                                   *)
LEMMA TypeStep == TypeOK /\ RolesOK /\ FramesOK /\ [Next]_vars => TypeOK'
  BY TypeParts, SettingTypesStep, EngineTypesStep, ProcTypesStep, RecordTypesStep,
       HandlerTypesStep
  DEF TypeOK, SettingTypes, EngineTypes, ProcTypes, RecordTypes, HandlerTypes

RuntimeInv == TypeOK /\ RolesOK /\ LockOK /\ FramesOK

(* At the start nobody is inside a handler and no process runs.             *)
THEOREM RuntimeInit == Init => RuntimeInv
<1> SUFFICES ASSUME Init PROVE RuntimeInv
  OBVIOUS
<1> USE RuntimeAssumption, NoFrameType
<1>1. SettingTypes /\ ProcTypes
  BY DEF Init, SettingTypes, ProcTypes, Procs, AnyModel
<1>2. EngineTypes
  BY DEF Init, EngineTypes, Engines
<1>3. HandlerTypes
  BY DEF Init, HandlerTypes, Places
<1>4. RecordTypes
  BY DEF Init, RecordTypes, Nothing, AnyModel
<1>5. RolesOK /\ LockOK
  BY DEF Init, RolesOK, LockOK, Inside, Handlers
<1>6. FramesOK
  BY DEF Init, FramesOK, Handlers
<1> QED
  BY <1>1, <1>2, <1>3, <1>4, <1>5, <1>6, TypeParts DEF RuntimeInv

(* The invariant holds at the start and is kept by every step.              *)
THEOREM RuntimeInductive == Spec => []RuntimeInv
<1>1. RuntimeInv /\ [Next]_vars => RuntimeInv'
  BY TypeStep, RolesStep, LockStep, FramesStep DEF RuntimeInv
<1> QED
  BY RuntimeInit, <1>1, PTL DEF Spec

(* Every variable keeps its type, however the handlers interleave.          *)
THEOREM RuntimeTypes == Spec => []TypeOK
<1>1. RuntimeInv => TypeOK
  BY DEF RuntimeInv
<1> QED
  BY RuntimeInductive, <1>1, PTL

(* One kind of engine, and no handler that rebuilds it.                     *)
Single == Kinds = {Configured} /\ Savers = {}

(* There is one engine object, and a load that starts a process has emptied *)
(* it.                                                                      *)
SlotOK ==
  /\ slot = 1
  /\ \A h \in Handlers : frame[h].engine \in {0, 1}
  /\ \A l \in Loaders : at[l] \in {"stop", "spawn", "health", "slot", "tokenizer"} =>
                          frame[l].engine = 1
  /\ \A l \in Loaders : at[l] \in {"spawn", "health"} => running[1] = 0

(* With one kind and no settings change there is one engine object, and it  *)
(* is empty while a load starts its process.                                *)
LEMMA SlotStep ==
  Single /\ TypeOK /\ RolesOK /\ FramesOK /\ LockOK /\ SlotOK /\ [Next]_vars => SlotOK'
<1> SUFFICES ASSUME Single, TypeOK, RolesOK, FramesOK, LockOK, SlotOK, [Next]_vars PROVE SlotOK'
  OBVIOUS
<1>d. at \in [Handlers -> Places] /\ frame \in [Handlers -> Frame]
  BY DEF TypeOK
<1> USE RuntimeAssumption DEF Handlers, Goto, Finish
<1>t. 1 \in Engines /\ running \in [Engines -> 0..MaxProcs]
  BY DEF TypeOK, Engines
<1> USE DEF NoFrame, Frame, engineVars, procVars
<1>1. ASSUME NEW l \in Loaders, NEW m \in Models, Request(l, m) PROVE SlotOK'
  BY <1>1, <1>d, <1>t DEF SlotOK, RolesOK, LockOK, Inside, Single, Request
<1>2. ASSUME NEW l \in Loaders, Acquire(l) PROVE SlotOK'
  BY <1>2, <1>d, <1>t DEF SlotOK, RolesOK, LockOK, Inside, Single, Acquire
<1>3. ASSUME NEW l \in Loaders, Check(l) PROVE SlotOK'
  BY <1>3, <1>d, <1>t DEF SlotOK, RolesOK, LockOK, Inside, Single, Check, Release, Reap, Up
<1>4. ASSUME NEW l \in Loaders, Choose(l) PROVE SlotOK'
  <2>1. /\ kind[slot] = Configured
        /\ KindOf[frame[l].model] = Configured
    <3>1. kind[slot] \in Kinds
      BY <1>t DEF TypeOK, SlotOK
    <3>2. KindOf[frame[l].model] \in Kinds
      BY <1>4 DEF FramesOK, Choose
    <3> QED BY <3>1, <3>2 DEF Single
  <2>2. /\ frame'[l].engine = 1
        /\ \A h \in Handlers \ {l} : frame'[h] = frame[h]
    BY <1>4, <1>d, <2>1 DEF Choose, SlotOK, Frame
  <2> QED BY <1>4, <1>d, <2>1, <2>2 DEF SlotOK, RolesOK, Choose
<1>5. ASSUME NEW l \in Loaders, Refuse(l) PROVE SlotOK'
  BY <1>5, <1>d, <1>t DEF SlotOK, RolesOK, LockOK, Inside, Single, Refuse, Release
<1>6. ASSUME NEW l \in Loaders, StopOld(l) PROVE SlotOK'
  BY <1>6, <1>d, <1>t DEF SlotOK, RolesOK, LockOK, Inside, Single, StopOld, Halt
<1>7. ASSUME NEW l \in Loaders, Spawn(l) PROVE SlotOK'
  BY <1>7, <1>d, <1>t DEF SlotOK, RolesOK, LockOK, Inside, Single, Spawn
<1>8. ASSUME NEW l \in Loaders, Healthy(l) PROVE SlotOK'
  BY <1>8, <1>d, <1>t DEF SlotOK, RolesOK, LockOK, Inside, Single, Healthy
<1>9. ASSUME NEW l \in Loaders, NotReady(l) PROVE SlotOK'
  BY <1>9, <1>d, <1>t DEF SlotOK, RolesOK, LockOK, Inside, Single, NotReady, Release
<1>10. ASSUME NEW l \in Loaders, SetSlot(l) PROVE SlotOK'
  BY <1>10, <1>d, <1>t DEF SlotOK, RolesOK, LockOK, Inside, Single, SetSlot
<1>11. ASSUME NEW l \in Loaders, SetLoaded(l) PROVE SlotOK'
  BY <1>11, <1>d, <1>t DEF SlotOK, RolesOK, LockOK, Inside, Single, SetLoaded, Release
<1>12. ASSUME NEW u \in Unloaders, Unload(u) PROVE SlotOK'
  BY <1>12, <1>d, <1>t DEF SlotOK, RolesOK, LockOK, Inside, Single, Unload
<1>13. ASSUME NEW s \in Savers, SaveSettings(s) PROVE SlotOK'
  BY <1>13, <1>d, <1>t DEF SlotOK, RolesOK, LockOK, Inside, Single, SaveSettings
<1>14. ASSUME NEW s \in Savers, Swap(s) PROVE SlotOK'
  BY <1>14, <1>d, <1>t DEF SlotOK, RolesOK, LockOK, Inside, Single, Swap
<1>15. ASSUME NEW s \in Savers, WriteSettings(s) PROVE SlotOK'
  BY <1>15, <1>d, <1>t DEF SlotOK, RolesOK, LockOK, Inside, Single, WriteSettings
<1>16. ASSUME NEW h \in Unloaders \cup Savers, StopHeld(h) PROVE SlotOK'
  BY <1>16, <1>d, <1>t DEF SlotOK, RolesOK, LockOK, Inside, Single, StopHeld, Halt
<1>17. ASSUME NEW h \in Handlers, Clear(h) PROVE SlotOK'
  BY <1>17, <1>d, <1>t DEF SlotOK, RolesOK, LockOK, Inside, Single, Clear
<1>18. ASSUME NEW h \in Handlers, Hangup(h) PROVE SlotOK'
  BY <1>18, <1>d, <1>t DEF SlotOK, RolesOK, LockOK, Inside, Single, Hangup
<1>19. ASSUME NEW q \in Pollers, Poll(q) PROVE SlotOK'
  BY <1>19, <1>d, <1>t DEF SlotOK, RolesOK, LockOK, Inside, Single, Poll
<1>20. ASSUME NEW q \in Pollers, Probe(q) PROVE SlotOK'
  BY <1>20, <1>d, <1>t DEF SlotOK, RolesOK, LockOK, Inside, Single, Probe, Reap, Up
<1>21. ASSUME NEW x \in Hashers, Resolve(x) PROVE SlotOK'
  BY <1>21, <1>d, <1>t DEF SlotOK, RolesOK, LockOK, Inside, Single, Resolve
<1>22. ASSUME NEW x \in Hashers, Hash(x) PROVE SlotOK'
  BY <1>22, <1>d, <1>t DEF SlotOK, RolesOK, LockOK, Inside, Single, Hash
<1>23. ASSUME NEW x \in Hashers, WriteIdentity(x) PROVE SlotOK'
  BY <1>23, <1>d, <1>t DEF SlotOK, RolesOK, LockOK, Inside, Single, WriteIdentity
<1>24. ASSUME NEW c \in Chats, Ask(c) PROVE SlotOK'
  BY <1>24, <1>d, <1>t DEF SlotOK, RolesOK, LockOK, Inside, Single, Ask, Nothing
<1>25. ASSUME NEW c \in Chats, AskEngine(c) PROVE SlotOK'
  BY <1>25, <1>d, <1>t DEF SlotOK, RolesOK, LockOK, Inside, Single, AskEngine, Reap, Up
<1>26. ASSUME NEW c \in Chats, Post(c) PROVE SlotOK'
  BY <1>26, <1>d, <1>t DEF SlotOK, RolesOK, LockOK, Inside, Single, Post
<1>27. ASSUME NEW c \in Chats, Repost(c) PROVE SlotOK'
  BY <1>27, <1>d, <1>t DEF SlotOK, RolesOK, LockOK, Inside, Single, Repost
<1>28. ASSUME NEW c \in Chats, Replan(c) PROVE SlotOK'
  BY <1>28, <1>d, <1>t DEF SlotOK, RolesOK, LockOK, Inside, Single, Replan
<1>29. ASSUME NEW c \in Chats, First(c) PROVE SlotOK'
  BY <1>29, <1>d, <1>t DEF SlotOK, RolesOK, LockOK, Inside, Single, First
<1>30. ASSUME NEW c \in Chats, EndStream(c) PROVE SlotOK'
  BY <1>30, <1>d, <1>t DEF SlotOK, RolesOK, LockOK, Inside, Single, EndStream
<1>31. ASSUME NEW p \in Procs, EngineDies(p) PROVE SlotOK'
  BY <1>31, <1>d, <1>t DEF SlotOK, RolesOK, LockOK, Inside, Single, EngineDies
<1>32. CASE UNCHANGED vars
  BY <1>32 DEF SlotOK, RolesOK, LockOK, Inside, Single, vars, settingVars, engineVars,
       procVars, logVars, boundVars
<1> QED
  BY <1>1, <1>2, <1>3, <1>4, <1>5, <1>6, <1>7, <1>8, <1>9, <1>10, <1>11, <1>12, <1>13, <1>14,
       <1>15, <1>16, <1>17, <1>18, <1>19, <1>20, <1>21, <1>22, <1>23, <1>24, <1>25, <1>26,
       <1>27, <1>28, <1>29, <1>30, <1>31, <1>32 DEF Next, LoadStep, ChatStep

(* With one kind of engine and nobody changing the settings, stop-then-start *)
(* does keep two engines from holding memory at once, for any number of      *)
(* loads, unloads, polls, chats, deaths and hang-ups.  (ChildEngine::load    *)
(* under AppState::load_lock; rt_two_engines shows the other case.)          *)
THEOREM OneEngine ==
  ASSUME Single
  PROVE  Spec => []OneEngineAtATime
<1>1. Init => SlotOK
  BY RuntimeAssumption DEF Init, SlotOK, NoFrame, Handlers
<1>2. RuntimeInv /\ SlotOK /\ [Next]_vars => SlotOK'
  BY Single, SlotStep DEF RuntimeInv
<1>3. RuntimeInv /\ SlotOK => OneEngineAtATime
  <2> SUFFICES ASSUME RuntimeInv, SlotOK, NEW p \in Resident, NEW q \in Resident
               PROVE  p = q
    BY DEF OneEngineAtATime
  <2>1. /\ 0 \notin alive
        /\ p \in alive /\ q \in alive
    BY DEF RuntimeInv, TypeOK, Procs, Resident
  <2>2. Kept = {1}
    BY DEF SlotOK, Kept
  <2>3. CASE \E l \in Loaders : at[l] = "health"
    <3>1. PICK l \in Loaders : at[l] = "health"
      BY <2>3
    <3>2. running[1] = 0
      BY <3>1 DEF SlotOK
    <3>3. \A k \in Loaders : at[k] = "health" => k = l
      BY <3>1 DEF RuntimeInv, LockOK, Inside
    <3> QED BY <2>1, <2>2, <3>2, <3>3 DEF Resident
  <2>4. CASE \A l \in Loaders : at[l] # "health"
    BY <2>2, <2>4 DEF Resident
  <2> QED BY <2>3, <2>4
<1> QED
  BY RuntimeInductive, <1>1, <1>2, <1>3, PTL DEF Spec

-----------------------------------------------------------------------------
(* The gauge. *)

\* The calls the gauge counts.
Streaming == {c \in Chats : at[c] \in {"first", "stream"}}

\* A step that neither begins nor ends one; or a client hung up.
GaugeStays ==
  hangups' > 0 \/ (Streaming' = Streaming /\ active' = active /\ hangups' = hangups)

GaugeOK == active = Cardinality(Streaming)

(* Every step but the request and the last event leaves the gauge and the   *)
(* calls it counts alone.                                                   *)
LEMMA GaugeFacts ==
  TypeOK /\ RolesOK /\ [Next]_vars => GaugeStays \/ \E c \in Chats : Post(c) \/ EndStream(c)
<1> SUFFICES ASSUME TypeOK, RolesOK, [Next]_vars
             PROVE  GaugeStays \/ \E c \in Chats : Post(c) \/ EndStream(c)
  OBVIOUS
<1> DEFINE Goal == GaugeStays \/ \E c \in Chats : Post(c) \/ EndStream(c)
<1>d. at \in [Handlers -> Places] /\ hangups \in Nat
  BY RuntimeAssumption DEF TypeOK
<1> USE RuntimeAssumption DEF Handlers, Goto, Finish, logVars, boundVars
<1>1. ASSUME NEW l \in Loaders, NEW m \in Models, Request(l, m) PROVE Goal
  BY <1>1, <1>d DEF GaugeStays, Streaming, RolesOK, Inside, Request
<1>2. ASSUME NEW l \in Loaders, Acquire(l) PROVE Goal
  BY <1>2, <1>d DEF GaugeStays, Streaming, RolesOK, Inside, Acquire
<1>3. ASSUME NEW l \in Loaders, Check(l) PROVE Goal
  BY <1>3, <1>d DEF GaugeStays, Streaming, RolesOK, Inside, Check, Release, Reap, Up
<1>4. ASSUME NEW l \in Loaders, Choose(l) PROVE Goal
  BY <1>4, <1>d DEF GaugeStays, Streaming, RolesOK, Inside, Choose
<1>5. ASSUME NEW l \in Loaders, Refuse(l) PROVE Goal
  BY <1>5, <1>d DEF GaugeStays, Streaming, RolesOK, Inside, Refuse, Release
<1>6. ASSUME NEW l \in Loaders, StopOld(l) PROVE Goal
  BY <1>6, <1>d DEF GaugeStays, Streaming, RolesOK, Inside, StopOld, Halt
<1>7. ASSUME NEW l \in Loaders, Spawn(l) PROVE Goal
  BY <1>7, <1>d DEF GaugeStays, Streaming, RolesOK, Inside, Spawn
<1>8. ASSUME NEW l \in Loaders, Healthy(l) PROVE Goal
  BY <1>8, <1>d DEF GaugeStays, Streaming, RolesOK, Inside, Healthy
<1>9. ASSUME NEW l \in Loaders, NotReady(l) PROVE Goal
  BY <1>9, <1>d DEF GaugeStays, Streaming, RolesOK, Inside, NotReady, Release
<1>10. ASSUME NEW l \in Loaders, SetSlot(l) PROVE Goal
  BY <1>10, <1>d DEF GaugeStays, Streaming, RolesOK, Inside, SetSlot
<1>11. ASSUME NEW l \in Loaders, SetLoaded(l) PROVE Goal
  BY <1>11, <1>d DEF GaugeStays, Streaming, RolesOK, Inside, SetLoaded, Release
<1>12. ASSUME NEW u \in Unloaders, Unload(u) PROVE Goal
  BY <1>12, <1>d DEF GaugeStays, Streaming, RolesOK, Inside, Unload
<1>13. ASSUME NEW s \in Savers, SaveSettings(s) PROVE Goal
  BY <1>13, <1>d DEF GaugeStays, Streaming, RolesOK, Inside, SaveSettings
<1>14. ASSUME NEW s \in Savers, Swap(s) PROVE Goal
  BY <1>14, <1>d DEF GaugeStays, Streaming, RolesOK, Inside, Swap
<1>15. ASSUME NEW s \in Savers, WriteSettings(s) PROVE Goal
  BY <1>15, <1>d DEF GaugeStays, Streaming, RolesOK, Inside, WriteSettings
<1>16. ASSUME NEW h \in Unloaders \cup Savers, StopHeld(h) PROVE Goal
  BY <1>16, <1>d DEF GaugeStays, Streaming, RolesOK, Inside, StopHeld, Halt
<1>17. ASSUME NEW h \in Handlers, Clear(h) PROVE Goal
  BY <1>17, <1>d DEF GaugeStays, Streaming, RolesOK, Clear
<1>18. ASSUME NEW h \in Handlers, Hangup(h) PROVE Goal
  BY <1>18, <1>d DEF GaugeStays, Streaming, RolesOK, Inside, Hangup
<1>19. ASSUME NEW q \in Pollers, Poll(q) PROVE Goal
  BY <1>19, <1>d DEF GaugeStays, Streaming, RolesOK, Inside, Poll
<1>20. ASSUME NEW q \in Pollers, Probe(q) PROVE Goal
  BY <1>20, <1>d DEF GaugeStays, Streaming, RolesOK, Inside, Probe, Reap, Up
<1>21. ASSUME NEW x \in Hashers, Resolve(x) PROVE Goal
  BY <1>21, <1>d DEF GaugeStays, Streaming, RolesOK, Inside, Resolve
<1>22. ASSUME NEW x \in Hashers, Hash(x) PROVE Goal
  BY <1>22, <1>d DEF GaugeStays, Streaming, RolesOK, Hash
<1>23. ASSUME NEW x \in Hashers, WriteIdentity(x) PROVE Goal
  BY <1>23, <1>d DEF GaugeStays, Streaming, RolesOK, WriteIdentity
<1>24. ASSUME NEW c \in Chats, Ask(c) PROVE Goal
  BY <1>24, <1>d DEF GaugeStays, Streaming, RolesOK, Inside, Ask
<1>25. ASSUME NEW c \in Chats, AskEngine(c) PROVE Goal
  BY <1>25, <1>d DEF GaugeStays, Streaming, RolesOK, Inside, AskEngine, Reap, Up
<1>26. ASSUME NEW c \in Chats, Post(c) PROVE Goal
  BY <1>26
<1>27. ASSUME NEW c \in Chats, Repost(c) PROVE Goal
  BY <1>27, <1>d DEF GaugeStays, Streaming, RolesOK, Inside, Repost
<1>28. ASSUME NEW c \in Chats, Replan(c) PROVE Goal
  BY <1>28, <1>d DEF GaugeStays, Streaming, RolesOK, Replan
<1>29. ASSUME NEW c \in Chats, First(c) PROVE Goal
  BY <1>29, <1>d DEF GaugeStays, Streaming, RolesOK, First
<1>30. ASSUME NEW c \in Chats, EndStream(c) PROVE Goal
  BY <1>30
<1>31. ASSUME NEW p \in Procs, EngineDies(p) PROVE Goal
  BY <1>31, <1>d DEF GaugeStays, Streaming, RolesOK, Inside, EngineDies
<1>32. ASSUME UNCHANGED vars PROVE Goal
  BY <1>32 DEF GaugeStays, Streaming, vars
<1> HIDE DEF Goal
<1>33. Goal
  BY <1>1, <1>2, <1>3, <1>4, <1>5, <1>6, <1>7, <1>8, <1>9, <1>10, <1>11, <1>12, <1>13, <1>14,
       <1>15, <1>16, <1>17, <1>18, <1>19, <1>20, <1>21, <1>22, <1>23, <1>24, <1>25, <1>26,
       <1>27, <1>28, <1>29, <1>30, <1>31, <1>32 DEF Next, LoadStep, ChatStep
<1> QED BY <1>33 DEF Goal

(* While nobody hangs up the gauge is the number of calls in flight: up with *)
(* the request, down with the last event, and by one each time.             *)
LEMMA GaugeStep ==
  TypeOK /\ RolesOK /\ (hangups = 0 => GaugeOK) /\ [Next]_vars => (hangups' = 0 => GaugeOK')
<1> SUFFICES ASSUME TypeOK, RolesOK, hangups = 0 => GaugeOK, [Next]_vars, hangups' = 0
             PROVE  GaugeOK'
  OBVIOUS
<1>1. IsFiniteSet(Streaming) /\ Cardinality(Streaming) \in Nat
  BY FewChats, FS_Subset, FS_CardinalityType DEF Streaming
<1>d. at \in [Handlers -> Places] /\ hangups \in Nat /\ Chats \subseteq Handlers
  BY RuntimeAssumption DEF TypeOK, Handlers
<1>2. CASE GaugeStays
  BY <1>2, <1>d DEF GaugeStays, GaugeOK
<1>3. ASSUME NEW c \in Chats, Post(c) PROVE GaugeOK'
  <2>1. hangups = 0 /\ c \notin Streaming
    BY <1>3 DEF Post, Streaming, boundVars
  <2>2. CASE running[frame[c].engine] \in alive
    <3>1. Streaming' = Streaming \cup {c} /\ active' = active + 1
      BY <1>3, <1>d, <2>2 DEF Post, Streaming, Goto
    <3>2. Cardinality(Streaming \cup {c}) = Cardinality(Streaming) + 1
      BY <1>1, <2>1, FS_AddElement
    <3> QED BY <2>1, <3>1, <3>2 DEF GaugeOK
  <2>3. CASE running[frame[c].engine] \notin alive
    <3>1. Streaming' = Streaming /\ active' = active
      BY <1>3, <1>d, <2>3 DEF Post, Streaming, Goto, Finish
    <3> QED BY <2>1, <3>1 DEF GaugeOK
  <2> QED BY <2>2, <2>3
<1>4. ASSUME NEW c \in Chats, EndStream(c) PROVE GaugeOK'
  <2>1. hangups = 0 /\ c \in Streaming /\ Streaming' = Streaming \ {c}
    BY <1>4, <1>d DEF EndStream, Streaming, boundVars, Finish, Goto
  <2>2. Cardinality(Streaming \ {c}) = Cardinality(Streaming) - 1
    BY <1>1, <2>1, FS_RemoveElement
  <2>3. IsFiniteSet(Streaming \ {c}) /\ Cardinality(Streaming \ {c}) \in Nat
    BY <1>1, FS_Subset, FS_CardinalityType
  <2>4. active > 0 /\ active' = active - 1
    BY <1>1, <1>4, <2>1, <2>2, <2>3 DEF EndStream, GaugeOK
  <2> QED BY <2>1, <2>2, <2>4 DEF GaugeOK
<1> QED BY <1>2, <1>3, <1>4, GaugeFacts

(* The gauge counts the calls between their request and their last event,    *)
(* for any number of chats, through reposts, refusals, second plans, engines *)
(* that die and settings that change, as long as no client hangs up.         *)
(* (MetricsHub::generation_started, generation_finished.)                    *)
THEOREM GaugeIsTrue == Spec => []ActiveCountsStreams
<1>1. Init => GaugeOK
  <2> SUFFICES ASSUME Init PROVE GaugeOK
    OBVIOUS
  <2>1. Streaming = {}
    BY DEF Init, Streaming, Handlers
  <2> QED BY <2>1, FS_EmptySet DEF Init, GaugeOK
<1>2. RuntimeInv /\ (hangups = 0 => GaugeOK) /\ [Next]_vars => (hangups = 0 => GaugeOK)'
  BY GaugeStep DEF RuntimeInv
<1>3. (hangups = 0 => GaugeOK) => ActiveCountsStreams
  BY DEF GaugeOK, Streaming, ActiveCountsStreams
<1> QED BY RuntimeInductive, <1>1, <1>2, <1>3, PTL DEF Spec

-----------------------------------------------------------------------------
(* The record and the engine. *)

(* Engines run processes that were spawned, and only engines that were built *)
(* do; an identity is written only after one was worked out.                *)
BuiltOK ==
  /\ slot <= built
  /\ \A e \in Engines : running[e] <= spawned /\ (built < e => running[e] = 0)
  /\ \A l \in Loaders : at[l] \in {"stop", "spawn", "health", "slot", "tokenizer"} =>
                          frame[l].engine <= built
  /\ hashed = {} => \A x \in Hashers : at[x] # "write"

(* What a load starts serves its model: while the process starts, when its  *)
(* engine has it, and when the slot has that engine.                        *)
StartedOK ==
  /\ \A l \in Loaders : at[l] = "health" =>
        frame[l].proc \in 1..spawned /\ holds[frame[l].proc] = frame[l].model
  /\ \A l \in Loaders : at[l] = "slot" /\ running[frame[l].engine] \in alive =>
        holds[running[frame[l].engine]] = frame[l].model
  /\ \A l \in Loaders : at[l] = "tokenizer" /\ Answers => Serving = frame[l].model

(* A load that goes on past its check has no engine up with its model on    *)
(* record.                                                                  *)
ChoseOK ==
  hashed = {} => \A l \in Loaders :
                   at[l] \in {"choose", "stop"} /\ loaded.model = frame[l].model => ~Answers

ServedInv == BuiltOK /\ StartedOK /\ ChoseOK /\ LoadedIsServed

\* A step that starts nothing, fills no slot and moves no load past its check.
Aside ==
  /\ \A e \in Engines : running'[e] = running[e] \/ running'[e] = 0
  /\ alive' \subseteq alive /\ holds' = holds /\ spawned' = spawned
  /\ built' \in Nat /\ built <= built'
  /\ slot' = slot \/ (built < slot' /\ slot' <= built')
  /\ \A l \in Loaders :
        \/ at'[l] = at[l] /\ frame'[l] = frame[l]
        \/ /\ at'[l] \in {"idle", "wait", "check"}
           /\ at[l] \in {"slot", "tokenizer"} => hangups' > 0
  /\ loaded' = loaded \/ loaded' = Nothing \/ hashed # {}
  /\ hashed \subseteq hashed'
  /\ hashed' = {} => \A x \in Hashers : at'[x] # "write"
  /\ hangups <= hangups'

\* A step of a load past its check.
Onward ==
  \E l \in Loaders : \/ Check(l) /\ loaded.model # frame[l].model
                     \/ Check(l) /\ ~Up(slot)
                     \/ Choose(l) \/ StopOld(l) \/ Spawn(l) \/ Healthy(l)
                     \/ SetSlot(l) \/ SetLoaded(l)

(* Every other step stands aside: it may stop an engine, forget the record  *)
(* or put an engine nobody ever started in the slot.                        *)
LEMMA AsideFacts ==
  TypeOK /\ RolesOK /\ BuiltOK /\ [Next]_vars => Aside \/ Onward
<1> SUFFICES ASSUME TypeOK, RolesOK, BuiltOK, [Next]_vars PROVE Aside \/ Onward
  OBVIOUS
<1> DEFINE Goal == Aside \/ Onward
<1>d. /\ at \in [Handlers -> Places] /\ frame \in [Handlers -> Frame]
      /\ running \in [Engines -> 0..MaxProcs] /\ slot \in Engines
      /\ built \in Nat /\ hangups \in Nat
  BY RuntimeAssumption DEF TypeOK, Engines
<1> USE RuntimeAssumption DEF Handlers, Goto, Finish, engineVars, procVars, boundVars
<1>1. ASSUME NEW l \in Loaders, NEW m \in Models, Request(l, m) PROVE Goal
  BY <1>1, <1>d DEF Aside, RolesOK, Inside, BuiltOK, Request
<1>2. ASSUME NEW l \in Loaders, Acquire(l) PROVE Goal
  BY <1>2, <1>d DEF Aside, RolesOK, Inside, BuiltOK, Acquire
<1>3. ASSUME NEW l \in Loaders, Check(l) PROVE Goal
  <2>1. CASE loaded.model = frame[l].model /\ Up(slot)
    BY <1>3, <1>d, <2>1 DEF Aside, RolesOK, Inside, BuiltOK, Check, Release, Reap
  <2> QED BY <1>3, <2>1 DEF Onward
<1>4. ASSUME NEW l \in Loaders, Choose(l) PROVE Goal
  BY <1>4 DEF Onward
<1>5. ASSUME NEW l \in Loaders, Refuse(l) PROVE Goal
  BY <1>5, <1>d DEF Aside, RolesOK, Inside, BuiltOK, Refuse, Release
<1>6. ASSUME NEW l \in Loaders, StopOld(l) PROVE Goal
  BY <1>6 DEF Onward
<1>7. ASSUME NEW l \in Loaders, Spawn(l) PROVE Goal
  BY <1>7 DEF Onward
<1>8. ASSUME NEW l \in Loaders, Healthy(l) PROVE Goal
  BY <1>8 DEF Onward
<1>9. ASSUME NEW l \in Loaders, NotReady(l) PROVE Goal
  BY <1>9, <1>d DEF Aside, RolesOK, Inside, BuiltOK, NotReady, Release
<1>10. ASSUME NEW l \in Loaders, SetSlot(l) PROVE Goal
  BY <1>10 DEF Onward
<1>11. ASSUME NEW l \in Loaders, SetLoaded(l) PROVE Goal
  BY <1>11 DEF Onward
<1>12. ASSUME NEW u \in Unloaders, Unload(u) PROVE Goal
  BY <1>12, <1>d DEF Aside, RolesOK, Inside, BuiltOK, Unload
<1>13. ASSUME NEW s \in Savers, SaveSettings(s) PROVE Goal
  BY <1>13, <1>d DEF Aside, RolesOK, Inside, BuiltOK, SaveSettings
<1>14. ASSUME NEW s \in Savers, Swap(s) PROVE Goal
  BY <1>14, <1>d DEF Aside, RolesOK, Inside, BuiltOK, Swap
<1>15. ASSUME NEW s \in Savers, WriteSettings(s) PROVE Goal
  BY <1>15, <1>d DEF Aside, RolesOK, Inside, BuiltOK, WriteSettings
<1>16. ASSUME NEW h \in Unloaders \cup Savers, StopHeld(h) PROVE Goal
  BY <1>16, <1>d DEF Aside, RolesOK, Inside, BuiltOK, StopHeld, Halt
<1>17. ASSUME NEW h \in Handlers, Clear(h) PROVE Goal
  BY <1>17, <1>d DEF Aside, RolesOK, Inside, BuiltOK, Clear
<1>18. ASSUME NEW h \in Handlers, Hangup(h) PROVE Goal
  BY <1>18, <1>d DEF Aside, RolesOK, Inside, BuiltOK, Hangup
<1>19. ASSUME NEW q \in Pollers, Poll(q) PROVE Goal
  BY <1>19, <1>d DEF Aside, RolesOK, Inside, BuiltOK, Poll
<1>20. ASSUME NEW q \in Pollers, Probe(q) PROVE Goal
  BY <1>20, <1>d DEF Aside, RolesOK, Inside, BuiltOK, Probe, Reap, Up
<1>21. ASSUME NEW x \in Hashers, Resolve(x) PROVE Goal
  BY <1>21, <1>d DEF Aside, RolesOK, Inside, BuiltOK, Resolve
<1>22. ASSUME NEW x \in Hashers, Hash(x) PROVE Goal
  BY <1>22, <1>d DEF Aside, RolesOK, Inside, BuiltOK, Hash
<1>23. ASSUME NEW x \in Hashers, WriteIdentity(x) PROVE Goal
  BY <1>23, <1>d DEF Aside, RolesOK, Inside, BuiltOK, WriteIdentity
<1>24. ASSUME NEW c \in Chats, Ask(c) PROVE Goal
  BY <1>24, <1>d DEF Aside, RolesOK, Inside, BuiltOK, Ask
<1>25. ASSUME NEW c \in Chats, AskEngine(c) PROVE Goal
  BY <1>25, <1>d DEF Aside, RolesOK, Inside, BuiltOK, AskEngine, Reap, Up
<1>26. ASSUME NEW c \in Chats, Post(c) PROVE Goal
  BY <1>26, <1>d DEF Aside, RolesOK, Inside, BuiltOK, Post
<1>27. ASSUME NEW c \in Chats, Repost(c) PROVE Goal
  BY <1>27, <1>d DEF Aside, RolesOK, Inside, BuiltOK, Repost
<1>28. ASSUME NEW c \in Chats, Replan(c) PROVE Goal
  BY <1>28, <1>d DEF Aside, RolesOK, Inside, BuiltOK, Replan
<1>29. ASSUME NEW c \in Chats, First(c) PROVE Goal
  BY <1>29, <1>d DEF Aside, RolesOK, Inside, BuiltOK, First
<1>30. ASSUME NEW c \in Chats, EndStream(c) PROVE Goal
  BY <1>30, <1>d DEF Aside, RolesOK, Inside, BuiltOK, EndStream
<1>31. ASSUME NEW p \in Procs, EngineDies(p) PROVE Goal
  BY <1>31, <1>d DEF Aside, RolesOK, Inside, BuiltOK, EngineDies
<1>32. ASSUME UNCHANGED vars PROVE Goal
  BY <1>32, <1>d DEF Aside, BuiltOK, vars
<1> HIDE DEF Goal
<1>33. Goal
  BY <1>1, <1>2, <1>3, <1>4, <1>5, <1>6, <1>7, <1>8, <1>9, <1>10, <1>11, <1>12, <1>13, <1>14,
       <1>15, <1>16, <1>17, <1>18, <1>19, <1>20, <1>21, <1>22, <1>23, <1>24, <1>25, <1>26,
       <1>27, <1>28, <1>29, <1>30, <1>31, <1>32 DEF Next, LoadStep, ChatStep
<1> QED BY <1>33 DEF Goal

(* Standing aside keeps the record true.                                    *)
LEMMA AsideKeeps ==
  TypeOK /\ TypeOK' /\ RolesOK /\ FramesOK /\ ServedInv /\ Aside => ServedInv'
<1> SUFFICES ASSUME TypeOK, TypeOK', RolesOK, FramesOK, ServedInv, Aside PROVE ServedInv'
  OBVIOUS
<1>n. 0 \notin Procs /\ Engines \subseteq Nat
  BY RuntimeAssumption DEF Engines, Procs
<1>d. /\ slot \in Engines /\ slot' \in Engines /\ Engines \subseteq Nat
      /\ built \in Nat /\ built' \in Nat /\ spawned \in Nat
      /\ hangups \in Nat /\ hangups' \in Nat /\ 0 \notin alive
      /\ running \in [Engines -> 0..MaxProcs] /\ running' \in [Engines -> 0..MaxProcs]
  BY <1>n, RuntimeAssumption DEF TypeOK
<1>1. \A e \in Engines : running'[e] \in alive' => running[e] \in alive /\ running'[e] = running[e]
  BY <1>d DEF Aside
<1>2. Answers' => Answers /\ Serving' = Serving
  <2>1. CASE slot' = slot
    BY <1>1, <1>d, <2>1 DEF Aside, Answers, Serving
  <2>2. CASE built < slot'
    BY <1>1, <1>d, <2>2 DEF ServedInv, BuiltOK, Answers
  <2> QED BY <2>1, <2>2 DEF Aside
<1>3. BuiltOK'
  <2>1. slot' <= built'
    BY <1>d DEF Aside, ServedInv, BuiltOK
  <2>2. \A e \in Engines : running'[e] <= spawned' /\ (built' < e => running'[e] = 0)
    BY <1>d DEF Aside, ServedInv, BuiltOK
  <2>3. \A l \in Loaders : at'[l] \in {"stop", "spawn", "health", "slot", "tokenizer"} =>
                            frame'[l].engine <= built'
    <3> SUFFICES ASSUME NEW l \in Loaders,
                        at'[l] \in {"stop", "spawn", "health", "slot", "tokenizer"}
                 PROVE  frame'[l].engine <= built'
      OBVIOUS
    <3>1. at'[l] = at[l] /\ frame'[l] = frame[l] /\ built <= built'
      BY DEF Aside
    <3>2. frame[l].engine \in Engines /\ frame[l].engine <= built
      BY <3>1 DEF ServedInv, BuiltOK, FramesOK
    <3>3. \A a, b, c \in Nat : a <= b /\ b <= c => a <= c
      OBVIOUS
    <3>4. frame[l].engine <= built'
      BY <1>n, <1>d, <3>1, <3>2, <3>3
    <3> QED BY <3>1, <3>4
  <2> QED BY <2>1, <2>2, <2>3 DEF BuiltOK, Aside
<1>4. StartedOK'
  <2>1. \A l \in Loaders : at'[l] = "health" =>
          frame'[l].proc \in 1..spawned' /\ holds'[frame'[l].proc] = frame'[l].model
    BY DEF Aside, ServedInv, StartedOK
  <2>2. \A l \in Loaders : at'[l] = "slot" /\ running'[frame'[l].engine] \in alive' =>
          holds'[running'[frame'[l].engine]] = frame'[l].model
    BY <1>1 DEF Aside, ServedInv, StartedOK, FramesOK
  <2>3. \A l \in Loaders : at'[l] = "tokenizer" /\ Answers' => Serving' = frame'[l].model
    BY <1>2 DEF Aside, ServedInv, StartedOK
  <2> QED BY <2>1, <2>2, <2>3 DEF StartedOK
<1>5. ChoseOK'
  <2> SUFFICES ASSUME hashed' = {}, NEW l \in Loaders, at'[l] \in {"choose", "stop"},
                      loaded'.model = frame'[l].model, Answers'
               PROVE  FALSE
    BY DEF ChoseOK
  <2>1. /\ hashed = {} /\ at'[l] = at[l] /\ frame'[l] = frame[l]
        /\ loaded' = loaded \/ loaded' = Nothing
    BY DEF Aside
  <2>2. frame[l].model \in Models
    BY <2>1 DEF FramesOK
  <2>3. loaded' # Nothing
    BY <2>1, <2>2, RuntimeAssumption DEF Nothing
  <2> QED BY <1>2, <2>1, <2>3 DEF ServedInv, ChoseOK
<1>6. LoadedIsServed'
  <2> SUFFICES ASSUME Answers', ~Recording', hangups' = 0, hashed' = {}, loaded' # Nothing
               PROVE  loaded'.model = Serving'
    BY DEF LoadedIsServed
  <2>1. hangups = 0 /\ hashed = {} /\ loaded' = loaded
    BY <1>d DEF Aside
  <2>2. ~Recording
    BY <1>d DEF Aside, Recording
  <2> QED BY <1>2, <2>1, <2>2 DEF ServedInv, LoadedIsServed
<1> QED BY <1>3, <1>4, <1>5, <1>6 DEF ServedInv

(* A load's own steps keep the record true: the engine it starts serves its *)
(* model, and it writes the slot before the record, under load_lock.        *)
LEMMA OnwardKeeps ==
  TypeOK /\ TypeOK' /\ RolesOK /\ FramesOK /\ LockOK /\ ServedInv /\ Onward => ServedInv'
<1> SUFFICES ASSUME TypeOK, TypeOK', RolesOK, FramesOK, LockOK, ServedInv,
                    NEW l \in Loaders,
                    \/ Check(l) /\ (loaded.model # frame[l].model \/ ~Up(slot))
                    \/ Choose(l) \/ StopOld(l) \/ Spawn(l) \/ Healthy(l)
                    \/ SetSlot(l) \/ SetLoaded(l)
             PROVE  ServedInv'
  BY DEF Onward
<1>n. 0 \notin Procs /\ Engines \subseteq Nat
  BY RuntimeAssumption DEF Engines, Procs
<1>d. /\ slot \in Engines /\ slot' \in Engines /\ Engines \subseteq Nat
      /\ built \in Nat /\ built' \in Nat /\ spawned \in Nat
      /\ 0 \notin alive /\ 0 \notin alive'
      /\ running \in [Engines -> 0..MaxProcs] /\ holds \in [Procs -> AnyModel]
      /\ at \in [Handlers -> Places] /\ frame \in [Handlers -> Frame]
  BY <1>n, RuntimeAssumption DEF TypeOK
<1>e. /\ loaded # Nothing => loaded.model \in Models
      /\ alive \subseteq 1..spawned
  BY DEF FramesOK
<1>a. \A k \in Loaders \ {l} : at[k] \notin Inside
  BY DEF LockOK, Inside, Check, Choose, StopOld, Spawn, Healthy, SetSlot, SetLoaded
<1>b. \A k \in Loaders \ {l} : at'[k] = at[k] /\ frame'[k] = frame[k]
  BY <1>d DEF Handlers, Goto, Finish, Release,
              Check, Choose, StopOld, Spawn, Healthy, SetSlot, SetLoaded
<1>x. hashed' = hashed /\ \A x \in Hashers : at'[x] = at[x]
  BY <1>d, RuntimeAssumption DEF Handlers, Goto, Finish, Release,
              Check, Choose, StopOld, Spawn, Healthy, SetSlot, SetLoaded
<1> DEFINE Part1 == slot' <= built'
           Part2 == \A e \in Engines : running'[e] <= spawned' /\ (built' < e => running'[e] = 0)
           Part3 == at'[l] \in {"stop", "spawn", "health", "slot", "tokenizer"} =>
                      frame'[l].engine <= built'
           Part4 == at'[l] = "health" =>
                      frame'[l].proc \in 1..spawned' /\ holds'[frame'[l].proc] = frame'[l].model
           Part5 == at'[l] = "slot" /\ running'[frame'[l].engine] \in alive' =>
                      holds'[running'[frame'[l].engine]] = frame'[l].model
           Part6 == at'[l] = "tokenizer" /\ Answers' => Serving' = frame'[l].model
           Part7 == hashed' = {} /\ at'[l] \in {"choose", "stop"}
                      /\ loaded'.model = frame'[l].model => ~Answers'
           Goal  == Part1 /\ Part2 /\ Part3 /\ Part4 /\ Part5 /\ Part6 /\ Part7 /\ LoadedIsServed'
<1>g. Goal => ServedInv'
  <2> SUFFICES ASSUME Goal PROVE ServedInv'
    OBVIOUS
  <2>1. BuiltOK'
    BY <1>a, <1>b, <1>x DEF BuiltOK, ServedInv, Inside
  <2>2. StartedOK'
    BY <1>a, <1>b DEF StartedOK, Inside
  <2>3. ChoseOK'
    BY <1>a, <1>b DEF ChoseOK, Inside
  <2> QED BY <2>1, <2>2, <2>3 DEF ServedInv
<1>h. l \in Handlers
  BY DEF Handlers
<1> USE DEF Goto, engineVars, procVars, boundVars
<1>1. CASE Check(l) /\ (loaded.model # frame[l].model \/ ~Up(slot))
  <2>1. at'[l] = "choose" /\ frame' = frame
    BY <1>1, <1>d, <1>h DEF Check
  <2>2. \A e \in Engines : running'[e] = running[e] \/ running'[e] = 0
    BY <1>1, <1>d DEF Check, Reap
  <2>3. UNCHANGED <<slot, built, spawned, holds, alive, loaded, hangups>>
    BY <1>1 DEF Check
  <2>4. Answers' => Answers /\ Serving' = Serving
    BY <1>d, <2>2, <2>3 DEF Answers, Serving
  <2>5. Part7
    BY <1>1, <2>1, <2>3, <2>4 DEF Up, Answers
  <2>6. LoadedIsServed'
    BY <1>x, <1>b, <2>1, <2>3, <2>4, <1>1 DEF ServedInv, LoadedIsServed, Recording, Check
  <2>7. Part1 /\ Part2
    BY <1>d, <2>2, <2>3 DEF ServedInv, BuiltOK
  <2> QED BY <1>g, <2>1, <2>5, <2>6, <2>7
<1>2. CASE Choose(l)
  <2>1. /\ at'[l] = "stop" /\ built <= built' /\ frame'[l].model = frame[l].model
        /\ frame'[l].engine = slot \/ frame'[l].engine = built'
    BY <1>2, <1>d, <1>h DEF Choose, Frame
  <2>2. UNCHANGED <<slot, running, spawned, holds, alive, loaded, hangups>>
    BY <1>2 DEF Choose
  <2>3. Answers' = Answers /\ Serving' = Serving
    BY <2>2 DEF Answers, Serving
  <2>4. Part1 /\ Part2 /\ Part3
    BY <1>d, <2>1, <2>2 DEF ServedInv, BuiltOK
  <2>5. Part7
    BY <1>2, <1>x, <2>1, <2>2, <2>3 DEF ServedInv, ChoseOK, Choose
  <2>6. LoadedIsServed'
    BY <1>2, <1>x, <1>b, <2>1, <2>2, <2>3 DEF ServedInv, LoadedIsServed, Recording, Choose
  <2> QED BY <1>g, <2>1, <2>4, <2>5, <2>6
<1>3. CASE StopOld(l)
  <2>1. at'[l] = "spawn" /\ frame' = frame
    BY <1>3, <1>d, <1>h DEF StopOld
  <2>2. \A e \in Engines : running'[e] = running[e] \/ running'[e] = 0
    BY <1>3, <1>d DEF StopOld, Halt
  <2>3. UNCHANGED <<slot, built, spawned, holds, loaded, hangups>> /\ alive' \subseteq alive
    BY <1>3 DEF StopOld, Halt
  <2>4. Answers' => Answers /\ Serving' = Serving
    BY <1>d, <2>2, <2>3 DEF Answers, Serving
  <2>5. LoadedIsServed'
    BY <1>3, <1>x, <1>b, <2>1, <2>3, <2>4 DEF ServedInv, LoadedIsServed, Recording, StopOld
  <2>6. Part1 /\ Part2 /\ Part3
    BY <1>3, <1>d, <2>1, <2>2, <2>3 DEF ServedInv, BuiltOK, StopOld
  <2> QED BY <1>g, <2>1, <2>5, <2>6
<1>4. CASE Spawn(l)
  <2>1. /\ at'[l] = "health" /\ frame'[l].model = frame[l].model
        /\ frame'[l].engine = frame[l].engine /\ frame'[l].proc = spawned'
    BY <1>4, <1>d, <1>h DEF Spawn, Frame
  <2>2. /\ UNCHANGED <<slot, built, running, loaded, hangups>>
        /\ spawned' = spawned + 1 /\ spawned' \in Procs
        /\ alive' = alive \cup {spawned'}
    BY <1>4, <1>d DEF Spawn, Procs, TypeOK
  <2>3. holds'[spawned'] = frame[l].model /\ \A p \in 1..spawned : holds'[p] = holds[p]
    BY <1>4, <1>d, <2>2 DEF Spawn, Procs, TypeOK
  <2>4. running[slot] <= spawned /\ running[slot] \in Nat
    BY <1>d DEF ServedInv, BuiltOK
  <2>5. Answers' => Answers /\ Serving' = Serving
    BY <1>d, <1>e, <2>2, <2>3, <2>4 DEF Answers, Serving
  <2>6. LoadedIsServed'
    BY <1>4, <1>x, <1>b, <2>1, <2>2, <2>5 DEF ServedInv, LoadedIsServed, Recording, Spawn
  <2>7. Part1 /\ Part2 /\ Part3
    BY <1>4, <1>d, <2>1, <2>2 DEF ServedInv, BuiltOK, Spawn
  <2>8. Part4
    BY <1>d, <2>1, <2>2, <2>3
  <2> QED BY <1>g, <2>1, <2>6, <2>7, <2>8
<1>5. CASE Healthy(l)
  <2>1. at'[l] = "slot" /\ frame' = frame
    BY <1>5, <1>d, <1>h DEF Healthy
  <2>2. UNCHANGED <<slot, built, spawned, holds, alive>>
    BY <1>5 DEF Healthy
  <2>3. frame[l].engine \in Engines /\ frame[l].engine <= built
    BY <1>5 DEF FramesOK, ServedInv, BuiltOK, Healthy
  <2>4. frame[l].proc \in 1..spawned /\ holds[frame[l].proc] = frame[l].model
    BY <1>5 DEF ServedInv, StartedOK, Healthy
  <2>5. /\ running'[frame[l].engine] = frame[l].proc
        /\ \A e \in Engines \ {frame[l].engine} : running'[e] = running[e]
    BY <1>5, <1>d, <2>3 DEF Healthy
  <2>6. Part1 /\ Part2 /\ Part3
    BY <1>d, <2>1, <2>2, <2>3, <2>4, <2>5 DEF ServedInv, BuiltOK
  <2>7. Part5
    BY <2>1, <2>2, <2>4, <2>5
  <2>8. LoadedIsServed'
    BY <2>1 DEF LoadedIsServed, Recording
  <2> QED BY <1>g, <2>1, <2>6, <2>7, <2>8
<1>6. CASE SetSlot(l)
  <2>1. at'[l] = "tokenizer" /\ frame' = frame /\ slot' = frame[l].engine
    BY <1>6, <1>d, <1>h DEF SetSlot
  <2>2. UNCHANGED <<built, running, spawned, holds, alive>>
    BY <1>6 DEF SetSlot
  <2>3. Part1 /\ Part2 /\ Part3
    BY <1>6, <1>d, <2>1, <2>2 DEF ServedInv, BuiltOK, SetSlot
  <2>4. Part6
    BY <1>6, <2>1, <2>2 DEF ServedInv, StartedOK, Answers, Serving, SetSlot
  <2>5. LoadedIsServed'
    BY <2>1 DEF LoadedIsServed, Recording
  <2> QED BY <1>g, <2>1, <2>3, <2>4, <2>5
<1>7. CASE SetLoaded(l)
  <2>1. at'[l] = "idle" /\ loaded'.model = frame[l].model
    BY <1>7, <1>d, <1>h DEF SetLoaded, Release, Finish
  <2>2. UNCHANGED <<slot, built, running, spawned, holds, alive>>
    BY <1>7 DEF SetLoaded
  <2>3. Part1 /\ Part2
    BY <2>2 DEF ServedInv, BuiltOK
  <2>4. LoadedIsServed'
    BY <1>7, <2>1, <2>2 DEF ServedInv, StartedOK, LoadedIsServed, Answers, Serving, SetLoaded
  <2> QED BY <1>g, <2>1, <2>3, <2>4
<1> QED BY <1>1, <1>2, <1>3, <1>4, <1>5, <1>6, <1>7

(* What the record and the engines hold, at every step.                     *)
THEOREM ServedInductive == Spec => [](RuntimeInv /\ ServedInv)
<1>1. Init => ServedInv
  <2> SUFFICES ASSUME Init PROVE ServedInv
    OBVIOUS
  <2>1. BuiltOK /\ StartedOK /\ ChoseOK
    BY DEF Init, BuiltOK, StartedOK, ChoseOK, Handlers
  <2>2. LoadedIsServed
    BY DEF Init, LoadedIsServed
  <2> QED BY <2>1, <2>2 DEF ServedInv
<1>2. RuntimeInv /\ RuntimeInv' /\ ServedInv /\ [Next]_vars => ServedInv'
  BY AsideFacts, AsideKeeps, OnwardKeeps DEF RuntimeInv, ServedInv
<1> QED BY RuntimeInductive, <1>1, <1>2, PTL DEF Spec

(* The model on record is the one the engine in the slot serves, for any    *)
(* number of loads, unloads, settings changes, polls, chats and deaths and  *)
(* any kinds of engine.  (AppState::load, unload, apply_settings.)          *)
THEOREM RecordIsServed == Spec => []LoadedIsServed
<1>1. ServedInv => LoadedIsServed
  BY DEF ServedInv
<1> QED BY ServedInductive, <1>1, PTL

(* Two clients that ask for the same model start it once: a load never      *)
(* stops an engine that is up with its model on record.  (AppState::load's  *)
(* check under load_lock.)                                                  *)
THEOREM SameModelStays == Spec => SameModelNotRestarted
<1> DEFINE NoRestart ==
      \A l \in Loaders :
        at[l] = "stop" /\ at'[l] = "spawn" /\ hashed = {} /\ loaded.model = frame[l].model =>
          ~Answers
<1>1. ServedInv => NoRestart
  BY DEF ServedInv, ChoseOK
<1>2. ServedInv /\ [Next]_vars => [NoRestart]_vars
  BY <1>1
<1> QED BY ServedInductive, <1>2, PTL DEF Spec, SameModelNotRestarted
=============================================================================
