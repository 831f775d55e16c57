------------------------------ MODULE ChatThreads ------------------------------
(***************************************************************************)
(* The window's threads, the one reply it streams, and the models it loads *)
(* (ui/src/store/studio.ts: send, regenerate, continueGeneration,          *)
(* editMessage, clear, delete, stop, loadModel, unloadModel, streamReply,  *)
(* runGeneration), as the composer, the transcript and the picker let the  *)
(* person use them.                                                        *)
(*                                                                         *)
(* The window has one thread of control: what follows an awaited answer, up *)
(* to the next thing awaited, is one step; what is aborted unwinds within   *)
(* the step that aborts it.  A text is the request it was written by.      *)
(* Every thread is there from the start; the badges of mined prompts and   *)
(* what the window believes of the runtime between two polls are left out. *)
(***************************************************************************)
EXTENDS Naturals, Sequences, FiniteSets

CONSTANTS
  Threads, Models,
  None,                  \* no model, no reply, no thread
  MaxAsks, MaxLoads,     \* requests for a reply, loads
  Beginnings             \* of a behaviour: requests, loads, and selections, clears, deletions and unloads

VARIABLES
  thread,     \* [Threads -> its messages, or None once deleted]
  chosen,     \* [Threads -> the model it shows]
  selected,   \* activeConversationId
  ask,        \* [Asks -> a reply asked for]
  streaming,  \* the overlay: the thread and the reply
  inFlight,   \* the request Stop would abort
  load,       \* [Loads -> a load asked for]
  latest,     \* latestModelLoad
  loading,    \* loadingModelId
  resident,   \* the model the runtime holds
  unloading,  \* an unload under way
  hasty,      \* something was done to a thread while a message was being queued for mining
  left        \* what the bounds leave

vars == <<thread, chosen, selected, ask, streaming, inFlight, load, latest, loading, resident, unloading, hasty, left>>

Asks  == 1..MaxAsks
Loads == 1..MaxLoads

\* is: the request that put the message there; by: the one that wrote it as it stands.
Message(k, is, by, cut) == [k |-> k, is |-> is, by |-> by, cut |-> cut]
Overlay(t, r) == [thread |-> t, reply |-> r]
NoOverlay     == Overlay(None, 0)

NoAsk  == [at |-> "none", thread |-> None, reply |-> 0, model |-> None, sent |-> <<>>, on |-> 0]
NoLoad == [at |-> "none", model |-> None]
Pending == {"queued", "asked", "refreshing"}   \* a load not over
UnderWay(a) == ask[a].at \in {"waiting", "asked"}
InQueue     == \E a \in Asks : ask[a].at = "queued"

Init ==
  /\ thread = [t \in Threads |-> <<>>]
  /\ chosen = [t \in Threads |-> CHOOSE m \in Models : TRUE] /\ selected = CHOOSE t \in Threads : TRUE
  /\ ask = [a \in Asks |-> NoAsk] /\ streaming = NoOverlay /\ inFlight = 0
  /\ load = [l \in Loads |-> NoLoad] /\ latest = 0 /\ loading = None
  /\ resident = None /\ unloading = FALSE /\ hasty = FALSE
  /\ left \in Beginnings
-----------------------------------------------------------------------------
(* What a request does, on the window so far: w has the threads, the        *)
(* requests, the overlay and inFlight.                                      *)

Window == [thread |-> thread, ask |-> ask, streaming |-> streaming, inFlight |-> inFlight]
Show(w) ==
  /\ thread' = w.thread /\ ask' = w.ask /\ streaming' = w.streaming /\ inFlight' = w.inFlight

Loading == \E l \in Loads : load[l].at \in Pending
IsNext(w, a) == a <= left.asks /\ w.ask[a].at = "none" /\ \A b \in 1..(a - 1) : w.ask[b].at # "none"

\* runGeneration up to its await: the thread as it stands, and the overlay over it.
Start(w, a, t, reply) ==
  IF w.thread[t] = None THEN [w EXCEPT !.ask[a].at = "over"]
  ELSE [w EXCEPT !.ask[a] = [at |-> IF Loading THEN "waiting" ELSE "asked", thread |-> t, reply |-> reply,
                             model |-> chosen[t], sent |-> w.thread[t], on |-> latest],
                 !.streaming = Overlay(t, reply), !.inFlight = a]

\* Where a reply goes: over the one it continues, or at the end.
Joined(messages, answer) ==
  IF \E i \in DOMAIN messages : messages[i].k = "reply" /\ messages[i].is = answer.is
  THEN [i \in DOMAIN messages |-> IF messages[i].k = "reply" /\ messages[i].is = answer.is THEN answer ELSE messages[i]]
  ELSE Append(messages, answer)

\* Mutant: a reply joins its thread whether or not the overlay is still its own.
CommitStale(w, a, cut) ==
  LET x == w.ask[a]
  IN [w EXCEPT !.ask[a].at = "over", !.inFlight = IF @ = a THEN 0 ELSE @, !.streaming = NoOverlay,
               !.thread[x.thread] = IF @ = None THEN @ ELSE Joined(@, Message("reply", x.reply, a, cut))]

\* streamReply returned: the reply joins its thread, unless the overlay is another's by now.
Commit(w, a, cut) ==
  LET x == w.ask[a]
      done == [w EXCEPT !.ask[a].at = "over", !.inFlight = IF @ = a THEN 0 ELSE @]
  IN IF w.streaming # Overlay(x.thread, x.reply) THEN done
     ELSE [done EXCEPT !.streaming = NoOverlay,
                       !.thread[x.thread] = IF @ = None THEN @ ELSE Joined(@, Message("reply", x.reply, a, cut))]

\* stop; the request it aborts returns what it has, and comes to Commit.
Aborted(w)   == [w EXCEPT !.inFlight = 0]
Unwound(w, a) == IF a = 0 THEN w ELSE Commit(w, a, FALSE)

Kept == UNCHANGED <<chosen, selected, load, latest, loading, resident, unloading, left>>
-----------------------------------------------------------------------------
(* The person asks. *)

\* send: the message joins the thread; where prompts are mined it is queued first.
Send(a) ==
  LET said == [Window EXCEPT !.thread[selected] = Append(@, Message("user", a, a, FALSE))]
  IN /\ IsNext(Window, a) /\ streaming = NoOverlay /\ selected # None
     /\ \/ Show(Start(said, a, selected, a))
        \/ Show([said EXCEPT !.ask[a].at = "queued", !.ask[a].thread = selected])
     /\ hasty' = (hasty \/ InQueue)
     /\ Kept

\* enqueueMining returned.
Queued(a) ==
  /\ ask[a].at = "queued"
  /\ Show(Start(Window, a, ask[a].thread, a))
  /\ Kept /\ UNCHANGED hasty

LastUser(messages) ==
  IF \E i \in DOMAIN messages : messages[i].k = "user"
  THEN CHOOSE i \in DOMAIN messages : messages[i].k = "user" /\ \A j \in (i + 1)..Len(messages) : messages[j].k = "reply"
  ELSE 0

\* The transcript's buttons: nothing streams anywhere, except that an edit stops what streams here.
Ready(a) == IsNext(Window, a) /\ selected # None /\ thread[selected] # <<>> /\ streaming = NoOverlay

regenerate(a) ==
  LET i == LastUser(thread[selected])
  IN /\ Ready(a) /\ i # 0
     /\ Show(Start([Window EXCEPT !.thread[selected] = SubSeq(@, 1, i)], a, selected, a))
     /\ hasty' = (hasty \/ InQueue)
     /\ Kept

continueGeneration(a) ==
  LET last == thread[selected][Len(thread[selected])]
  IN /\ Ready(a) /\ last.k = "reply" /\ last.cut
     /\ Show(Start(Window, a, selected, last.is))
     /\ hasty' = (hasty \/ InQueue)
     /\ Kept

editMessage(a, i) ==
  LET edited == [Aborted(Window) EXCEPT !.thread[selected] = Append(SubSeq(@, 1, i - 1), [@[i] EXCEPT !.by = a])]
  IN /\ IsNext(Window, a) /\ selected # None /\ streaming.thread \in {None, selected}
     /\ i \in DOMAIN thread[selected] /\ thread[selected][i].k = "user"
     /\ Show(Unwound(Start(edited, a, selected, a), inFlight))
     /\ hasty' = (hasty \/ InQueue)
     /\ Kept
-----------------------------------------------------------------------------
(* The reply. *)

\* The answer is whole, was cut at its length, or failed.
Answered(a) ==
  /\ ask[a].at = "asked"
  /\ \E cut \in BOOLEAN : Show(Commit(Window, a, cut))
  /\ Kept /\ UNCHANGED hasty

Stop ==
  /\ inFlight # 0
  /\ Show(Unwound(Aborted(Window), inFlight))
  /\ Kept /\ UNCHANGED hasty
-----------------------------------------------------------------------------
(* The threads. *)

Turn == left.turns > 0 /\ left' = [left EXCEPT !.turns = @ - 1]

Select(t) ==
  /\ Turn /\ thread[t] # None /\ t # selected
  /\ selected' = t
  /\ UNCHANGED <<thread, chosen, ask, streaming, inFlight, load, latest, loading, resident, unloading, hasty>>

\* What streamed into the thread joins it once it is empty.
Clear ==
  LET here == IF streaming.thread = selected THEN inFlight ELSE 0
      w == [(IF here = 0 THEN Window ELSE Aborted(Window)) EXCEPT !.thread[selected] = <<>>]
  IN /\ Turn /\ selected # None /\ thread[selected] # <<>>
     /\ Show(Unwound(w, here))
     /\ hasty' = (hasty \/ InQueue)
     /\ UNCHANGED <<chosen, selected, load, latest, loading, resident, unloading>>

Delete(t) ==
  LET here == IF streaming.thread = t THEN inFlight ELSE 0
      w == [(IF here = 0 THEN Window ELSE Aborted(Window)) EXCEPT !.thread[t] = None]
      others == {u \in Threads \ {t} : thread[u] # None}
  IN /\ Turn /\ thread[t] # None
     /\ Show(Unwound(w, here))
     /\ selected' \in (IF selected # t THEN {selected} ELSE IF others = {} THEN {None} ELSE others)
     /\ hasty' = (hasty \/ InQueue)
     /\ UNCHANGED <<chosen, load, latest, loading, resident, unloading>>
-----------------------------------------------------------------------------
(* The models. *)

\* The queue's next: of the loads asked for, only the last is carried out.
Carried(loads, last) ==
  IF \E l \in Loads : loads[l].at \in {"asked", "refreshing"} THEN loads
  ELSE [l \in Loads |-> IF loads[l].at # "queued" THEN loads[l] ELSE [loads[l] EXCEPT !.at = IF l = last THEN "asked" ELSE "dropped"]]

\* A choice is the thread's at once, whatever comes of the load.
loadModel(m) ==
  LET l == latest + 1
  IN /\ l \in Loads /\ l <= left.loads /\ streaming = NoOverlay
     /\ latest' = l /\ loading' = m
     /\ chosen' = IF selected = None THEN chosen ELSE [chosen EXCEPT ![selected] = m]
     /\ load' = Carried([load EXCEPT ![l] = [at |-> "queued", model |-> m]], l)
     /\ UNCHANGED <<thread, selected, ask, streaming, inFlight, resident, unloading, hasty, left>>

\* A load is over: the next is carried out, and the requests that waited for it go.
Over(l, how) ==
  /\ load' = Carried([load EXCEPT ![l].at = how], latest)
  /\ ask' = [a \in Asks |-> IF ask[a].at = "waiting" /\ load'[ask[a].on].at \notin Pending THEN [ask[a] EXCEPT !.at = "asked"] ELSE ask[a]]
  /\ loading' = IF l = latest THEN None ELSE loading

\* A failed load may have left the model that was there; the window then asks what there is.
LoadAnswered(l) ==
  /\ load[l].at = "asked"
  /\ \/ resident' = load[l].model /\ Over(l, "over")
     \/ /\ resident' \in {None, resident}
        /\ IF l = latest THEN load' = [load EXCEPT ![l].at = "refreshing"] /\ UNCHANGED <<ask, loading>> ELSE Over(l, "failed")
  /\ UNCHANGED <<thread, chosen, selected, streaming, inFlight, latest, unloading, hasty, left>>

Refreshed(l) ==
  /\ load[l].at = "refreshing" /\ Over(l, "failed")
  /\ UNCHANGED <<thread, chosen, selected, streaming, inFlight, latest, resident, unloading, hasty, left>>

Unload ==
  /\ Turn /\ streaming = NoOverlay /\ loading = None /\ ~unloading
  /\ unloading' = TRUE
  /\ UNCHANGED <<thread, chosen, selected, ask, streaming, inFlight, load, latest, loading, resident, hasty>>

Unloaded ==
  /\ unloading /\ unloading' = FALSE /\ resident' = None
  /\ UNCHANGED <<thread, chosen, selected, ask, streaming, inFlight, load, latest, loading, hasty, left>>

Next ==
  \/ \E a \in Asks : \/ Send(a) \/ Queued(a) \/ regenerate(a) \/ continueGeneration(a) \/ Answered(a)
                     \/ selected # None /\ \E i \in DOMAIN thread[selected] : editMessage(a, i)
  \/ Stop \/ Clear \/ \E t \in Threads : Select(t) \/ Delete(t)
  \/ \E m \in Models : loadModel(m) \/ \E l \in Loads : LoadAnswered(l) \/ Refreshed(l)
  \/ Unload \/ Unloaded

Spec == Init /\ [][Next]_vars
-----------------------------------------------------------------------------
TypeOK ==
  /\ \A t \in Threads : thread[t] # None =>
       thread[t] \in Seq([k: {"user", "reply"}, is: Asks, by: Asks, cut: BOOLEAN])
  /\ chosen \in [Threads -> Models] /\ selected \in Threads \cup {None}
  /\ \A a \in Asks : ask[a].at \in {"none", "queued", "waiting", "asked", "over"} /\ ask[a].on \in {0} \cup Loads
  /\ inFlight \in {0} \cup Asks /\ streaming \in [thread: Threads, reply: Asks] \cup {NoOverlay}
  /\ \A l \in Loads : load[l].at \in Pending \cup {"none", "over", "failed", "dropped"}
  /\ latest \in {0} \cup Loads /\ {loading, resident} \subseteq Models \cup {None}
  /\ unloading \in BOOLEAN /\ hasty \in BOOLEAN

\* What is on the screen is what Stop reaches, and it is what the request under way writes (stop, streamReply).
StopReachesWhatIsShown ==
  /\ streaming # NoOverlay => inFlight # 0
  /\ ~hasty => (inFlight # 0 => streaming # NoOverlay)
  /\ inFlight # 0 => UnderWay(inFlight) /\ streaming \in {NoOverlay, Overlay(ask[inFlight].thread, ask[inFlight].reply)}

\* And nothing else is under way: the engine serves one request (runGeneration).
OneReply == ~hasty => \A a \in Asks : UnderWay(a) => a = inFlight

\* A reply stands after the messages it was asked with; alone, where the thread was cleared under it.
RepliesFollow ==
  \A t \in Threads : thread[t] # None =>
    \A i \in 2..Len(thread[t]) : thread[t][i].k = "reply" =>
      LET a == thread[t][i].by IN ask[a].thread = t /\ SubSeq(thread[t], 1, i - 1) = SubSeq(ask[a].sent, 1, i - 1)

\* A request goes to the runtime while no model is being loaded, and names the model its thread shows.
AskedOfTheChosen ==
  ~hasty => \A a \in Asks : ask[a].at = "asked" => ~Loading /\ ask[a].model = chosen[ask[a].thread]

\* One load at a time; the window says it loads just while the last one chosen is not over, and that is what the runtime then holds.
LastChoiceWins ==
  /\ Cardinality({l \in Loads : load[l].at \in {"asked", "refreshing"}}) <= 1
  /\ loading # None <=> Loading
  /\ loading # None => loading = load[latest].model /\ load[latest].at \in Pending
  /\ latest # 0 => (load[latest].at = "over" => resident \in {None, load[latest].model})

ThreadsSafe == TypeOK /\ StopReachesWhatIsShown /\ OneReply /\ RepliesFollow /\ AskedOfTheChosen /\ LastChoiceWins

\* A request under way carries what it answers: not when the thread was cleared while its message was queued.
AsksSomething == \A a \in Asks : UnderWay(a) => ask[a].sent # <<>>

\* A request that is no longer the window's ends nothing that was begun since: not when both continue the same reply.
StaleStaysOut == [][\A a \in Asks : a # inFlight /\ UnderWay(a) /\ ask'[a].at = "over" => streaming' = streaming]_vars
=============================================================================
