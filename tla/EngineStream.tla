------------------------------- MODULE EngineStream -------------------------------
(***************************************************************************)
(* An answer as it streams from a child engine: ChildEngine::generate and  *)
(* SseParser of crates/misaka-studio-runtime/src/backend/openai_child.rs.  *)
(*                                                                         *)
(* The engine sends lines; a chunk of bytes may end within one, so a line  *)
(* is two halves and the parser reads it when it has the second.  Meanwhile *)
(* the engine may die, be unloaded, or be replaced by the next model's, and *)
(* the reader may leave.  A stream that broke before it showed anything is *)
(* asked for once more, of the same engine if it is still there.           *)
(***************************************************************************)
EXTENDS Naturals, Sequences, SequencesExt, FiniteSets

CONSTANTS
  Scripts,          \* what an engine may answer: sequences of lines
  Ports,            \* what the system may give free_port
  MaxEngines,       \* bound: engines started in a run
  Looks             \* polls of an engine that may be dying (10 in the code)

\* Lines: "text" (an answer's or a reasoning's piece), "finish", "usage", "error", "done", "noise".
LineKinds == {"text", "finish", "usage", "error", "done", "noise"}

VARIABLES
  slot,             \* running: the engine in the slot: [id, port, alive], id 0 for none
  asked,            \* the engine generate took the address of: [id, port]
  step,             \* "post", "read", "again", "look", or "over"
  attempt,          \* 0 or 1
  script,           \* the engine's answer to this attempt
  halves,           \* how many halves of its lines have arrived
  parser,           \* what the lines read so far said
  emitted,          \* this attempt has shown something
  looked,           \* polls made of the broken stream's engine
  out,              \* what the reader was sent
  closed,           \* the reader has left
  posts,            \* history: for each post that was answered, the engine
  engines           \* how many engines were started

vars == <<slot, asked, step, attempt, script, halves, parser, emitted, looked, out, closed, posts, engines>>

NoEngine  == [id |-> 0, port |-> 0, alive |-> FALSE]
NewParser == [text |-> 0, usage |-> FALSE, finish |-> FALSE, error |-> FALSE, done |-> FALSE]
Over      == step = "over"
Event(what, from) == [what |-> what, attempt |-> attempt, from |-> from]

TypeOK ==
  /\ slot \in [id : 0 .. MaxEngines, port : Ports \cup {0}, alive : BOOLEAN]
  /\ step \in {"post", "read", "again", "look", "over"} /\ attempt \in {0, 1}
  /\ script \in Scripts /\ halves \in 0 .. 2 * Len(script)
  /\ parser \in [text : Nat, usage : BOOLEAN, finish : BOOLEAN, error : BOOLEAN, done : BOOLEAN]
  /\ emitted \in BOOLEAN /\ closed \in BOOLEAN /\ looked \in 0 .. Looks

\* A model is loaded and its engine asked: the run starts with the request.
Init ==
  /\ \E p \in Ports : slot = [id |-> 1, port |-> p, alive |-> TRUE]
  /\ asked = [id |-> slot.id, port |-> slot.port]
  /\ step = "post" /\ attempt = 0 /\ script = <<>> /\ halves = 0 /\ parser = NewParser
  /\ emitted = FALSE /\ looked = 0 /\ out = <<>> /\ closed = FALSE /\ posts = <<>> /\ engines = 1
-----------------------------------------------------------------------------
(* The parser: one chunk's whole lines, in order.                           *)

Read(st, line) ==
  IF st.parser.done THEN st
  ELSE CASE line = "done"   -> [st EXCEPT !.parser.done = TRUE]
         [] line = "error"  -> [st EXCEPT !.parser.error = TRUE]
         [] line = "usage"  -> [st EXCEPT !.parser.usage = TRUE]
         [] line = "finish" -> [st EXCEPT !.parser.finish = TRUE]
         [] line = "text"   -> [st EXCEPT !.parser.text = @ + 1, !.texts = @ + 1]
         [] OTHER           -> st

\* The lines whose second half is among the first n halves.
Whole(s, n) == SubSeq(s, 1, n \div 2)
push(p, lines) ==
  LET after[n \in 0 .. Len(lines)] ==
        IF n = 0 THEN [parser |-> p, texts |-> 0] ELSE Read(after[n - 1], lines[n])
  IN after[Len(lines)]
is_complete(p) == p.done \/ p.finish
finish(p) == Event(IF p.usage THEN "done, counted" ELSE "done, estimated", p.text)
-----------------------------------------------------------------------------
Stop(events) == /\ out' = out \o events
                /\ step' = "over"
Break(why)   == Stop(<<Event(why, 0)>>)

Listening == slot.alive /\ slot.port = asked.port       \* who is at the address

\* The request is posted, the first time or again: it is accepted, refused, or nobody is there.
Posted ==
  \/ /\ Listening
     /\ posts' = Append(posts, slot.id)
     /\ \E s \in Scripts : script' = s
     /\ step' = "read" /\ halves' = 0 /\ parser' = NewParser /\ emitted' = FALSE
     /\ UNCHANGED out
  \/ /\ Listening
     /\ posts' = Append(posts, slot.id)
     /\ Break("refused")
     /\ UNCHANGED <<script, halves, parser, emitted>>
  \/ /\ ~Listening
     /\ IF step = "post" THEN Break("not accepted") /\ UNCHANGED looked ELSE UNCHANGED <<out>> /\ step' = "look"
     /\ UNCHANGED <<posts, script, halves, parser, emitted>>

Post ==
  /\ step \in {"post", "again"} /\ ~closed
  /\ Posted
  /\ UNCHANGED <<slot, asked, attempt, looked, closed, engines>>

(* A chunk: the next n halves.  Its events are sent, then its error, then the
   end if it was the end. *)
Chunk(n) ==
  /\ step = "read" /\ ~closed /\ slot.alive /\ slot.id = Last(posts)
  /\ halves + n <= 2 * Len(script)
  /\ LET lines == SubSeq(script, (halves \div 2) + 1, (halves + n) \div 2)
         got   == push(parser, lines)
         texts == [i \in 1 .. got.texts |-> Event("text", parser.text + i)]
     IN /\ halves' = halves + n
        /\ parser' = got.parser
        /\ emitted' = (emitted \/ got.texts > 0)
        /\ IF got.parser.error THEN Stop(texts \o <<Event("the server's error", 0)>>)
           ELSE IF got.parser.done THEN Stop(texts \o <<finish(got.parser)>>)
           ELSE out' = out \o texts /\ UNCHANGED step
  /\ UNCHANGED <<slot, asked, attempt, script, looked, closed, posts, engines>>

same_engine_alive == slot.id # 0 /\ slot.port = asked.port /\ slot.alive

\* Mutant: the request is sent again though the reader has seen some of the answer.
EndedAndAgain(broken) ==
  /\ step = "read" /\ ~closed
  /\ ~broken => halves = 2 * Len(script) \/ ~slot.alive \/ slot.id # Last(posts)
  /\ IF is_complete(parser) THEN Stop(<<finish(parser)>>) /\ UNCHANGED attempt
     ELSE IF attempt = 0 /\ same_engine_alive THEN step' = "again" /\ attempt' = 1 /\ UNCHANGED out
     ELSE IF broken THEN step' = "look" /\ UNCHANGED <<out, attempt>>
     ELSE Break("incomplete") /\ UNCHANGED attempt
  /\ UNCHANGED <<slot, asked, script, halves, parser, emitted, looked, closed, posts, engines>>

\* The body ends, cleanly or not: the engine is done or gone, or the connection broke.
Ended(broken) ==
  /\ step = "read" /\ ~closed
  /\ ~broken => halves = 2 * Len(script) \/ ~slot.alive \/ slot.id # Last(posts)
  /\ IF is_complete(parser) THEN Stop(<<finish(parser)>>) /\ UNCHANGED attempt
     ELSE IF attempt = 0 /\ ~emitted /\ same_engine_alive THEN step' = "again" /\ attempt' = 1 /\ UNCHANGED out
     ELSE IF broken THEN step' = "look" /\ UNCHANGED <<out, attempt>>
     ELSE Break("incomplete") /\ UNCHANGED attempt
  /\ UNCHANGED <<slot, asked, script, halves, parser, emitted, looked, closed, posts, engines>>

(* stream_break_message: a few looks, because a dying process closes its
   sockets before it can be reaped. *)
Look ==
  /\ step = "look" /\ ~closed
  /\ CASE slot.id = 0 -> Break("unloaded") /\ UNCHANGED looked
       [] slot.id # 0 /\ slot.port # asked.port -> Break("replaced") /\ UNCHANGED looked
       [] slot.port = asked.port /\ slot.id # 0 /\ ~slot.alive -> Break("exited") /\ UNCHANGED looked
       [] OTHER -> /\ looked' = looked + 1
                   /\ IF looked + 1 = Looks THEN Break("still running") ELSE UNCHANGED <<out, step>>
  /\ UNCHANGED <<slot, asked, attempt, script, halves, parser, emitted, closed, posts, engines>>

\* The reader leaves: every wait of the stream's ends it, and dropping the response cancels the engine's work.
Leave ==
  /\ ~closed /\ ~Over
  /\ closed' = TRUE /\ step' = "over"
  /\ UNCHANGED <<slot, asked, attempt, script, halves, parser, emitted, looked, out, posts, engines>>
-----------------------------------------------------------------------------
(* The engines.                                                             *)

EngineDies ==
  /\ slot.alive /\ ~Over
  /\ slot' = [slot EXCEPT !.alive = FALSE]
  /\ UNCHANGED <<asked, step, attempt, script, halves, parser, emitted, looked, out, closed, posts, engines>>

Unload ==
  /\ slot.id # 0 /\ ~Over
  /\ slot' = NoEngine
  /\ UNCHANGED <<asked, step, attempt, script, halves, parser, emitted, looked, out, closed, posts, engines>>

\* The next model's engine, on whatever port was free when it started.
Load ==
  /\ slot.id = 0 /\ engines < MaxEngines /\ ~Over
  /\ \E p \in Ports : slot' = [id |-> engines + 1, port |-> p, alive |-> TRUE]
  /\ engines' = engines + 1
  /\ UNCHANGED <<asked, step, attempt, script, halves, parser, emitted, looked, out, closed, posts>>

Answered == Over /\ UNCHANGED vars

Next ==
  \/ Post \/ (\E n \in 1 .. 2 * Len(script) : Chunk(n)) \/ (\E b \in BOOLEAN : Ended(b)) \/ Look \/ Leave
  \/ EngineDies \/ Unload \/ Load \/ Answered

Stream == (\E n \in 1 .. 2 * Len(script) : Chunk(n)) \/ Ended(FALSE)

\* The Studio reads what there is to read, and what the engine sends ends.
Fairness == WF_vars(Post \/ Look) /\ WF_vars(Stream)

Spec == Init /\ [][Next]_vars /\ Fairness
-----------------------------------------------------------------------------
Terminal(e) == e.what # "text"
Texts       == {i \in DOMAIN out : ~Terminal(out[i])}
Arrived     == Whole(script, halves)
Heard       == {i \in DOMAIN Arrived : \A j \in 1 .. i - 1 : Arrived[j] # "done"}
Says(kind)  == \E i \in Heard : Arrived[i] = kind
Reused      == asked.port = slot.port /\ asked.id # slot.id

(* However the bytes are cut into chunks and however often the request is sent,
   the reader gets one answer: pieces of a single attempt, each once, in order,
   none skipped; the end comes once, last, and only when the engine said the
   answer was whole, with the engine's count if it gave one before the end.  An
   error the server puts in the stream is never passed off as the end of the
   answer.  (SseParser::push, take_error, finish; generate.) *)
AnswerIsOneStream ==
  /\ \A i, j \in Texts : out[i].attempt = out[j].attempt
  /\ \A i \in Texts : out[i].from = i
  /\ emitted => Cardinality(Texts) = Cardinality({i \in Heard : Arrived[i] = "text"})
  /\ \A i \in DOMAIN out : Terminal(out[i]) => i = Len(out) /\ Over
  /\ Over /\ ~closed => out # <<>> /\ Terminal(Last(out))
  /\ Over /\ ~closed /\ Last(out).what \in {"done, counted", "done, estimated"} =>
       /\ Says("done") \/ Says("finish")
       /\ ~Says("error")
       /\ Last(out).what = "done, counted" <=> Says("usage")

(* A request is sent again at most once, only when the reader has seen nothing
   of the first, and not to another model's engine -- as long as the system does
   not give that engine the port the first one had.  (same_engine_alive.) *)
NotReplayedElsewhere ==
  /\ Len(posts) <= 2
  /\ Len(posts) = 2 => \A i \in DOMAIN out : out[i].attempt = 1
  /\ Len(posts) = 2 /\ posts[1] # posts[2] => posts[2] > 1 /\ (slot.id = posts[2] => Reused)

StreamSafe == TypeOK /\ AnswerIsOneStream /\ NotReplayedElsewhere

(* A reader that stays is told how it ended, whatever becomes of the engine. *)
AnswerEnds == (step = "post") ~> Over
=============================================================================
