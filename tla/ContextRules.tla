------------------------------ MODULE ContextRules ------------------------------
(***************************************************************************)
(* Fitting a conversation into a model's window (crates/misaka-studio-     *)
(* runtime/src/context/mod.rs, summarizer.rs, tokens.rs; backend/mod.rs:   *)
(* answer_room, continuation_as_instruction; repetition.rs).               *)
(*                                                                         *)
(* A text is its length in characters; a message also says how long the    *)
(* sentences are that stand for it in a memory.  Joining texts adds their  *)
(* lengths; headings have the lengths they have in English.                *)
(***************************************************************************)
EXTENDS Naturals, Sequences, SequencesExt, FiniteSets, FiniteSetsExt

Smaller(a, b) == IF a < b THEN a ELSE b
Larger(a, b)  == IF a > b THEN a ELSE b
Less(a, b)    == IF a > b THEN a - b ELSE 0           \* saturating_sub
CeilDiv(a, b) == (a + b - 1) \div b
Total(ns)     == FoldLeft(LAMBDA n, x : n + x, 0, ns)
-----------------------------------------------------------------------------
(* tokens.rs *)

\* Half-tokens of a text, given as kinds of characters.
Letters == {"a"}
Blanks  == {"space", "tab"}
Breaks  == {"lf", "cr"}
Ascii   == Letters \cup Blanks \cup Breaks \cup {"digit", "punct"}
WordStart == Letters \cup {"digit", "kana", "han", "letter"}   \* is_alphanumeric

\* Runs of letters, of blanks and of breaks are counted as one.
RunEnd(s, i, kinds) == CHOOSE j \in i .. Len(s) : (\A k \in i .. j : s[k] \in kinds) /\ (j = Len(s) \/ s[j + 1] \notin kinds)
RunStarts(s, i, kinds) == s[i] \in kinds /\ (i = 1 \/ s[i - 1] \notin kinds)

Halves(s, i) ==
  CASE s[i] \in Letters -> IF RunStarts(s, i, Letters) THEN 2 * CeilDiv(RunEnd(s, i, Letters) - i + 1, 3) ELSE 0
    [] s[i] \in Blanks  -> LET e == RunEnd(s, i, Blanks)
                           IN IF ~RunStarts(s, i, Blanks) \/ (e = i /\ e < Len(s) /\ s[e + 1] \in WordStart) THEN 0 ELSE 2
    [] s[i] \in Breaks  -> IF RunStarts(s, i, Breaks) THEN 2 ELSE 0
    [] s[i] \in {"digit", "punct", "kana", "letter"} -> 2
    [] s[i] = "astral"  -> 6
    [] OTHER            -> 3                                  \* ideographs and other symbols

estimate_tokens(s) == CeilDiv(FoldLeft(LAMBDA n, i : n + Halves(s, i), 0, [i \in 1 .. Len(s) |-> i]), 2)

\* A text of n letters in one run.
TextTokens(n) == CeilDiv(n, 3)

TEMPLATE_TOKENS_PER_MESSAGE == 5
TEMPLATE_GENERATION_PROMPT  == 3
TEMPLATE_DEFAULT_SYSTEM     == 24

MessagesTokens(ms) ==
  LET contents == Total([i \in DOMAIN ms |-> TextTokens(ms[i].chars)])
  IN contents + TEMPLATE_TOKENS_PER_MESSAGE * Len(ms) + TEMPLATE_GENERATION_PROMPT
       + IF \E i \in DOMAIN ms : ms[i].role = "system" THEN 0 ELSE TEMPLATE_DEFAULT_SYSTEM

scaled(tokens, permille) == CeilDiv(tokens * Larger(permille, 1000), 1000)
-----------------------------------------------------------------------------
(* context/mod.rs: the parts of a prompt. *)

MIN_MEMORY_TOKENS    == 24
SHORTEST_ANSWER_CHARS == 40
AnyBudget == 1000000              \* of a window the engine does not name

Joined(ns, gap) == Total(ns) + IF ns = <<>> THEN 0 ELSE gap * (Len(ns) - 1)

\* A memory is the lengths of its lines.
NoMemory == <<>>
Dash     == <<1>>

compose_system(base, pins, memory) ==
  LET parts == (IF base > 0 THEN <<base>> ELSE <<>>)
                 \o (IF pins = <<>> THEN <<>> ELSE <<31 + Joined([i \in DOMAIN pins |-> 2 + pins[i]], 1)>>)
                 \o (IF memory = NoMemory THEN <<>> ELSE <<45 + Joined(memory, 1)>>)
  IN IF parts = <<>> THEN <<>> ELSE <<[role |-> "system", id |-> 0, chars |-> Joined(parts, 2)]>>

Asks(m) == m.role = "user" /\ ~m.tool

\* The question a chain of tool results goes back to stays with them.
assemble(system, recent, question, anchor) ==
  system
    \o (IF anchor = <<>> \/ \E i \in DOMAIN (recent \o question) :
                               (recent \o question)[i].role = "user" /\ (recent \o question)[i].id = anchor[1].id
          THEN <<>> ELSE anchor)
    \o recent \o question

\* Mutant: every message is a turn of its own.
TurnsOfOne(history) == [i \in DOMAIN history |-> <<history[i]>>]

turns(history) ==
  FoldLeft(LAMBDA out, m : IF m.role = "user" \/ out = <<>> THEN Append(out, <<m>>)
                           ELSE [out EXCEPT ![Len(out)] = Append(@, m)],
           <<>>, history)

answer_room(max_tokens, window) == Larger(Smaller(max_tokens, window \div 2), 96)
-----------------------------------------------------------------------------
(* The memory of older turns. *)

\* Of several replies in a turn, the last that says anything.
memory_entry(turn, q_cap, a_cap) ==
  LET users == SelectSeq(turn, LAMBDA m : m.role = "user")
      said  == SelectSeq(turn, LAMBDA m : m.role = "assistant" /\ m.key > 0)
      q     == IF users = <<>> THEN 0 ELSE Head(users).gist
      key   == IF said = <<>> THEN 0 ELSE Last(said).key
  IN CASE q_cap = 0 /\ key > 0 -> <<2 + Smaller(key, a_cap)>>
       [] q_cap = 0            -> <<2 + Smaller(q, a_cap)>>
       [] key = 0              -> <<5 + Smaller(q, q_cap)>>
       [] OTHER                -> <<5 + Smaller(q, q_cap), 5 + Smaller(key, a_cap)>>

MemoryTokens(lines) == TextTokens(Joined(lines, 1))

\* The longest run of the newest turns whose entries fit.
Entries(ts, caps)      == FlattenSeq([i \in DOMAIN ts |-> memory_entry(ts[i], caps[1], caps[2])])
Newest(ts, n)          == SubSeq(ts, Len(ts) - n + 1, Len(ts))
Remembered(ts, caps, budget) ==
  Max({n \in 0 .. Len(ts) : \A k \in 1 .. n : MemoryTokens(Entries(Newest(ts, k), caps)) <= budget})

Caps == <<<<80, 140>>, <<48, 90>>, <<28, 56>>, <<0, 64>>, <<0, SHORTEST_ANSWER_CHARS>>>>

extract_memory(older, budget) ==
  LET ts   == turns(older)
      kept == [i \in DOMAIN Caps |-> Remembered(ts, Caps[i], budget)]
      best == Max({kept[i] : i \in DOMAIN Caps})
      at   == Min({i \in DOMAIN Caps : kept[i] = best})
  IN [covers |-> best, lines |-> Entries(Newest(ts, best), Caps[at])]

fit_lines(lines, budget) ==
  SubSeq(lines, 1, Max({n \in 0 .. Len(lines) : \A k \in 1 .. n : MemoryTokens(SubSeq(lines, 1, k)) <= budget}))
-----------------------------------------------------------------------------
(* plan and Draft::finish. *)

OverLimit == [refused |-> TRUE]

\* The conversation, taken apart.
Conversation(in) ==
  LET systems  == SelectSeq(in.messages, LAMBDA m : m.role = "system")
      rest     == SelectSeq(in.messages, LAMBDA m : m.role # "system")
      users    == {i \in DOMAIN rest : rest[i].role = "user"}
      history  == IF users = {} THEN <<>> ELSE SubSeq(rest, 1, Max(users) - 1)
      question == IF users = {} THEN rest ELSE SubSeq(rest, Max(users), Len(rest))
      asked    == SelectSeq(history, Asks)
      continuation == Len(question) > 1 /\ Last(question).role = "assistant"
  IN [base |-> Joined([i \in DOMAIN systems |-> systems[i].chars], 2), history |-> history, question |-> question,
      anchor |-> IF question # <<>> /\ question[1].role = "user" /\ question[1].tool /\ asked # <<>> THEN <<Last(asked)>> ELSE <<>>,
      continuation |-> continuation,
      core |-> IF continuation /\ ~in.continues THEN SubSeq(question, 1, 1) ELSE question]

Reserve(in) == IF in.window = 0 THEN 0 ELSE answer_room(in.max_tokens, in.window)
Budget(in)  == IF in.window = 0 THEN AnyBudget ELSE Less(in.window, Reserve(in))

Cost(in, p, pins, memory, recent, question) ==
  scaled(MessagesTokens(assemble(compose_system(p.base, pins, memory), recent, question, p.anchor)), in.scale)

\* Half of what the question leaves, taken pin by pin.
PinsThatFit(in, p, required, budget) ==
  LET pin_cap == Less(budget, required) \div 2
      Fits(tokens) == tokens <= budget /\ Less(tokens, required) <= pin_cap
  IN FoldLeft(LAMBDA kept, pin : IF Fits(Cost(in, p, Append(kept, pin), NoMemory, <<>>, p.core)) THEN Append(kept, pin) ELSE kept,
              <<>>, in.pinned)

\* Turns, whole, newest first, with room left for a memory of the others.
FirstKept(in, p, pins, ts, budget) ==
  LET bare       == Cost(in, p, pins, NoMemory, <<>>, p.question)
      after_pins == Less(budget, bare)
      heading    == Less(Cost(in, p, pins, Dash, <<>>, p.question), Less(budget, after_pins))
      memory_reserve == Larger(MIN_MEMORY_TOKENS + heading, after_pins \div 3)
      Room(i)  == IF i = 1 THEN 0
                  ELSE Larger(memory_reserve,
                              heading + scaled(MemoryTokens(memory_entry(ts[i - 1], 0, SHORTEST_ANSWER_CHARS)), in.scale))
      TurnFits(i) == Cost(in, p, pins, NoMemory, FlattenSeq(SubSeq(ts, i, Len(ts))), p.question) + Room(i) <= budget
  IN Min({i \in 1 .. Len(ts) + 1 : \A j \in i .. Len(ts) : TurnFits(j)})

KeptFrom(draft, in, p, ts, from) ==
  LET recent == FlattenSeq(SubSeq(ts, from, Len(ts)))
      older  == FlattenSeq(SubSeq(ts, 1, from - 1))
      room   == Less(Less(draft.budget, Cost(in, p, draft.pins, Dash, recent, p.question)), 1)
  IN [draft EXCEPT !.recent = recent, !.older = older,
                   !.memory_budget = IF older = <<>> THEN 0 ELSE (room * 1000) \div Larger(in.scale, 1000)]

PlanParts(in, p, required, budget, pins, ts) ==
  LET draft == [refused |-> FALSE, managed |-> TRUE, base |-> p.base, pins |-> pins, recent |-> <<>>, older |-> <<>>,
                question |-> p.question, anchor |-> p.anchor, memory_budget |-> 0, reserve |-> Reserve(in), budget |-> budget,
                continuation |-> p.continuation, over |-> required > budget]
  IN CASE Cost(in, p, in.pinned, NoMemory, p.history, p.question) <= budget ->
            [draft EXCEPT !.managed = FALSE, !.pins = in.pinned, !.recent = p.history, !.over = FALSE]
       [] required > budget /\ in.exact /\ ~(p.continuation /\ in.continues) -> OverLimit
       [] p.continuation -> draft
       [] OTHER -> KeptFrom(draft, in, p, ts, FirstKept(in, p, pins, ts, budget))

PlanAsked(in, p, required, budget) ==
  PlanParts(in, p, required, budget, PinsThatFit(in, p, required, budget), turns(p.history))

PlanSplit(in, p) == PlanAsked(in, p, Cost(in, p, <<>>, NoMemory, <<>>, p.core), Budget(in))
plan(in) == PlanSplit(in, Conversation(in))

wants_memory(draft) == draft.older # <<>> /\ draft.memory_budget >= MIN_MEMORY_TOKENS

\* A summary, as far as it fits; without one, an extract.
MemoryOf(draft, fitted) ==
  IF ~wants_memory(draft) THEN NoMemory
  ELSE IF fitted # <<>> THEN fitted ELSE extract_memory(draft.older, draft.memory_budget).lines

Finished(draft, memory) ==
  [memory |-> memory,
   sent   |-> assemble(compose_system(draft.base, draft.pins, memory), draft.recent, draft.question, draft.anchor)]

finish_draft(draft, supplied) == Finished(draft, MemoryOf(draft, fit_lines(supplied, draft.memory_budget)))
-----------------------------------------------------------------------------
(* backend/mod.rs: a continuation for an engine that cannot continue a turn. *)

\* fits[n]: the prompt with all but the first n characters of the reply fits.
MIN_TAIL_TOKENS == 16

Bisect(fits, n) ==
  LET step[s \in (0 .. n) \X (0 .. n)] ==
        LET mid == (s[1] + s[2]) \div 2
        IN IF s[1] >= s[2] THEN s[1] ELSE IF fits[mid] THEN step[<<s[1], mid>>] ELSE step[<<mid + 1, s[2]>>]
  IN step[<<0, n>>]

\* Where the part of the reply that is sent begins; None when nothing useful fits.
NoTail == [refused |-> TRUE, from |-> 0]
continuation_as_instruction(fits, n, least) ==
  LET lo == Bisect(fits, n)
  IN IF fits[0] THEN [refused |-> FALSE, from |-> 0]
     ELSE IF lo >= n \/ ~fits[lo] \/ n - lo < least THEN NoTail ELSE [refused |-> FALSE, from |-> lo]

\* The next scale, from an engine's refusal: its own count of the prompt it refused.
NextScale(ours, engines) == IF ours > 0 /\ engines > ours THEN CeilDiv(engines * 1000, ours) + 50 ELSE 1100
-----------------------------------------------------------------------------
(* summarizer.rs: folding turns into a summary, remembered by prefix.  A    *)
(* summary is the messages it was made from.                                *)

\* Mutant: a summary is remembered by its last message alone.
LastKeys(ms) == [i \in DOMAIN ms |-> <<<<>>, ms[i].role, ms[i].id>>]

prefix_keys(ms) == FoldLeft(LAMBDA keys, m : Append(keys, <<IF keys = <<>> THEN <<>> ELSE Last(keys), m.role, m.id>>), <<>>, ms)

EmptyCache == [map |-> <<>>, order |-> <<>>]
Stored(map, key) == {i \in DOMAIN map : map[i].key = key}
Get(cache, key)  == cache.map[CHOOSE i \in Stored(cache.map, key) : TRUE].text

Put(cache, key, text, entries) ==
  LET new == Append(SelectSeq(cache.map, LAMBDA e : e.key # key), [key |-> key, text |-> text])
  IN IF Stored(cache.map, key) # {} THEN [cache EXCEPT !.map = new]
     ELSE LET order == Append(cache.order, key)
              gone  == IF Len(order) > entries THEN {order[1]} ELSE {}
          IN [map |-> SelectSeq(new, LAMBDA e : e.key \notin gone), order |-> IF gone = {} THEN order ELSE Tail(order)]

\* The messages one prompt takes: at least one, and then as many as the fold has tokens for.
FoldEnd(older, done, tokens) ==
  Max({e \in done + 1 .. Len(older) :
         \A k \in done + 2 .. e : Total([i \in 1 .. k - done |-> TextTokens(older[done + i].chars)]) <= tokens})

\* The model answers the first `answers` prompts.
FoldFrom(cache, older, keys, done, answers, entries, tokens) ==
  LET To(s, e, text) == [done |-> e, text |-> text, cache |-> Put(s.cache, keys[e], text, entries)]
      Prompt(s, e)   == To(s, e, s.text \o SubSeq(older, s.done + 1, e))
  IN FoldLeft(LAMBDA s, k : IF s.done = Len(older) THEN s ELSE Prompt(s, FoldEnd(older, s.done, tokens)),
              [done |-> done, text |-> IF done = 0 THEN <<>> ELSE Get(cache, keys[done]), cache |-> cache],
              [k \in 1 .. answers |-> k])

summarize(cache, older, answers, entries, tokens) ==
  LET keys == prefix_keys(older)
      done == Max({0} \cup {i \in DOMAIN keys : Stored(cache.map, keys[i]) # {}})
      Result(end) == [ok |-> end.done = Len(older), text |-> end.text, cache |-> end.cache]
  IN Result(FoldFrom(cache, older, keys, done, answers, entries, tokens))
-----------------------------------------------------------------------------
(* repetition.rs: a reply that repeats itself.                              *)

compact(s) ==
  LET words == {i \in DOMAIN s : s[i] # "space"}
      kept  == [i \in DOMAIN s |-> /\ words # {} /\ Min(words) <= i /\ i <= Max(words)
                                   /\ s[i] # "space" \/ s[i - 1] # "space"]
  IN FoldLeft(LAMBDA out, i : IF kept[i] THEN Append(out, s[i]) ELSE out, <<>>, [i \in DOMAIN s |-> i])

trim_end(s) ==
  LET words == {i \in DOMAIN s : s[i] # "space"} IN IF words = {} THEN <<>> ELSE SubSeq(s, 1, Max(words))

has_repeated_tail(s, tail) ==
  LET flat == compact(s)
      n    == Len(flat)
  IN n >= 2 * tail /\ \E at \in 1 .. n - 2 * tail + 1 : SubSeq(flat, at, at + tail - 1) = SubSeq(flat, n - tail + 1, n)

short_loop_period(s, least, most) ==
  LET n == Len(s)
      Block(k, period) == SubSeq(s, n - k * period + 1, n - (k - 1) * period)
  IN \E period \in least .. Smaller(most, n \div 3) :
       /\ \E i \in 1 .. period : Block(1, period)[i] \in Letters
       /\ Block(2, period) = Block(1, period) /\ Block(3, period) = Block(1, period)

\* A tool call under way is left alone: its arguments may repeat.
InToolCall(s) == \E i \in DOMAIN s : s[i] = "<tool>" /\ \A j \in i + 1 .. Len(s) : s[j] \notin {"<tool>", "</tool>"}

loops(s, tail, least, most) ==
  ~InToolCall(s) /\ (has_repeated_tail(trim_end(s), tail) \/ short_loop_period(trim_end(s), least, most))
=============================================================================
