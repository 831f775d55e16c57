----------------------------- MODULE RulesContext -----------------------------
(* What the context manager promises, over small conversations (a probe).  *)
EXTENDS ContextRules, Probe

CONSTANTS Talks, Pins, Windows, Ceilings, Scales, Summaries,   \* Ceilings: the answers' lengths asked for
          CharTexts, FitTables, Olders, CacheEntries, FoldTokens, Streamed, TailLength, LeastPeriod, MostPeriod

ProbePlan == \E t \in Talks, p \in Pins, w \in Windows, a \in Ceilings, s \in Scales, exact \in BOOLEAN, c \in BOOLEAN :
  probe' = [rule |-> "plan", in |-> [messages |-> t, pinned |-> p, window |-> w, max_tokens |-> a, scale |-> s,
                                     exact |-> exact, continues |-> c]]

ProbeTokens == \E s \in CharTexts, t \in CharTexts : probe' = [rule |-> "tokens", s |-> s, t |-> t]

ProbeTail == \E f \in FitTables, least \in 1 .. 2 : probe' = [rule |-> "tail", fits |-> f, least |-> least]

ProbeFold == \E a \in Olders, b \in Olders, n \in 0 .. 2, m \in 0 .. 3 :
  probe' = [rule |-> "fold", first |-> a, second |-> b, answered |-> n, answers |-> m]

ProbeLoop == \E s \in Streamed : probe' = [rule |-> "loop", text |-> s]
-----------------------------------------------------------------------------
(* What is sent leaves the answer its share of the window, in the count the
   engine was said to use, whatever was pinned, kept and remembered; the one
   exception says so.  Only a question the model's own tokenizer measured is
   refused.  (plan, finish: the window, the reserve and the memory's budget are
   computed in three different units.) *)
NothingOverflows ==
  probe.rule = "plan" =>
    \A d \in {plan(probe.in)}, summary \in Summaries :
      IF d.refused THEN probe.in.exact
      ELSE \A f \in {finish_draft(d, summary)} :
             /\ ~d.over /\ ~(d.continuation /\ ~probe.in.continues) => scaled(MessagesTokens(f.sent), probe.in.scale) <= d.budget
             /\ MemoryTokens(f.memory) <= d.memory_budget
             /\ probe.in.window >= 192 => d.budget + d.reserve = probe.in.window

(* Nothing of the conversation is lost without being remembered: the turns kept
   are the newest, whole, and the rest are the ones the memory is made of; the
   question is sent whole with the question a tool's result answers; and a
   memory beside turns kept whole says something of the turn before them.
   (plan, turns, assemble, extract_memory.) *)
TurnsAreKeptOrRemembered ==
  probe.rule = "plan" =>
    \A d \in {plan(probe.in)} : ~d.refused =>
      \A sent \in {finish_draft(d, <<>>).sent}, rest \in {SelectSeq(probe.in.messages, LAMBDA m : m.role # "system")} :
         LET starts == {i \in DOMAIN rest : rest[i].role = "user"} IN
         /\ IsSuffix(d.question, sent)
         /\ ~d.continuation \/ ~d.managed => d.older \o d.recent \o d.question = rest
         /\ d.older # <<>> /\ d.recent # <<>> => Head(d.recent).role = "user"
         /\ \A i \in starts : i = Max(starts) /\ rest[i].tool /\ (\E j \in starts : j < i /\ ~rest[j].tool) =>
              \E j \in DOMAIN sent : sent[j].role = "user" /\ ~sent[j].tool
         /\ d.older # <<>> /\ d.recent # <<>> /\ wants_memory(d) => extract_memory(d.older, d.memory_budget).covers > 0

(* "A verbatim turn is not worth a memory that cannot say anything" (plan): a
   turn is kept whole only with room for the memory of those before it.  The
   room reserved is one token short of what finish asks for. *)
KeptTurnsLeaveAMemory ==
  probe.rule = "plan" =>
    \A d \in {plan(probe.in)} : ~d.refused /\ d.older # <<>> /\ d.recent # <<>> => wants_memory(d)

(* The estimate of a text is never more than the estimates of its two halves
   together, and never shrinks as the text grows: what the planner adds up
   bounds what it sends.  (estimate_tokens counts runs as one.) *)
EstimatesAddUp ==
  probe.rule = "tokens" =>
    LET both == estimate_tokens(probe.s \o probe.t)
    IN both <= estimate_tokens(probe.s) + estimate_tokens(probe.t) /\ estimate_tokens(probe.s) <= both

(* The end of a cut-off reply that is sent back fits; and where a shorter end
   fits whenever a longer one does, it is the longest that fits and nothing is
   refused that had a useful end.  (continuation_as_instruction's search.) *)
TailIsTheLongest ==
  probe.rule = "tail" =>
    LET fits == probe.fits
        n    == Max(DOMAIN fits)
        got  == continuation_as_instruction(fits, n, probe.least)
        monotone == \A i, j \in DOMAIN fits : i <= j /\ fits[i] => fits[j]
        useful   == {i \in DOMAIN fits : fits[i] /\ (i = 0 \/ (n - i >= probe.least /\ i < n))}
    IN /\ ~got.refused => fits[got.from]
       /\ monotone => (got.refused <=> useful = {}) /\ (useful # {} => got.from = Min(useful))

(* A summary stands for exactly the turns it is asked for, each once and in
   order, whatever conversation left what in the cache, whichever prompt the
   model failed at before and whatever the cache has dropped since; and the
   cache stays within its bound.  (summarize, prefix_keys, Cache.put.) *)
SummariesCoverTheirTurns ==
  probe.rule = "fold" =>
    \A one \in {summarize(EmptyCache, probe.first, probe.answered, CacheEntries, FoldTokens)} :
    \A two \in {summarize(one.cache, probe.second, probe.answers, CacheEntries, FoldTokens)} :
       /\ one.ok => one.text = probe.first
       /\ two.ok => two.text = probe.second
       /\ \A r \in {one, two} : Len(r.cache.map) <= CacheEntries /\ Len(r.cache.order) = Len(r.cache.map)
       /\ one.ok /\ probe.second = probe.first /\ CacheEntries > 0 => two.ok

(* A reply that says the same thing three times is stopped, however much blank
   follows; a tool call is not, and neither is a reply in which nothing long
   enough comes back.  (loops.) *)
LoopsAreStopped ==
  probe.rule = "loop" =>
    LET s == probe.text
        stopped == loops(s, TailLength, LeastPeriod, MostPeriod)
        Thrice(t) == \E p \in LeastPeriod .. MostPeriod :
                       /\ Len(t) >= 3 * p /\ \E i \in 0 .. p - 1 : t[Len(t) - i] \in Letters
                       /\ \A i \in 0 .. 2 * p - 1 : t[Len(t) - i] = t[Len(t) - i - p]
    IN /\ stopped <=> loops(s \o <<"space", "space">>, TailLength, LeastPeriod, MostPeriod)
       /\ ~InToolCall(s) /\ Thrice(trim_end(s)) => stopped
       /\ stopped => ~InToolCall(s) /\ Len(s) >= Smaller(2 * TailLength, 3 * LeastPeriod)

(* The planner: what it sends fits, and what it does not send it remembers. *)
PlansFit == NothingOverflows /\ TurnsAreKeptOrRemembered /\ EstimatesAddUp

(* What is made of a conversation's text: its end, its summary, its loops. *)
TextsAreFollowed == TailIsTheLongest /\ SummariesCoverTheirTurns /\ LoopsAreStopped
=============================================================================
