--------------------------- MODULE MCMiningQueue ---------------------------
(* Small instances of MiningQueue for TLC. *)
EXTENDS MiningQueue, TLC

CONSTANTS c1, c2, p1, p2

OneCaller  == {c1}
TwoCallers == {c1, c2}
OnePrompt  == {p1}
TwoPrompts == {p1, p2}

\* One reply per outcome, the refusal by way of the second pass.
EachOutcome == {"committed", "too_long", "away"}
\* The replies that can be mistaken for one another, from gateways that give
\* the verdict.
TellingReplies == {"committed", "not_committed", "cut_off"}

\* Without crashes nothing ever reads the files or a snapshot back, so states
\* that differ only there have the same futures.
TableView == <<jobs, waiting, nextId, wake, workVars, call,
               [w \in Writers |-> io[w].pc], boundVars>>
=============================================================================
