------------------------------ MODULE AtomicFiles ------------------------------
(***************************************************************************)
(* What changing a file promises (the comment of write_atomic in crates/   *)
(* misaka-studio-runtime/src/workspace.rs): all at once or not at all, at   *)
(* most once for a request, and before the request is told that it was     *)
(* done.  WorkspaceFiles implements it.                                    *)
(***************************************************************************)
CONSTANTS
  Requests, Paths, Contents, None,
  Whole(_, _)       \* Whole(r, c): c is all that request r may leave in a file

VARIABLES
  held,      \* [Paths -> what the file holds, or None]
  past,      \* [Paths -> what a power loss may bring back]
  effect,    \* requests that have changed a file
  answered   \* requests told that it was done

vars == <<held, past, effect, answered>>

Init ==
  /\ held \in [Paths -> Contents \cup {None}]
  /\ past = [p \in Paths |-> {}]
  /\ effect = {} /\ answered = {}

\* Files outside S are as they were; those in it hold anything.
OnlyAt(S) ==
  /\ held' \in [Paths -> Contents \cup {None}]
  /\ \A p \in Paths \ S : held'[p] = held[p]

Take(r, p) ==
  /\ r \notin effect
  /\ OnlyAt({p}) /\ Whole(r, held'[p])
  /\ past' = [past EXCEPT ![p] = @ \cup {held[p]}]
  /\ effect' = effect \cup {r}
  /\ UNCHANGED answered

Answer(r) ==
  /\ r \in effect
  /\ answered' = answered \cup {r}
  /\ UNCHANGED <<held, past, effect>>

\* Other programs write files too, and remove them.
Others(p) ==
  /\ OnlyAt({p})
  /\ past' = [past EXCEPT ![p] = {}]
  /\ UNCHANGED <<effect, answered>>

OthersRemove(S) ==
  /\ held' = [p \in Paths |-> IF p \in S THEN None ELSE held[p]]
  /\ past' = [p \in Paths |-> IF p \in S THEN {} ELSE past[p]]
  /\ UNCHANGED <<effect, answered>>

PowerLoss ==
  /\ OnlyAt(Paths) /\ \A p \in Paths : held'[p] \in past[p] \cup {held[p]}
  /\ past' = [p \in Paths |-> {}]
  /\ UNCHANGED <<effect, answered>>

Next ==
  \/ \E r \in Requests : Answer(r) \/ \E p \in Paths : Take(r, p)
  \/ \E p \in Paths : Others(p)
  \/ \E S \in SUBSET Paths : OthersRemove(S)
  \/ PowerLoss

Spec == Init /\ [][Next]_vars
=============================================================================
