------------------------------- MODULE Probe -------------------------------
(* The one variable of the runs over pure algorithms: the question asked.    *)
VARIABLE probe   \* a record: its rule, and that rule's input
=============================================================================
