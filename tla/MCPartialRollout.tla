---------------------------- MODULE MCPartialRollout ----------------------------
(* Small instances of PartialRollout for TLC. *)
EXTENDS PartialRollout

CONSTANTS r1, r2, s1, s2

\* One token more than response_length fits, or just as many; an engine that may raise.
Both == {[room |-> 3, failing |-> FALSE], [room |-> 2, failing |-> FALSE], [room |-> 3, failing |-> TRUE]}
===============================================================================
