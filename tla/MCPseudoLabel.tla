----------------------------- MODULE MCPseudoLabel -----------------------------
(* Small instances of PseudoLabel for TLC. *)
EXTENDS PseudoLabel

CONSTANTS a, b, c

Exact == {<<x, x>> : x \in {a, b, c}}
Classes == Exact \cup {<<a, b>>, <<b, a>>}
OneWay == Exact \cup {<<a, b>>}
Chain == Classes \cup {<<b, c>>, <<c, b>>}

All == [n : {4}, truth : {a}, verify : {Exact, Classes, OneWay, Chain}]
       \cup {[n |-> 1, truth |-> c, verify |-> Chain]}
===============================================================================
