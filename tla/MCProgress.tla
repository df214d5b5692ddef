----------------------------- MODULE MCProgress -----------------------------
(***************************************************************************)
(* Progress on the graph                                                   *)
(*                                                                         *)
(*   n1 --requires--> n3 <--requires-- n2      n3 --mastery_gate--> n4     *)
(*                                                                         *)
(* n3 joins two prerequisites, so two requests can each hold half of what  *)
(* opens it.  Scores are 0 (below every threshold) and 1 (meets it).       *)
(***************************************************************************)
EXTENDS Progress

CONSTANTS n1, n2, n3, n4

JoinNodes == {n1, n2, n3, n4}
JoinRequires == {<<n1, n3>>, <<n2, n3>>}
JoinGates == {<<n3, n4>>}
JoinThreshold == [n \in JoinNodes |-> 1]

SmallNodes == {n1, n2, n3}
SmallRequires == {<<n1, n3>>}
SmallGates == {<<n2, n3>>}
SmallThreshold == [n \in SmallNodes |-> 1]
=============================================================================
