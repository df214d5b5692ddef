------------------------------- MODULE Gating -------------------------------
(***************************************************************************)
(* What the enrollment module promises of a learner's way through a course *)
(* graph, without rows, sessions or transactions.                          *)
(*                                                                         *)
(*   open      nodes the learner may work on (anything but "locked")       *)
(*   finished  nodes completed at least once                               *)
(*   proven    nodes whose mastery was shown at least once                 *)
(*                                                                         *)
(* A node opens only when every `requires` source is finished and every    *)
(* `mastery_gate` source is proven; a node with an explicit mastery rule   *)
(* is proven only by a score that meets the rule.  Nothing is ever taken   *)
(* back.  Progress.tla implements this under concurrent requests.          *)
(***************************************************************************)
CONSTANTS
    Nodes,      \* nodes of the pinned course version
    Requires,   \* <<source, target>> pairs of `requires` edges
    Gates,      \* <<source, target>> pairs of `mastery_gate` edges
    Explicit,   \* nodes that declare a mastery rule
    Passing,    \* Passing[n]: the scores that meet n's threshold
    Evidence    \* what a completion may report: a score, or none

VARIABLES open, finished, proven

vars == <<open, finished, proven>>

Met(n, fin, prv) ==
    /\ \A p \in Nodes : <<p, n>> \in Requires => p \in fin
    /\ \A p \in Nodes : <<p, n>> \in Gates => p \in prv

Gated(n) == \E p \in Nodes : <<p, n>> \in Requires \cup Gates

Init ==
    /\ open = {n \in Nodes : ~Gated(n)}
    /\ finished = {}
    /\ proven = {}

\* The learner reports n finished, with evidence e; any of the nodes whose
\* prerequisites are now met may open.
Finish(n, e) ==
    /\ n \in open
    /\ finished' = finished \cup {n}
    /\ proven' = IF n \notin Explicit \/ e \in Passing[n]
                 THEN proven \cup {n} ELSE proven
    /\ \E new \in SUBSET {m \in Nodes : Met(m, finished', proven')} :
          open' = open \cup new

Next == \E n \in Nodes, e \in Evidence : Finish(n, e)

Spec == Init /\ [][Next]_vars
=============================================================================
