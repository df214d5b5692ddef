------------------------------ MODULE Adaptive ------------------------------
(***************************************************************************)
(* What the learner is told to do next: the rule-based engine and the      *)
(* teacher's override (modules/adaptive/service.py, router.py), over the   *)
(* progress rows of one enrollment.  The rows change by the requests of    *)
(* Progress, with all its steps: what the engine reads may be what a lost  *)
(* or a stale unlock left behind.                                          *)
(***************************************************************************)
EXTENDS Session, Naturals

CONSTANTS
    Nodes, Requires, Gates, Explicit, Threshold,   \* the graph, as in Progress
    Scores, NoScore, NoRecord,
    Remedial,           \* nodes of a remediation type
    Place,              \* Place[n]: the order of the nodes (created_at, title)
    DefaultThreshold,   \* DEFAULT_MASTERY_THRESHOLD
    MaxOverrides        \* bound: overrides of the enrollment

ASSUME AdaptiveAssumption ==
    /\ Nodes # {} /\ Remedial \subseteq Nodes
    /\ Place \in [Nodes -> Nat] /\ \A n, m \in Nodes : Place[n] = Place[m] => n = m
    /\ DefaultThreshold \in Nat /\ MaxOverrides \in Nat
    /\ None \notin [node : Nodes, at : 1 .. MaxOverrides]

VARIABLES
    row, record, completing, proven,   \* of Progress: rows, records, `complete node` requests
    met,        \* history: two of those requests have been in flight together
    override,   \* the latest teacher override among the recommendations
    asked,      \* overrides begun: the order of their transactions
    told        \* the answer the learner acts on: the last, which adds a row of
                \* recommendations that nothing reads if the engine names a node

progressRows == <<row, record, completing, proven>>
adaptiveRows == <<progressRows, met, override, asked, told>>

Completed == {"completed", "mastered"}

P == INSTANCE Progress WITH req <- completing

AdaptiveTypeOK ==
    /\ P!TypeOK
    /\ met \in BOOLEAN
    /\ override \in [node : Nodes, at : 1 .. MaxOverrides] \cup {None}
    /\ asked \in 0 .. MaxOverrides
    /\ told \in [node : Nodes \cup {None}, source : {"engine", "teacher_override"},
                 complete : BOOLEAN] \cup {None}
    /\ told # None /\ told.source = "teacher_override" => override # None

-----------------------------------------------------------------------------
AllDone == \A n \in Nodes : row[n].state \in Completed

MutantNotDone == {n \in Nodes : row[n].state \notin Completed}

Available == {n \in Nodes : row[n].state = "available"}

First(S) == CHOOSE n \in S : \A m \in S : Place[n] <= Place[m]

\* An override is active until its node is completed, even if the node is locked.
active_override == override # None /\ row[override.node].state \notin Completed

\* The default threshold, whatever the rule of the node.
has_weak_attempt ==
    \E n \in Nodes : /\ record[n] # NoRecord /\ record[n].status # "mastered"
                     /\ record[n].score < DefaultThreshold

Advice(node) == [node |-> node, source |-> "engine", complete |-> FALSE]

compute_next_node ==
    IF active_override
    THEN [node |-> override.node, source |-> "teacher_override", complete |-> FALSE]
    ELSE IF Available = {} THEN [Advice(None) EXCEPT !.complete = AllDone]
    ELSE IF has_weak_attempt /\ Available \cap Remedial # {}
    THEN Advice(First(Available \cap Remedial))
    ELSE Advice(First(Available))

-----------------------------------------------------------------------------
AdaptiveInit ==
    /\ SessionInit
    /\ P!Init
    /\ met = FALSE
    /\ override = None /\ asked = 0
    /\ told = None

\* A request in flight is a `complete node` or one of these.
NextNode(q) ==
    /\ completing[q] = P!Idle
    /\ Begin(q, [key |-> "next", answer |-> compute_next_node])
    /\ UNCHANGED adaptiveRows

CommitNextNode(q) ==
    /\ End(q)
    /\ req[q].key = "next"
    /\ told' = req[q].answer
    /\ UNCHANGED <<progressRows, met, override, asked>>

\* Any node of the enrollment: locked, available or completed.
CreateOverride(q, n) ==
    /\ completing[q] = P!Idle
    /\ asked < MaxOverrides
    /\ asked' = asked + 1
    /\ Begin(q, [key |-> "override", node |-> n, at |-> asked'])
    /\ UNCHANGED <<progressRows, met, override, told>>

\* created_at is the start of the transaction.
CommitOverride(q) ==
    /\ End(q)
    /\ req[q].key = "override"
    /\ override' = IF override # None /\ override.at > req[q].at THEN override
                   ELSE [node |-> req[q].node, at |-> req[q].at]
    /\ UNCHANGED <<progressRows, met, asked, told>>

AbortAdaptive(q) == End(q) /\ UNCHANGED adaptiveRows

\* complete_node (enrollment/service.py:401) in the steps of Progress.
BeginComplete(q, n, s) ==
    /\ req[q] = None
    /\ P!Load(q, n, s)
    /\ met' = (met \/ \E o \in Requests \ {q} : completing[o] # P!Idle)
    /\ UNCHANGED <<session, override, asked, told>>

CompleteNode(q) ==
    /\ P!Serve(q) \/ P!Abort(q)
    /\ UNCHANGED <<session, met, override, asked, told>>

AdaptiveNext ==
    \E q \in Requests :
        \/ NextNode(q)
        \/ CommitNextNode(q)
        \/ \E n \in Nodes : CreateOverride(q, n)
        \/ CommitOverride(q)
        \/ AbortAdaptive(q)
        \/ \E n \in Nodes, s \in Scores \cup {NoScore} : BeginComplete(q, n, s)
        \/ CompleteNode(q)

AdaptiveSpec == AdaptiveInit /\ [][AdaptiveNext]_<<session, adaptiveRows>>
-----------------------------------------------------------------------------
\* The engine's advice can be followed, however long the learner waits with it
\* (docs/05:84): it never names a node the learner may not work on, whatever the
\* learner's other requests do.  As long as no two completions have been in flight
\* together, "complete" is said only of a course that is and stays so, and with
\* nothing left to recommend an unfinished course waits for mastery of a node that
\* is completed; a lost or a stale unlock breaks both.
AdviceLeadsOn ==
    /\ told # None /\ told.node # None /\ told.source = "engine" =>
          row[told.node].state # "locked"
    /\ ~met =>
          /\ told # None /\ told.complete => AllDone
          /\ Available = {} /\ ~AllDone =>
                \E g \in Gates : row[g[1]].state = "completed" /\ row[g[2]].state = "locked"

\* "Prerequisites are hard - never recommend a locked node" (docs/05:84).
NeverRecommendsLocked ==
    told # None /\ told.node # None => row[told.node].state # "locked"
=============================================================================
