------------------------------ MODULE Progress ------------------------------
(***************************************************************************)
(* One enrollment's progress rows and the `complete node` requests of its  *)
(* learner (modules/enrollment/service.py, router.py).                     *)
(*                                                                         *)
(* Every request is one database session and one READ COMMITTED            *)
(* transaction; the requests of one learner (two tabs, a retry, a double   *)
(* click) interleave at every await.  No statement locks a row it reads,   *)
(* so the only ordering is PostgreSQL's: an UPDATE waits for the           *)
(* transaction that last updated the row.  A request is                    *)
(*                                                                         *)
(*   Load    SELECT the node's progress row                                *)
(*   Write   the autoflush UPDATE of that row, then the mastery record     *)
(*           (read and upserted while the row is locked, so in one step)   *)
(*   Scan    SELECT all progress rows and decide which nodes to unlock     *)
(*   Commit  UPDATE the unlocked rows and commit                           *)
(*                                                                         *)
(* What a request wrote is its own until Commit; Abort                     *)
(* is a rollback: an exception, a lost connection, a deadlock victim.      *)
(***************************************************************************)
EXTENDS Naturals

CONSTANTS
    Nodes,      \* nodes of the pinned course version
    Requires,   \* <<source, target>> pairs of `requires` edges
    Gates,      \* <<source, target>> pairs of `mastery_gate` edges
    Explicit,   \* nodes whose mastery_rule is not empty
    Threshold,  \* Threshold[n]: the node's mastery threshold
    Scores,     \* scores a learner may report
    NoScore,    \* a request without a score
    NoRecord,   \* no mastery_records row
    Requests    \* requests that can be in flight together

ASSUME GraphAssumption ==
    /\ Requires \subseteq Nodes \X Nodes
    /\ Gates \subseteq Nodes \X Nodes
    /\ Explicit \subseteq Nodes

ASSUME ScoreAssumption ==
    /\ Scores \subseteq Nat
    /\ Threshold \in [Nodes -> Nat]
    /\ NoScore \notin Scores

NodeStates == {"locked", "available", "completed", "mastered"}
CompletedStates == {"completed", "mastered"}
Row == [state : NodeStates, done : BOOLEAN]
Record == [score : Scores, status : {"in_progress", "mastered"}]

ASSUME RecordAssumption == NoRecord \notin Record

Idle == [phase |-> "idle"]
Active ==
    [phase  : {"loaded", "written", "scanned"},
     node   : Nodes,
     score  : Scores \cup {NoScore},
     mine   : NodeStates,       \* the node's state in the request's session
     put    : NodeStates,       \* the state its UPDATE leaves in the row
     rec    : Record \cup {NoRecord},  \* the mastery record it leaves
     unlock : SUBSET Nodes]     \* the rows it is about to set to "available"

VARIABLES
    row,      \* committed node_progress rows (done: completed_at is set)
    record,   \* committed mastery_records row of each node
    req,      \* the requests in flight, with what they have not committed
    proven    \* history: nodes committed as mastered at least once

vars == <<row, record, req, proven>>

\* Rows, records and requests in flight stay within the values the columns and
\* the service know.
TypeOK ==
    /\ row \in [Nodes -> Row]
    /\ record \in [Nodes -> Record \cup {NoRecord}]
    /\ req \in [Requests -> {Idle} \cup Active]
    /\ proven \subseteq Nodes

-----------------------------------------------------------------------------
(* The pure part of the service.                                           *)

\* Is n the target of a locking edge?
HasPrereqs(n) == \E p \in Nodes : <<p, n>> \in Requires \cup Gates

MutantGateOnCompletion(n, view) ==
    \A p \in Nodes : <<p, n>> \in Requires \cup Gates => view[p] \in CompletedStates

PrereqsMet(n, view) ==
    /\ \A p \in Nodes : <<p, n>> \in Gates => view[p] = "mastered"
    /\ \A p \in Nodes : <<p, n>> \in Requires => view[p] \in CompletedStates

Meets(n, s) == s # NoScore /\ s >= Threshold[n]

MutantGradedAsNodeState(n, s) ==
    [score |-> s, status |-> IF Meets(n, s) THEN "mastered" ELSE "completed"]

Graded(n, s) == [score |-> s, status |-> IF Meets(n, s) THEN "mastered" ELSE "in_progress"]

MutantKeepFirstRecord(n, s, rec) ==
    IF s = NoScore \/ rec # NoRecord THEN rec ELSE Graded(n, s)

\* The mastery record left by a request with score s that finds rec.
Upsert(n, s, rec) == IF s = NoScore THEN rec ELSE Graded(n, s)

MutantRecordDecides(n, s, rec) == rec # NoRecord /\ rec.status = "mastered"

\* Is the node mastered, given the record the request leaves?
EvaluateMastery(n, s, rec) ==
    \/ Meets(n, s)
    \/ rec # NoRecord /\ rec.status = "mastered"
    \/ rec # NoRecord /\ rec.score >= Threshold[n]
    \/ n \notin Explicit

Unlockable(view) == {n \in Nodes : view[n] = "locked" /\ PrereqsMet(n, view)}

MutantCommittedView(r) == [n \in Nodes |-> row[n].state]

\* The states a request sees in its Scan: the committed rows, but its own
\* node as its session holds it.
View(r) == [n \in Nodes |-> IF n = req[r].node THEN req[r].mine ELSE row[n].state]

\* r has updated the row of node n and not committed yet.
Holds(r, n) == req[r].phase \in {"written", "scanned"} /\ req[r].node = n
LockFree(r, n) == \A q \in Requests \ {r} : ~Holds(q, n)

-----------------------------------------------------------------------------
(* Enrolling creates one row per node of the pinned version.               *)
Init ==
    /\ row = [n \in Nodes |-> [state |-> IF HasPrereqs(n) THEN "locked" ELSE "available",
                               done |-> FALSE]]
    /\ record = [n \in Nodes |-> NoRecord]
    /\ req = [r \in Requests |-> Idle]
    /\ proven = {}

\* A locked node is refused (409).
Load(r, n, s) ==
    /\ req[r].phase = "idle"
    /\ row[n].state # "locked"
    /\ req' = [req EXCEPT ![r] =
                 [phase |-> "loaded", node |-> n, score |-> s, mine |-> row[n].state,
                  put |-> "completed", rec |-> NoRecord, unlock |-> {}]]
    /\ UNCHANGED <<row, record, proven>>

\* The session writes only attributes that differ from what it loaded: a row
\* it loaded as "completed" keeps the state another request has committed
\* meanwhile, unless this request finds the node mastered.
Write(r) ==
    LET n   == req[r].node
        rec == Upsert(n, req[r].score, record[n])
        won == EvaluateMastery(n, req[r].score, rec)
        old == row[n].state
    IN  /\ req[r].phase = "loaded"
        /\ LockFree(r, n)
        /\ req' = [req EXCEPT
                     ![r].phase = "written",
                     ![r].rec = rec,
                     ![r].mine = IF won THEN "mastered" ELSE "completed",
                     ![r].put = IF won THEN "mastered"
                                ELSE IF req[r].mine = "completed" THEN old
                                ELSE "completed"]
        /\ UNCHANGED <<row, record, proven>>

Scan(r) ==
    /\ req[r].phase = "written"
    /\ req' = [req EXCEPT ![r].phase = "scanned", ![r].unlock = Unlockable(View(r))]
    /\ UNCHANGED <<row, record, proven>>

\* The UPDATE of the unlocked rows sets their state whatever it is by now.
Commit(r) ==
    LET n == req[r].node
    IN  /\ req[r].phase = "scanned"
        /\ \A m \in req[r].unlock : LockFree(r, m)
        /\ row' = [m \in Nodes |->
                     IF m = n THEN [state |-> req[r].put, done |-> TRUE]
                     ELSE IF m \in req[r].unlock THEN [row[m] EXCEPT !.state = "available"]
                     ELSE row[m]]
        /\ record' = [record EXCEPT ![n] = req[r].rec]
        /\ proven' = IF req[r].put = "mastered" THEN proven \cup {n} ELSE proven
        /\ req' = [req EXCEPT ![r] = Idle]

Abort(r) ==
    /\ req[r].phase # "idle"
    /\ req' = [req EXCEPT ![r] = Idle]
    /\ UNCHANGED <<row, record, proven>>

Serve(r) == Write(r) \/ Scan(r) \/ Commit(r)

Next ==
    \E r \in Requests :
        \/ \E n \in Nodes, s \in Scores \cup {NoScore} : Load(r, n, s)
        \/ Serve(r)
        \/ Abort(r)

Spec == Init /\ [][Next]_vars

\* The server finishes the requests it has accepted, failures stop at some
\* point, and the learner takes up every node that is available.
TakeUp(n) ==
    /\ row[n].state = "available"
    /\ \E r \in Requests, s \in Scores \cup {NoScore} : Load(r, n, s)

Fairness ==
    /\ \A r \in Requests : WF_vars(Serve(r))
    /\ \A n \in Nodes : SF_vars(TakeUp(n))
    /\ <>[][~ \E r \in Requests : Abort(r)]_vars

FairSpec == Spec /\ Fairness
-----------------------------------------------------------------------------
(* Properties that hold however requests interleave.                       *)

\* No node opens early: whoever may work on a node has completed every
\* `requires` source and has mastered every `mastery_gate` source, whatever
\* mixture of old and new rows the unlocking request read (service.py:480).
GateSound ==
    \A m \in Nodes : row[m].state # "locked" =>
        /\ \A p \in Nodes : <<p, m>> \in Requires => row[p].done
        /\ \A p \in Nodes : <<p, m>> \in Gates => p \in proven

\* The traversal implements the abstract promise: nodes open in one
\* direction, for met prerequisites only, and mastery comes from evidence.
Promise == INSTANCE Gating WITH
    open     <- {n \in Nodes : row[n].state # "locked"},
    finished <- {n \in Nodes : row[n].done},
    Passing  <- [n \in Nodes |-> {s \in Scores : Meets(n, s)}],
    Evidence <- Scores \cup {NoScore}

\* Every behaviour of the requests is, seen through that mapping, one of Gating.
ImplementsGating == Promise!Spec
-----------------------------------------------------------------------------
(* Properties that hold when one request runs at a time.                   *)

\* Between requests no node is left behind: a locked node has an unmet
\* prerequisite (complete_node re-evaluates every locked node, service.py:437).
NoNodeLeftLocked ==
    (\A r \in Requests : req[r] = Idle) =>
        \A n \in Nodes : row[n].state = "locked" =>
            ~PrereqsMet(n, [p \in Nodes |-> row[p].state])

\* For a node with a mastery rule the traversal state and the mastery record
\* tell the same story: mastered in one iff mastered in the other.
EvidenceAgrees ==
    \A n \in Explicit :
        (row[n].state = "mastered") <=>
            (record[n] # NoRecord /\ record[n].status = "mastered")

\* "No explicit mastery bar -> completion implies mastery (avoids gate
\* deadlocks)" (service.py:476): when the sources of mastery gates declare no
\* rule, a learner who takes up every available node finishes the course.
CourseCompletes ==
    (\A p \in Explicit : \A n \in Nodes : <<p, n>> \notin Gates)
        => <>[](\A n \in Nodes : row[n].state \in CompletedStates)
=============================================================================
