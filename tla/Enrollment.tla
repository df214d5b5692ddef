----------------------------- MODULE Enrollment -----------------------------
(***************************************************************************)
(* A class on a course and the enrollment of one learner in it, pinned to  *)
(* a version of the course (modules/enrollment/service.py, router.py),     *)
(* while the versions are edited and published (modules/courses) and runs  *)
(* promote into them (modules/blueprint/promotion.py).  The enroll request *)
(* reads in four statements, and others commit between them; an edit reads *)
(* in one step and writes in another, and `disturbed` keeps the versions   *)
(* on which two edits met.                                                 *)
(***************************************************************************)
EXTENDS Session, Naturals, FiniteSets, DependencyGraph

CONSTANTS
    MaxEdition,   \* bound: versions of the course
    Teachers      \* whom a class may be given to

ASSUME EnrollmentAssumption ==
    MaxEdition \in Nat /\ IsFiniteSet(Labels) /\ "enrollment" \notin Requests

Editions == 1 .. MaxEdition

VARIABLES
    edition,     \* course_versions with their nodes and locking dependencies
    class,       \* classes: the row, or None
    enrollment,  \* enrollments with its node_progress rows, or None
    disturbed    \* history: versions two edits in flight met on, or a promotion
                 \* changed after publication or closed a cycle in

enrollmentRows == <<edition, class, enrollment, disturbed>>

Locks == [source : Labels, target : Labels]
EditionRow == [state : {"draft", "published"}, nodes : SUBSET Labels, locks : SUBSET Locks]

ClassRow == [teacher : Teachers \cup {None}]

\* `settled` is history: the version was published when it was pinned.
EnrollmentRow ==
    [pin : Editions, locked : SUBSET Labels, open : SUBSET Labels, settled : BOOLEAN]

ASSUME EnrollmentRowAssumption ==
    None \notin EditionRow /\ None \notin ClassRow /\ None \notin EnrollmentRow

EnrollmentTypeOK ==
    /\ edition \in [Editions -> EditionRow \cup {None}]
    /\ class \in ClassRow \cup {None}
    /\ enrollment \in EnrollmentRow \cup {None}
    /\ disturbed \subseteq Editions
    /\ enrollment # None =>
          /\ class # None /\ edition[enrollment.pin] # None
          /\ enrollment.locked \cap enrollment.open = {}

-----------------------------------------------------------------------------
Exists == {v \in Editions : edition[v] # None}
Published == {v \in Exists : edition[v].state = "published"}
Latest(S) == CHOOSE v \in S : \A w \in S : w <= v

MutantOfTheLatest(v) == edition[Latest(Exists)].nodes

version_nodes(v) == edition[v].nodes

\* Those of the nodes read that a locking edge leads to.
locked_nodes(v, nodes) == {n \in nodes : \E d \in edition[v].locks : d.target = n}

IsEdit(q) == req[q] # None /\ req[q].key = q
IsEnroll(q) == req[q] # None /\ req[q].key = "enrollment"

\* Nodes of version v that the request has read and may still write to.
Names(q, v) ==
    IF IsEdit(q) /\ req[q].v = v
    THEN req[q].nodes \cup {d.source : d \in req[q].locks} \cup {d.target : d \in req[q].locks}
    ELSE IF IsEnroll(q) /\ req[q].pin = v THEN req[q].nodes ELSE {}

\* Labels for new nodes: ids are not used again, so no request knows them.
FreshLabels(v) == {n \in Labels \ edition[v].nodes : \A q \in Requests : n \notin Names(q, v)}

-----------------------------------------------------------------------------
EnrollmentInit ==
    /\ SessionInit
    /\ edition = [v \in Editions |-> None]
    /\ class = None
    /\ enrollment = None
    /\ disturbed = {}

\* Nothing is read that these writes depend on: one step.
CreateClass(teacher) ==
    /\ class = None
    /\ class' = [teacher |-> teacher]
    /\ UNCHANGED <<session, edition, enrollment, disturbed>>

UpdateClass(teacher) ==
    /\ class # None
    /\ class' = [class EXCEPT !.teacher = teacher]
    /\ UNCHANGED <<session, edition, enrollment, disturbed>>

Pinned(v) ==
    [key |-> "enrollment", phase |-> "pinned", pin |-> v,
     settled |-> edition[v].state = "published", nodes |-> {}, waits |-> {}]

Searching ==
    [key |-> "enrollment", phase |-> "searching", pin |-> None, settled |-> FALSE,
     nodes |-> {}, waits |-> {}]

\* The pin the request gives; else the latest published version; else, in a
\* statement of its own, the latest.  Of a learner who is enrolled it comes to
\* nothing (ReadNodes), so it is not followed.
Enroll(q, pin) ==
    /\ class # None /\ enrollment = None
    /\ \/ pin # None /\ edition[pin] # None /\ Begin(q, Pinned(pin))
       \/ pin = None /\ Published # {} /\ Begin(q, Pinned(Latest(Published)))
       \/ pin = None /\ Published = {} /\ Begin(q, Searching)
    /\ UNCHANGED enrollmentRows

Reads(q, phase, r) ==
    /\ IsEnroll(q) /\ req[q].phase = phase
    /\ Continue(q, r)
    /\ UNCHANGED enrollmentRows

ReadLatest(q) == Exists # {} /\ Reads(q, "searching", Pinned(Latest(Exists)))

\* Enrolled already: 409.
ReadNodes(q) ==
    /\ enrollment = None
    /\ Reads(q, "pinned",
             [req[q] EXCEPT !.phase = "nodes", !.nodes = version_nodes(req[q].pin)])

ReadLocks(q) ==
    Reads(q, "nodes",
          [req[q] EXCEPT !.phase = "ready", !.waits = locked_nodes(req[q].pin, req[q].nodes)])

\* One progress row for each node read: locked iff a locking edge led to it.
initialize_progress(r) ==
    [pin |-> r.pin, locked |-> r.waits, open |-> r.nodes \ r.waits, settled |-> r.settled]

\* Unique: (user, class).  A progress row of a node that is gone breaks its
\* foreign key.
CommitEnroll(q) ==
    /\ End(q)
    /\ req[q].key = "enrollment"
    /\ req[q].phase = "ready"
    /\ enrollment = None
    /\ req[q].nodes \subseteq edition[req[q].pin].nodes
    /\ enrollment' = initialize_progress(req[q])
    /\ UNCHANGED <<edition, class, disturbed>>

AbortEnrollment(q) == End(q) /\ UNCHANGED enrollmentRows

-----------------------------------------------------------------------------
(* Edits of version v, up to what they have read and checked.              *)

\* Its key is its own: whom it meets is noted by version, in `disturbed`.
Edit(q, op, v, nodes, locks) ==
    [key |-> q, op |-> op, v |-> v, nodes |-> nodes, locks |-> locks]

BeginEdit(q, r) ==
    /\ Begin(q, r)
    /\ disturbed' = disturbed \cup {r.v : o \in {x \in Requests : IsEdit(x) /\ req[x].v = r.v}}
    /\ UNCHANGED <<edition, class, enrollment>>

\* An empty draft, or the nodes of the latest version.
CreateVersion(q, v, clone) ==
    /\ edition[v] = None /\ \A w \in Editions : w < v => edition[w] # None
    /\ clone => v > 1
    /\ BeginEdit(q, Edit(q, "create_version", v, IF clone THEN edition[v - 1].nodes ELSE {}, {}))

Draft(v) == edition[v] # None /\ edition[v].state = "draft"

CreateNode(q, v) ==
    /\ Draft(v)
    /\ BeginEdit(q, Edit(q, "create_node", v, {}, {}))

DeleteNode(q, v, n) ==
    /\ Draft(v) /\ n \in edition[v].nodes
    /\ BeginEdit(q, Edit(q, "delete_node", v, {n}, {}))

Pairs(E) == {<<d.source, d.target>> : d \in E}

CreateDependency(q, v, d) ==
    /\ Draft(v) /\ {d.source, d.target} \subseteq edition[v].nodes
    /\ ~CreatesCycle(Pairs(edition[v].locks), d.source, d.target)
    /\ BeginEdit(q, Edit(q, "create_dependency", v, {}, {d}))

Publish(q, v) ==
    /\ Draft(v) /\ edition[v].nodes # {}
    /\ BeginEdit(q, Edit(q, "publish", v, {}, {}))

\* A run pinned to a version asks nothing about its state; one that is not
\* pinned goes to a draft or to a version it creates.
PromoteNodes(q, v) ==
    /\ edition[v] # None
    /\ BeginEdit(q, Edit(q, "promote_nodes", v, {}, {}))

\* The reverse of a relation is looked for among those of its own type: it may
\* be there with the other locking type.
PromoteRelations(q, v, relations) ==
    /\ edition[v] # None /\ relations # {}
    /\ \A d \in relations : d.source # d.target /\ {d.source, d.target} \subseteq edition[v].nodes
    /\ BeginEdit(q, Edit(q, "promote_relations", v, {}, relations))

-----------------------------------------------------------------------------
(* Their writes, on whatever is committed by then.                         *)

Does(q, op) == IsEdit(q) /\ req[q].op = op

EndEdit(q, row) ==
    /\ End(q)
    /\ edition' = [edition EXCEPT ![req[q].v] = row]
    /\ UNCHANGED class

\* The number is unique.  The dependencies are read after the nodes.
CommitVersion(q) ==
    LET v == req[q].v
    IN  /\ Does(q, "create_version")
        /\ EndEdit(q,
                   [state |-> "draft", nodes |-> req[q].nodes,
                    locks |-> IF req[q].nodes = {} THEN {}
                              ELSE {d \in edition[v - 1].locks :
                                       {d.source, d.target} \subseteq req[q].nodes}])
        /\ edition[v] = None
        /\ disturbed' = IF v - 1 \in disturbed THEN disturbed \cup {v} ELSE disturbed
        /\ UNCHANGED enrollment

CommitNode(q) ==
    LET v == req[q].v
    IN  /\ Does(q, "create_node")
        /\ \E n \in FreshLabels(v) :
              EndEdit(q, [edition[v] EXCEPT !.nodes = @ \cup {n}])
        /\ UNCHANGED <<enrollment, disturbed>>

\* ON DELETE CASCADE: dependencies and progress rows go with the node.
CommitDeleteNode(q) ==
    LET v    == req[q].v
        gone == req[q].nodes
    IN  /\ Does(q, "delete_node")
        /\ EndEdit(q,
                   [edition[v] EXCEPT !.nodes = @ \ gone,
                                      !.locks = {d \in @ : {d.source, d.target} \cap gone = {}}])
        /\ enrollment' = IF enrollment = None \/ enrollment.pin # v THEN enrollment
                         ELSE [enrollment EXCEPT !.locked = @ \ gone, !.open = @ \ gone]
        /\ UNCHANGED disturbed

\* Foreign keys: both ends of what is added are still there.
Joins(locks, nodes) == \A d \in locks : {d.source, d.target} \subseteq nodes

CommitDependency(q) ==
    LET v == req[q].v
    IN  /\ Does(q, "create_dependency")
        /\ EndEdit(q, [edition[v] EXCEPT !.locks = @ \cup req[q].locks])
        /\ Joins(req[q].locks, edition[v].nodes)
        /\ UNCHANGED <<enrollment, disturbed>>

CommitPublish(q) ==
    /\ Does(q, "publish")
    /\ EndEdit(q, [edition[req[q].v] EXCEPT !.state = "published"])
    /\ UNCHANGED <<enrollment, disturbed>>

Noted(v) ==
    disturbed' = IF edition[v].state = "published" \/ ~AcyclicPairs(Pairs(edition'[v].locks))
                 THEN disturbed \cup {v} ELSE disturbed

CommitPromotedNodes(q) ==
    LET v == req[q].v
    IN  /\ Does(q, "promote_nodes")
        /\ \E new \in SUBSET FreshLabels(v) :
              EndEdit(q, [edition[v] EXCEPT !.nodes = @ \cup new])
        /\ Noted(v)
        /\ UNCHANGED enrollment

CommitPromotedRelations(q) ==
    LET v == req[q].v
    IN  /\ Does(q, "promote_relations")
        /\ EndEdit(q, [edition[v] EXCEPT !.locks = @ \cup req[q].locks])
        /\ Joins(req[q].locks, edition[v].nodes)
        /\ Noted(v)
        /\ UNCHANGED enrollment

\* No look at the state of the version, and nothing else is read: one step.
DeleteDependency(v, d) ==
    /\ edition[v] # None /\ d \in edition[v].locks
    /\ edition' = [edition EXCEPT ![v].locks = @ \ {d}]
    /\ UNCHANGED <<session, class, enrollment, disturbed>>

-----------------------------------------------------------------------------
EditNext(q) ==
    \/ \E v \in Editions :
          \/ \E clone \in BOOLEAN : CreateVersion(q, v, clone)
          \/ CreateNode(q, v)
          \/ \E n \in Labels : DeleteNode(q, v, n)
          \/ \E d \in Locks : CreateDependency(q, v, d)
          \/ Publish(q, v)
          \/ PromoteNodes(q, v)
          \/ \E relations \in SUBSET Locks : PromoteRelations(q, v, relations)
    \/ CommitVersion(q) \/ CommitNode(q) \/ CommitDeleteNode(q) \/ CommitDependency(q)
    \/ CommitPublish(q) \/ CommitPromotedNodes(q) \/ CommitPromotedRelations(q)

EnrollmentNext ==
    \/ \E q \in Requests :
          \/ \E pin \in Editions \cup {None} : Enroll(q, pin)
          \/ ReadLatest(q) \/ ReadNodes(q) \/ ReadLocks(q)
          \/ CommitEnroll(q)
          \/ AbortEnrollment(q)
          \/ EditNext(q)
    \/ \E v \in Editions, d \in Locks : DeleteDependency(v, d)
    \/ \E t \in Teachers : CreateClass(t) \/ UpdateClass(t)

EnrollmentSpec == EnrollmentInit /\ [][EnrollmentNext]_<<session, enrollmentRows>>
-----------------------------------------------------------------------------
\* An enrollment in a version that was published when it was pinned stays whole
\* (docs/04:128), although its nodes and their dependencies are read one after
\* the other while designers work on: a row for every node and for no other,
\* and a first node to start with.  In a draft, rows may only be missing.  A
\* version that two edits met on, or that a promotion reached after publication
\* or closed a cycle in, has no more than that.
PinIsWhole ==
    enrollment # None =>
        LET rows == enrollment.locked \cup enrollment.open
            all  == edition[enrollment.pin].nodes
        IN  /\ rows \subseteq all
            /\ enrollment.settled /\ enrollment.pin \notin disturbed =>
                  rows = all /\ enrollment.open # {}
=============================================================================
