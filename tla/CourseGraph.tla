----------------------------- MODULE CourseGraph -----------------------------
(***************************************************************************)
(* One course, its versions and their learning graphs, under the designer  *)
(* requests of modules/courses/service.py and router.py.                   *)
(*                                                                         *)
(* A request is one READ COMMITTED transaction: `Begin...` is what it      *)
(* reads and checks (a failed check answers 4xx and changes nothing), the  *)
(* step `Commit` is its write.  Between the two other requests commit; no  *)
(* row is locked by the checks.  The database itself enforces foreign keys *)
(* (with ON DELETE CASCADE from nodes to dependencies) and the unique      *)
(* constraints on dependencies and on version numbers; a request that      *)
(* meets one rolls back (Abort).                                           *)
(*                                                                         *)
(* Nodes are named by labels within their version: cloning a version gives *)
(* fresh rows, one per source node, so a clone keeps the labels.           *)
(***************************************************************************)
EXTENDS Naturals, DependencyGraph

CONSTANTS
    Types,        \* dependency types (requires, mastery_gate)
    MaxVersion,   \* bound: versions a course may get
    Editors       \* requests that can be in flight together

ASSUME VersionAssumption == MaxVersion \in Nat \ {0}

Versions == 1 .. MaxVersion
Statuses == {"draft", "published", "archived"}
Edge == [source : Labels, target : Labels, type : Types]

\* node_dependencies rows as the pairs the cycle check sees: any type counts.
Pairs(E) == {<<e.source, e.target>> : e \in E}

VARIABLES
    course,   \* courses.status
    version,  \* course_versions.state of each number, "absent" before it exists
    nodes,    \* live learning nodes of each version
    born,     \* nodes that were ever created in a version (ids are not reused)
    rules,    \* nodes with a mastery rule
    edges,    \* node_dependencies of each version
    req       \* requests in flight

graph == <<nodes, born, rules, edges>>
vars == <<course, version, graph, req>>

Idle == [op |-> "idle"]
Request ==
    [op : {"create_node"}, v : Versions, rule : BOOLEAN]
    \cup [op : {"update_node"}, v : Versions, n : Labels, rule : BOOLEAN]
    \cup [op : {"delete_node"}, v : Versions, n : Labels]
    \cup [op : {"create_dependency", "delete_dependency"}, v : Versions, e : Edge]
    \cup [op : {"publish"}, v : Versions, sawDraft : BOOLEAN]
    \cup [op : {"create_version"}, v : Versions, src : Versions \cup {0},
            copy : SUBSET Labels, ruled : SUBSET Labels]
    \cup [op : {"set_status"}, to : Statuses]

\* The tables are well formed: rules belong to live nodes, nodes to a version
\* that exists.
TypeOK ==
    /\ course \in Statuses
    /\ version \in [Versions -> {"absent", "draft", "published"}]
    /\ nodes \in [Versions -> SUBSET Labels]
    /\ born \in [Versions -> SUBSET Labels]
    /\ rules \in [Versions -> SUBSET Labels]
    /\ edges \in [Versions -> SUBSET Edge]
    /\ req \in [Editors -> {Idle} \cup Request]
    /\ \A v \in Versions :
          /\ rules[v] \subseteq nodes[v] /\ nodes[v] \subseteq born[v]
          /\ version[v] = "absent" => born[v] = {}

\* The course's highest version number, 0 before its first version.
IsLatest(v) ==
    /\ v # 0 => version[v] # "absent"
    /\ \A w \in Versions : w > v => version[w] = "absent"

-----------------------------------------------------------------------------
(* Begin: load, check, and answer 4xx or go on.                            *)

Init ==
    /\ course = "draft"
    /\ version = [v \in Versions |-> "absent"]
    /\ nodes = [v \in Versions |-> {}]
    /\ born = [v \in Versions |-> {}]
    /\ rules = [v \in Versions |-> {}]
    /\ edges = [v \in Versions |-> {}]
    /\ req = [d \in Editors |-> Idle]

Start(d, r) ==
    /\ req[d] = Idle
    /\ req' = [req EXCEPT ![d] = r]
    /\ UNCHANGED <<course, version, graph>>

MutantFoundCourseOnly(v) == course # "archived"

\* load_course and load_version: an archived course is not found.
Found(v) == course # "archived" /\ version[v] # "absent"

MutantFoundIsEditable(v) == Found(v)

\* "Cannot edit a published version; create a new version first"
Editable(v) == Found(v) /\ version[v] # "published"

BeginCreateNode(d, v, rule) ==
    /\ Editable(v)
    /\ Start(d, [op |-> "create_node", v |-> v, rule |-> rule])

BeginUpdateNode(d, v, n, rule) ==
    /\ Editable(v) /\ n \in nodes[v]
    /\ rule # (n \in rules[v])        \* an unchanged attribute is not written
    /\ Start(d, [op |-> "update_node", v |-> v, n |-> n, rule |-> rule])

BeginDeleteNode(d, v, n) ==
    /\ Editable(v) /\ n \in nodes[v]
    /\ Start(d, [op |-> "delete_node", v |-> v, n |-> n])

BeginCreateDependency(d, v, e) ==
    /\ Editable(v)
    /\ e.source \in nodes[v] /\ e.target \in nodes[v]
    /\ e \notin edges[v]
    /\ ~CreatesCycle(Pairs(edges[v]), e.source, e.target)
    /\ Start(d, [op |-> "create_dependency", v |-> v, e |-> e])

\* Only the course is checked here, not the version's state.
BeginDeleteDependency(d, v, e) ==
    /\ Found(v) /\ e \in edges[v]
    /\ Start(d, [op |-> "delete_dependency", v |-> v, e |-> e])

BeginPublish(d, v) ==
    /\ Found(v) /\ version[v] # "published"
    /\ nodes[v] # {}
    /\ Start(d, [op |-> "publish", v |-> v, sawDraft |-> course = "draft"])

BeginCreateVersion(d, latest, clone) ==
    LET src == IF clone THEN latest ELSE 0
    IN  /\ course # "archived"
        /\ IsLatest(latest) /\ latest < MaxVersion
        /\ Start(d, [op |-> "create_version", v |-> latest + 1, src |-> src,
                     copy |-> IF src = 0 THEN {} ELSE nodes[src],
                     ruled |-> IF src = 0 THEN {} ELSE rules[src]])

\* PATCH and DELETE of the course: any status may be set, DELETE archives.
BeginSetStatus(d, to) ==
    /\ course # "archived" /\ to # course
    /\ Start(d, [op |-> "set_status", to |-> to])

Begin(d) ==
    \/ \E v \in Versions, rule \in BOOLEAN :
          \/ BeginCreateNode(d, v, rule)
          \/ \E n \in Labels : BeginUpdateNode(d, v, n, rule)
    \/ \E v \in Versions, n \in Labels : BeginDeleteNode(d, v, n)
    \/ \E v \in Versions, e \in Edge :
          BeginCreateDependency(d, v, e) \/ BeginDeleteDependency(d, v, e)
    \/ \E v \in Versions : BeginPublish(d, v)
    \/ \E latest \in 0 .. MaxVersion, clone \in BOOLEAN :
          BeginCreateVersion(d, latest, clone)
    \/ \E to \in Statuses : BeginSetStatus(d, to)

-----------------------------------------------------------------------------
(* Commit: the write of each request, on whatever is committed by then.    *)

Finish(d) == req' = [req EXCEPT ![d] = Idle]

CreateNode(d) ==
    LET r == req[d] IN
    /\ r.op = "create_node"
    /\ \E n \in Labels \ born[r.v] :
          /\ nodes' = [nodes EXCEPT ![r.v] = @ \cup {n}]
          /\ born' = [born EXCEPT ![r.v] = @ \cup {n}]
          /\ rules' = IF r.rule THEN [rules EXCEPT ![r.v] = @ \cup {n}] ELSE rules
    /\ Finish(d)
    /\ UNCHANGED <<course, version, edges>>

\* A node deleted meanwhile makes the UPDATE match no row: an error (Abort).
UpdateNode(d) ==
    LET r == req[d] IN
    /\ r.op = "update_node"
    /\ r.n \in nodes[r.v]
    /\ rules' = [rules EXCEPT ![r.v] = IF r.rule THEN @ \cup {r.n} ELSE @ \ {r.n}]
    /\ Finish(d)
    /\ UNCHANGED <<course, version, nodes, born, edges>>

MutantKeepEdges(d) ==
    LET r == req[d] IN
    /\ r.op = "delete_node"
    /\ nodes' = [nodes EXCEPT ![r.v] = @ \ {r.n}]
    /\ rules' = [rules EXCEPT ![r.v] = @ \ {r.n}]
    /\ Finish(d)
    /\ UNCHANGED <<course, version, born, edges>>

\* Dependencies go with either end (ON DELETE CASCADE).
DeleteNode(d) ==
    LET r == req[d] IN
    /\ r.op = "delete_node"
    /\ nodes' = [nodes EXCEPT ![r.v] = @ \ {r.n}]
    /\ rules' = [rules EXCEPT ![r.v] = @ \ {r.n}]
    /\ edges' = [edges EXCEPT ![r.v] = {e \in @ : r.n \notin {e.source, e.target}}]
    /\ Finish(d)
    /\ UNCHANGED <<course, version, born>>

\* Foreign keys: both ends are still there.  Unique: the edge is new.
CreateDependency(d) ==
    LET r == req[d] IN
    /\ r.op = "create_dependency"
    /\ r.e.source \in nodes[r.v] /\ r.e.target \in nodes[r.v]
    /\ r.e \notin edges[r.v]
    /\ edges' = [edges EXCEPT ![r.v] = @ \cup {r.e}]
    /\ Finish(d)
    /\ UNCHANGED <<course, version, nodes, born, rules>>

DeleteDependency(d) ==
    LET r == req[d] IN
    /\ r.op = "delete_dependency"
    /\ edges' = [edges EXCEPT ![r.v] = @ \ {r.e}]
    /\ Finish(d)
    /\ UNCHANGED <<course, version, nodes, born, rules>>

\* The course leaves draft when the request saw it in draft.
Publish(d) ==
    LET r == req[d] IN
    /\ r.op = "publish"
    /\ version' = [version EXCEPT ![r.v] = "published"]
    /\ course' = IF r.sawDraft THEN "published" ELSE course
    /\ Finish(d)
    /\ UNCHANGED graph

\* The number is unique.  The dependencies are read after the nodes and kept
\* when both ends were copied.
CreateVersion(d) ==
    LET r == req[d] IN
    /\ r.op = "create_version"
    /\ version[r.v] = "absent"
    /\ version' = [version EXCEPT ![r.v] = "draft"]
    /\ nodes' = [nodes EXCEPT ![r.v] = r.copy]
    /\ born' = [born EXCEPT ![r.v] = r.copy]
    /\ rules' = [rules EXCEPT ![r.v] = r.ruled]
    /\ edges' = [edges EXCEPT ![r.v] =
          IF r.src = 0 THEN {}
          ELSE {e \in edges[r.src] : {e.source, e.target} \subseteq r.copy}]
    /\ Finish(d)
    /\ UNCHANGED course

SetStatus(d) ==
    /\ req[d].op = "set_status"
    /\ course' = req[d].to
    /\ Finish(d)
    /\ UNCHANGED <<version, graph>>

Commit(d) ==
    \/ CreateNode(d) \/ UpdateNode(d) \/ DeleteNode(d)
    \/ CreateDependency(d) \/ DeleteDependency(d)
    \/ Publish(d) \/ CreateVersion(d) \/ SetStatus(d)

Abort(d) ==
    /\ req[d] # Idle
    /\ Finish(d)
    /\ UNCHANGED <<course, version, graph>>

Next == \E d \in Editors : Begin(d) \/ Commit(d) \/ Abort(d)

Spec == Init /\ [][Next]_vars
-----------------------------------------------------------------------------
(* Properties that hold however requests interleave.                       *)

\* A dependency joins two live nodes of its own version, although the check
\* that both exist (service.py:822) and the insert are separate steps and
\* nodes are deleted and graphs cloned in between.
EdgesJoinLiveNodes ==
    \A v \in Versions : \A e \in edges[v] : {e.source, e.target} \subseteq nodes[v]

-----------------------------------------------------------------------------
(* Properties that hold when one designer request runs at a time.          *)

\* No learner can be deadlocked by the graph: the dependencies of every
\* version are acyclic, whatever was added, deleted or cloned, and whatever
\* mixture of dependency types a cycle would use (service.py:838).
Acyclic == \A v \in Versions : AcyclicPairs(Pairs(edges[v]))

\* A published version has something to learn (service.py:634), and keeps it.
PublishedIsNotEmpty ==
    \A v \in Versions : version[v] = "published" => nodes[v] # {}

\* Publishing freezes nodes, their mastery rules, and the set of dependencies
\* against additions.  (delete_dependency does not look, service.py:854.)
PublishedNodesAreFrozen ==
    [][\A v \in Versions : version[v] = "published" =>
          /\ nodes'[v] = nodes[v]
          /\ rules'[v] = rules[v]
          /\ edges'[v] \subseteq edges[v]]_vars

\* A soft-deleted course stays deleted and nothing in it changes any more
\* (load_course answers 404, service.py:53).
ArchivedIsFinal ==
    [][course = "archived" => UNCHANGED <<course, version, graph>>]_vars
=============================================================================
