----------------------------- MODULE Promotion -----------------------------
(***************************************************************************)
(* Stage runs of one course, their review, and the promotion of approved   *)
(* artifacts into the course's versions (modules/stages/service.py,        *)
(* modules/blueprint/promotion.py), for the three stages that write the    *)
(* learning graph:                                                         *)
(*                                                                         *)
(*   mastery_nodes        an artifact is a set of node keys                *)
(*   node_evidence_logic  an artifact is the keys that get mastery rules   *)
(*   node_relationships   an artifact is a set of relations between keys   *)
(*                                                                         *)
(* Running a stage is one transaction that holds the model call: nothing   *)
(* of it is visible before it commits, with the artifact or as failed.     *)
(* A review is one transaction too: Begin is all it reads and decides,     *)
(* Commit its writes; no read takes a lock.  Of the constraints of the     *)
(* database only those on dependencies, on version numbers and on snapshots*)
(* with a version can refuse a commit: blueprint keys are not unique, and  *)
(* NULL versions are all distinct to a unique constraint.                  *)
(***************************************************************************)
EXTENDS Naturals, DependencyGraph

CONSTANTS
    RunIds,       \* bound: runs of the three stages
    MaxVersion,   \* bound: versions of the course
    Reviewers,    \* review requests that can be in flight together
    NodeSets,     \* artifacts of mastery_nodes and node_evidence_logic
    RelationSets, \* artifacts of node_relationships, types already mapped
    None          \* no run, no artifact, no request

Versions == 1 .. MaxVersion
Pins == {0} \cup Versions       \* 0: the run names no version
Stages == {"mastery_nodes", "node_evidence_logic", "node_relationships"}
Artifacts(stage) == IF stage = "node_relationships" THEN RelationSets ELSE NodeSets

RunRow ==
    [stage : Stages, pin : Pins, artifact : NodeSets \cup RelationSets \cup {None},
     review : {"auto_ok", "approved", "rejected"}]

ASSUME PromotionAssumption ==
    /\ MaxVersion \in Nat
    /\ NodeSets \subseteq SUBSET Labels
    /\ \A rels \in RelationSets : \A rel \in rels :
          rel.source \in Labels /\ rel.target \in Labels
    /\ None \notin RunIds \cup RunRow

VARIABLES
    version,  \* course_versions.state of each number, "absent" before it exists
    rows,     \* learning_nodes of each version: a blueprint key, and whose insert
    rules,    \* the rows with a mastery rule
    edges,    \* node_dependencies of each version, between rows
    runs,     \* stage_runs
    snap,     \* course_design_artifacts of each stage and pin
    req,      \* reviews in flight
    current   \* history: the run approved last for each stage and pin

graph == <<version, rows, rules, edges>>
vars == <<graph, runs, snap, req, current>>

NodeRow == [key : Labels, by : Reviewers, of : RunIds]

\* The tables are well formed; rules and dependencies stay within their version,
\* and a snapshot comes from a run of its stage.
TypeOK ==
    /\ version \in [Versions -> {"absent", "draft", "published"}]
    /\ rows \in [Versions -> SUBSET NodeRow]
    /\ \A v \in Versions : rules[v] \subseteq rows[v]
    /\ \A v \in Versions : \A e \in edges[v] : {e.source, e.target} \subseteq rows[v]
    /\ \A v \in Versions : version[v] = "absent" => rows[v] = {}
    /\ \A s \in Stages, p \in Pins : \A x \in snap[<<s, p>>] :
          x.by \in Reviewers /\ x.source \in RunIds /\ runs[x.source].stage = s

-----------------------------------------------------------------------------
(* What a review decides from what it reads.                               *)

IsLatest(v) ==
    /\ v # 0 => version[v] # "absent"
    /\ \A w \in Versions : w > v => version[w] = "absent"

\* The mutant takes the latest version without a look at its state.
MutantLatestVersion(pin, v) ==
    IF pin # 0 THEN v = pin
    ELSE \E latest \in Pins : IsLatest(latest) /\ v = IF latest = 0 THEN 1 ELSE latest

\* Is v the version an artifact goes to?  The pinned one whatever its state;
\* else the latest if it is not published; else a new one.
TargetVersion(pin, v) ==
    IF pin # 0 THEN v = pin
    ELSE \E latest \in Pins :
            /\ IsLatest(latest)
            /\ v = IF latest # 0 /\ version[latest] # "published"
                   THEN latest ELSE latest + 1

KeysOf(v) == {x.key : x \in rows[v]}

MutantMissing(keys, v) == keys

\* The keys of the artifact that have no node yet.
Missing(keys, v) == keys \ KeysOf(v)

\* The mutant looks the keys up in every version of the course.
MutantByKey(v) ==
    LET all == UNION {rows[w] : w \in Versions}
    IN  {f \in [{x.key : x \in all} -> all] : \A k \in DOMAIN f : f[k].key = k}

\* Nodes by key: of two rows with one key the later in the result wins, and the
\* order of the result is open.
ByKey(v) == {f \in [KeysOf(v) -> rows[v]] : \A k \in KeysOf(v) : f[k].key = k}

Reverse(e) == [source |-> e.target, target |-> e.source, type |-> e.type]

MutantAcceptedOneWay(new, wanted, seen) == new = wanted \ seen

\* `new` is what the loop over the relations adds, for some order of them: it
\* skips an edge that is there, or whose reverse is.
Accepted(new, wanted, seen) ==
    /\ new \subseteq wanted \ seen
    /\ \A e \in new : Reverse(e) \notin seen \cup new
    /\ \A e \in wanted \ (new \cup seen) : Reverse(e) \in seen \cup new

\* The edges a relationship artifact asks for: both keys resolve, to two nodes.
Wanted(rels, node) ==
    {[source |-> node[rel.source], target |-> node[rel.target], type |-> rel.type] :
        rel \in {r \in rels : /\ {r.source, r.target} \subseteq DOMAIN node
                              /\ r.source # r.target}}

\* The snapshot row of a stage and pin, if one is found.
Snapshot(stage, pin) == snap[<<stage, pin>>]

ToGraph(v, nodes, ruled, joined) ==
    [v |-> v, fresh |-> version[v] = "absent", rows |-> nodes, rules |-> ruled,
     edges |-> joined]

NoGraph == [v |-> 0, fresh |-> FALSE, rows |-> {}, rules |-> {}, edges |-> {}]

\* What the handlers of the three stages may add to version v; d handles run r.
AddedNodes(d, r, art, v) == [key : Missing(art, v), by : {d}, of : {r}]

AddedRules(art, v) == {{f[k] : k \in art \cap DOMAIN f} : f \in ByKey(v)}

AddedEdges(art, v) ==
    UNION {LET seen == {e \in edges[v] : \E k \in DOMAIN f : e.source = f[k]}
           IN  {new \in SUBSET Wanted(art, f) : Accepted(new, Wanted(art, f), seen)} :
               f \in ByKey(v)}

\* What approving run r adds to the graph, when d handles it.
Additions(d, r) ==
    LET stage == runs[r].stage
        art   == runs[r].artifact
        For(v) ==
          CASE stage = "mastery_nodes" ->
                 {ToGraph(v, AddedNodes(d, r, art, v), {}, {})}
            [] stage = "node_evidence_logic" ->
                 {ToGraph(v, {}, ruled, {}) : ruled \in AddedRules(art, v)}
            [] stage = "node_relationships" ->
                 {ToGraph(v, {}, {}, joined) : joined \in AddedEdges(art, v)}
    IN  IF art = None THEN {NoGraph}
        ELSE UNION {For(v) : v \in {w \in Versions : TargetVersion(runs[r].pin, w)}}

-----------------------------------------------------------------------------
Init ==
    /\ version = [v \in Versions |-> "absent"]
    /\ rows = [v \in Versions |-> {}]
    /\ rules = [v \in Versions |-> {}]
    /\ edges = [v \in Versions |-> {}]
    /\ runs = [r \in RunIds |-> None]
    /\ snap = [x \in Stages \X Pins |-> {}]
    /\ req = [d \in Reviewers |-> None]
    /\ current = [x \in Stages \X Pins |-> None]

\* run_stage: the artifact is what the answer parsed to; None stands for a
\* failed run and for an answer that is no JSON object.
RunStage(r, stage, pin, artifact) ==
    /\ runs[r] = None
    /\ pin # 0 => version[pin] # "absent"
    /\ runs' = [runs EXCEPT ![r] = [stage |-> stage, pin |-> pin, artifact |-> artifact,
                                    review |-> "auto_ok"]]
    /\ UNCHANGED <<graph, snap, req, current>>

\* The review status is written first and only when it changes; a review that
\* has written it holds the row of the run.
Writes(r, verdict) == runs[r].review # verdict
Holders(r) == {c \in Reviewers : req[c] # None /\ req[c].run = r /\ req[c].writes}

\* review_run(approve=True): any run, in any state, again and again.  With two
\* snapshot rows for its stage and version the query raises (no Begin).
BeginApprove(d, r) ==
    /\ req[d] = None /\ runs[r] # None
    /\ Writes(r, "approved") => Holders(r) = {}
    /\ LET found == Snapshot(runs[r].stage, runs[r].pin)
       IN  /\ \A x, y \in found : x = y
           /\ \E add \in Additions(d, r) :
                req' = [req EXCEPT ![d] = [run |-> r, verdict |-> "approved",
                                           writes |-> Writes(r, "approved"),
                                           found |-> found, add |-> add]]
    /\ UNCHANGED <<graph, runs, snap, current>>

BeginReject(d, r) ==
    /\ req[d] = None /\ runs[r] # None
    /\ Writes(r, "rejected") => Holders(r) = {}
    /\ req' = [req EXCEPT ![d] = [run |-> r, verdict |-> "rejected",
                                  writes |-> Writes(r, "rejected")]]
    /\ UNCHANGED <<graph, runs, snap, current>>

Finish(d) ==
    /\ runs' = IF req[d].writes THEN [runs EXCEPT ![req[d].run].review = req[d].verdict]
               ELSE runs
    /\ req' = [req EXCEPT ![d] = None]

MutantKeepSource(d, found, old) ==
    IF found = {} THEN old \cup {[by |-> d, source |-> req[d].run]} ELSE old

\* The snapshot rows after the upsert: the row found names the new run, or a row
\* is inserted.
Upserted(d, found, old) ==
    IF found = {} THEN old \cup {[by |-> d, source |-> req[d].run]}
    ELSE {IF \E y \in found : y.by = x.by THEN [x EXCEPT !.source = req[d].run] ELSE x :
             x \in old}

Approve(d) ==
    /\ req[d] # None
    /\ req[d].verdict = "approved"
    /\ LET run == runs[req[d].run]
           add == req[d].add
           at  == <<run.stage, run.pin>>
       IN  \* unique: (course, version, stage), where the version is not NULL
           /\ req[d].found = {} /\ run.pin # 0 => snap[at] = {}
           /\ snap' = [snap EXCEPT ![at] = Upserted(d, req[d].found, @)]
           /\ current' = [current EXCEPT ![at] = req[d].run]
           /\ IF add.v = 0 THEN UNCHANGED graph
              ELSE \* unique: (source, target, type); the number of a new version
                   /\ add.fresh => version[add.v] = "absent"
                   /\ add.edges \cap edges[add.v] = {}
                   /\ version' = [version EXCEPT ![add.v] =
                                    IF @ = "absent" THEN "draft" ELSE @]
                   /\ rows' = [rows EXCEPT ![add.v] = @ \cup add.rows]
                   /\ rules' = [rules EXCEPT ![add.v] = @ \cup add.rules]
                   /\ edges' = [edges EXCEPT ![add.v] = @ \cup add.edges]
    /\ Finish(d)

\* Rejection promotes nothing, and retracts nothing.
Reject(d) ==
    /\ req[d] # None
    /\ req[d].verdict = "rejected"
    /\ Finish(d)
    /\ UNCHANGED <<graph, snap, current>>

Abort(d) ==
    /\ req[d] # None
    /\ req' = [req EXCEPT ![d] = None]
    /\ UNCHANGED <<graph, runs, snap, current>>

\* publish_version, in one step: its own races are those of CourseGraph.  It is
\* a request too: with one request at a time it never meets a review in flight.
Publish(d, v) ==
    /\ req[d] = None
    /\ version[v] = "draft" /\ rows[v] # {}
    /\ version' = [version EXCEPT ![v] = "published"]
    /\ UNCHANGED <<rows, rules, edges, runs, snap, req, current>>

Next ==
    \/ \E r \in RunIds, stage \in Stages, pin \in Pins :
          \E artifact \in Artifacts(stage) \cup {None} : RunStage(r, stage, pin, artifact)
    \/ \E d \in Reviewers, r \in RunIds : BeginApprove(d, r) \/ BeginReject(d, r)
    \/ \E d \in Reviewers : Approve(d) \/ Reject(d) \/ Abort(d)
    \/ \E d \in Reviewers, v \in Versions : Publish(d, v)

Spec == Init /\ [][Next]_vars
-----------------------------------------------------------------------------
(* Properties that hold when one review runs at a time.                    *)

\* Promotion is idempotent for nodes: however often runs of a stage are
\* approved, re-approved or superseded, a version has one node per blueprint
\* key (promotion.py:8).
OneNodePerKey ==
    \A v \in Versions : \A x, y \in rows[v] : x.key = y.key => x = y

\* There is one approved artifact for a stage and version, and it is the one
\* approved last (blueprint/models.py:53), not the run created last.
SnapshotIsCurrent ==
    \A at \in Stages \X Pins :
        /\ {x.source : x \in snap[at]} = {current[at]} \ {None}
        /\ \A x, y \in snap[at] : x = y

\* No two nodes wait for each other by edges of one type, over all the
\* relationship artifacts promoted into a version (promotion.py:469).
NoOppositeEdges ==
    \A v \in Versions : \A e \in edges[v] : Reverse(e) \notin edges[v]

\* A run that names no version never changes a published one (promotion.py:10).
UnpinnedSparesPublished ==
    [][\A d \in Reviewers, v \in Versions :
          /\ version[v] = "published"
          /\ req[d] # None /\ req'[d] = None /\ runs[req[d].run].pin = 0
          => rows'[v] = rows[v] /\ rules'[v] = rules[v] /\ edges'[v] = edges[v]]_vars

-----------------------------------------------------------------------------
(* Properties the code does not have.                                      *)

\* The learning graph is acyclic (courses/router.py:7): a cycle of `requires`
\* edges locks all its nodes for good.
PromotedAcyclic ==
    \A v \in Versions :
        AcyclicPairs({<<e.source.key, e.target.key>> :
                         e \in {x \in edges[v] : x.type = "requires"}})
=============================================================================
