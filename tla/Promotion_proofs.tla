-------------------------- MODULE Promotion_proofs --------------------------
(***************************************************************************)
(* Safety of promotion.                                                    *)
(*                                                                         *)
(* With any number of reviews in flight: the types.  The invariant TypeInv *)
(* adds what a review is going to write (Request): rows of a version are   *)
(* never taken back, so rules and edges it chose among them still fit.     *)
(*                                                                         *)
(* With one review at a time: one node per key, one current snapshot, no   *)
(* opposite edges, published versions spared.  SerialInv adds that what    *)
(* the review has read is still there (Fresh); two reviews break that.     *)
(***************************************************************************)
EXTENDS Promotion, TLAPS

OneAtATime == \A c, d \in Reviewers : c = d

States == {"absent", "draft", "published"}
SnapRow == [by : Reviewers, source : RunIds]

\* An edge is a record of two rows of its version and a type.
EdgeIn(e, S) ==
    /\ e = [source |-> e.source, target |-> e.target, type |-> e.type]
    /\ e.source \in S /\ e.target \in S

\* What a review adds to the graph fits the version it goes to.
Fits(add) ==
    /\ add.v \in Pins
    /\ add.v # 0 =>
          /\ add.rows \subseteq NodeRow
          /\ add.rules \subseteq rows[add.v]
          /\ \A e \in add.edges : EdgeIn(e, rows[add.v])

Request(r) ==
    /\ r.run \in RunIds /\ runs[r.run] # None
    /\ r.verdict \in {"approved", "rejected"}
    /\ r.verdict = "approved" => Fits(r.add)

TypeInv ==
    /\ version \in [Versions -> States]
    /\ rows \in [Versions -> SUBSET NodeRow]
    /\ rules \in [Versions -> SUBSET NodeRow]
    /\ edges = [v \in Versions |-> edges[v]]
    /\ runs \in [RunIds -> RunRow \cup {None}]
    /\ \A r \in RunIds : runs[r] # None => runs[r].artifact \in Artifacts(runs[r].stage) \cup {None}
    /\ snap \in [Stages \X Pins -> SUBSET SnapRow]
    /\ \A at \in Stages \X Pins : \A x \in snap[at] :
          runs[x.source] # None /\ runs[x.source].stage = at[1]
    /\ current \in [Stages \X Pins -> RunIds \cup {None}]
    /\ req = [d \in Reviewers |-> req[d]]
    /\ \A d \in Reviewers : req[d] # None => Request(req[d])
    /\ \A v \in Versions :
          /\ rules[v] \subseteq rows[v]
          /\ \A e \in edges[v] : EdgeIn(e, rows[v])
          /\ version[v] = "absent" => rows[v] = {}

\* What a review in flight has read is still what is committed.
Fresh(r) ==
    r.verdict = "approved" =>
        /\ r.found = snap[<<runs[r.run].stage, runs[r.run].pin>>]
        /\ r.add.v # 0 =>
              /\ \A x, y \in r.add.rows : x.key = y.key => x = y
              /\ \A x \in r.add.rows : x.key \notin KeysOf(r.add.v)
              /\ \A e \in r.add.edges : Reverse(e) \notin edges[r.add.v] \cup r.add.edges
              /\ runs[r.run].pin = 0 => version[r.add.v] # "published"

SerialInv ==
    /\ TypeInv
    /\ \A d \in Reviewers : req[d] # None => Fresh(req[d])
    /\ OneNodePerKey
    /\ SnapshotIsCurrent
    /\ NoOppositeEdges

-----------------------------------------------------------------------------
LEMMA TypeInvIsTyped == TypeInv => TypeOK
<1> SUFFICES ASSUME TypeInv PROVE TypeOK
  OBVIOUS
<1>1. ASSUME NEW s \in Stages, NEW p \in Pins, NEW x \in snap[<<s, p>>]
      PROVE  x.by \in Reviewers /\ x.source \in RunIds /\ runs[x.source].stage = s
  <2>1. <<s, p>> \in Stages \X Pins /\ snap[<<s, p>>] \subseteq SnapRow
    BY DEF TypeInv
  <2> QED
    BY <2>1 DEF TypeInv, SnapRow
<1> QED
  BY <1>1 DEF TypeInv, TypeOK, States, EdgeIn

-----------------------------------------------------------------------------
(* What approving a run adds, by stage.                                    *)

LEMMA AddNodes ==
  ASSUME TypeInv, NEW d \in Reviewers, NEW v \in Versions, NEW art \in NodeSets,
         NEW r \in RunIds
  PROVE  /\ AddedNodes(d, r, art, v) \subseteq NodeRow
         /\ \A x, y \in AddedNodes(d, r, art, v) : x.key = y.key => x = y
         /\ \A x \in AddedNodes(d, r, art, v) : x.key \notin KeysOf(v)
<1>1. Missing(art, v) \subseteq Labels /\ Missing(art, v) \cap KeysOf(v) = {}
  BY PromotionAssumption DEF Missing
<1> QED
  BY <1>1 DEF NodeRow, AddedNodes

\* A row found by its key is a row of the version.
LEMMA FoundByKey ==
  ASSUME TypeInv, NEW v \in Versions, NEW f \in ByKey(v)
  PROVE  /\ DOMAIN f = KeysOf(v)
         /\ \A k \in KeysOf(v) : f[k] \in rows[v] /\ f[k].key = k
  BY DEF ByKey

LEMMA AddRules ==
  ASSUME TypeInv, NEW v \in Versions, NEW art, NEW ruled \in AddedRules(art, v)
  PROVE  ruled \subseteq rows[v]
  BY FoundByKey DEF AddedRules

LEMMA WantedJoinRows ==
  ASSUME TypeInv, NEW v \in Versions, NEW art \in RelationSets, NEW f \in ByKey(v)
  PROVE  \A e \in Wanted(art, f) : EdgeIn(e, rows[v])
<1> SUFFICES ASSUME NEW e \in Wanted(art, f) PROVE EdgeIn(e, rows[v])
  OBVIOUS
<1>1. PICK rel \in art : /\ {rel.source, rel.target} \subseteq DOMAIN f
                         /\ e = [source |-> f[rel.source], target |-> f[rel.target],
                                 type |-> rel.type]
  BY DEF Wanted
<1> QED
  BY <1>1, FoundByKey DEF EdgeIn

\* With one row to a key the rows found by key are all there are, and so are the
\* edges that leave them.
LEMMA SeesEveryEdge ==
  ASSUME TypeInv, OneNodePerKey, NEW v \in Versions, NEW f \in ByKey(v)
  PROVE  {e \in edges[v] : \E k \in DOMAIN f : e.source = f[k]} = edges[v]
<1> SUFFICES ASSUME NEW e \in edges[v] PROVE \E k \in DOMAIN f : e.source = f[k]
  OBVIOUS
<1>1. e.source \in rows[v]
  BY DEF TypeInv, EdgeIn
<1>2. e.source.key \in KeysOf(v)
  BY <1>1 DEF KeysOf
<1>3. f[e.source.key] \in rows[v] /\ f[e.source.key].key = e.source.key
  BY <1>2, FoundByKey
<1> QED
  BY <1>1, <1>2, <1>3, FoundByKey DEF OneNodePerKey

\* The edges a relationship artifact adds join rows of the version, and none meets
\* its reverse, in the version or among the new ones.
LEMMA AddEdges ==
  ASSUME TypeInv, NEW v \in Versions, NEW art \in RelationSets,
         NEW joined \in AddedEdges(art, v)
  PROVE  /\ \A e \in joined : EdgeIn(e, rows[v])
         /\ OneNodePerKey => \A e \in joined : Reverse(e) \notin edges[v] \cup joined
<1>1. PICK f \in ByKey(v) :
          /\ joined \subseteq Wanted(art, f)
          /\ Accepted(joined, Wanted(art, f),
                      {e \in edges[v] : \E k \in DOMAIN f : e.source = f[k]})
  BY DEF AddedEdges
<1>2. OneNodePerKey => \A e \in joined : Reverse(e) \notin edges[v] \cup joined
  BY <1>1, SeesEveryEdge DEF Accepted
<1> QED
  BY <1>1, <1>2, WantedJoinRows

\* A run without a version is promoted into one that is not published.
LEMMA TargetIsDraft ==
  ASSUME TypeInv, NEW v \in Versions, TargetVersion(0, v)
  PROVE  version[v] # "published"
<1>1. PICK latest \in Pins :
          /\ IsLatest(latest)
          /\ v = IF latest # 0 /\ version[latest] # "published" THEN latest ELSE latest + 1
  BY DEF TargetVersion
<1>2. CASE latest # 0 /\ version[latest] # "published"
  BY <1>1, <1>2
<1>3. CASE ~(latest # 0 /\ version[latest] # "published")
  <2>1. v = latest + 1 /\ latest \in Nat
    BY <1>1, <1>3, PromotionAssumption DEF Pins, Versions
  <2>2. version[v] = "absent"
    BY <1>1, <2>1 DEF IsLatest
  <2> QED
    BY <2>2
<1> QED
  BY <1>2, <1>3

\* All of the above of what a review decides to add.
LEMMA WhatIsAdded ==
  ASSUME TypeInv, NEW d \in Reviewers, NEW r \in RunIds, runs[r] # None,
         NEW add \in Additions(d, r)
  PROVE  /\ Fits(add)
         /\ OneNodePerKey => Fresh([run |-> r, verdict |-> "approved", add |-> add,
                                    found |-> snap[<<runs[r].stage, runs[r].pin>>]])
<1> DEFINE stage == runs[r].stage
           art == runs[r].artifact
           new == [run |-> r, verdict |-> "approved", add |-> add,
                   found |-> snap[<<runs[r].stage, runs[r].pin>>]]
<1>1. /\ stage \in Stages /\ runs[r].pin \in Pins
      /\ art \in Artifacts(stage) \cup {None}
  BY DEF TypeInv, RunRow
<1>2. CASE art = None
  <2>1. add = NoGraph
    BY <1>2 DEF Additions
  <2> QED
    BY <2>1 DEF NoGraph, Fits, Fresh, Pins
<1>3. CASE art # None
  <2>1. PICK v \in Versions :
          /\ TargetVersion(runs[r].pin, v)
          /\ \/ /\ stage = "mastery_nodes"
                /\ add = ToGraph(v, AddedNodes(d, r, art, v), {}, {})
             \/ /\ stage = "node_evidence_logic"
                /\ \E ruled \in AddedRules(art, v) : add = ToGraph(v, {}, ruled, {})
             \/ /\ stage = "node_relationships"
                /\ \E joined \in AddedEdges(art, v) : add = ToGraph(v, {}, {}, joined)
    BY <1>1, <1>3 DEF Additions, Stages
  <2>2. v \in Pins /\ v # 0
    BY PromotionAssumption DEF Pins, Versions
  <2>3. runs[r].pin = 0 => version[v] # "published"
    BY <2>1, TargetIsDraft
  <2>4. CASE stage = "mastery_nodes"
    <3>1. art \in NodeSets
      BY <1>1, <1>3, <2>4 DEF Artifacts
    <3>2. /\ add.v = v /\ add.rules = {} /\ add.edges = {}
          /\ add.rows = AddedNodes(d, r, art, v)
      BY <2>1, <2>4 DEF ToGraph
    <3> QED
      BY <2>2, <2>3, <3>1, <3>2, AddNodes DEF Fits, Fresh
  <2>5. CASE stage = "node_evidence_logic"
    <3>1. PICK ruled \in AddedRules(art, v) :
            add.v = v /\ add.rows = {} /\ add.rules = ruled /\ add.edges = {}
      BY <2>1, <2>5 DEF ToGraph
    <3> QED
      BY <2>2, <2>3, <3>1, AddRules DEF Fits, Fresh
  <2>6. CASE stage = "node_relationships"
    <3>1. art \in RelationSets
      BY <1>1, <1>3, <2>6 DEF Artifacts
    <3>2. PICK joined \in AddedEdges(art, v) :
            add.v = v /\ add.rows = {} /\ add.rules = {} /\ add.edges = joined
      BY <2>1, <2>6 DEF ToGraph
    <3> QED
      BY <2>2, <2>3, <3>1, <3>2, AddEdges DEF Fits, Fresh
  <2> QED
    BY <1>1, <2>4, <2>5, <2>6 DEF Stages
<1> QED
  BY <1>2, <1>3

-----------------------------------------------------------------------------
(* Steps, with any number of reviews.                                      *)

RunsTyped ==
    /\ runs \in [RunIds -> RunRow \cup {None}]
    /\ \A r \in RunIds : runs[r] # None => runs[r].artifact \in Artifacts(runs[r].stage) \cup {None}

\* What no step takes back: the rows of a version, and what a run is about.
Kept ==
    /\ \A v \in Versions : rows[v] \subseteq rows'[v]
    /\ \A r \in RunIds : runs[r] # None =>
          /\ runs'[r] # None
          /\ runs'[r].stage = runs[r].stage /\ runs'[r].pin = runs[r].pin

\* So what a review is going to write still fits.
LEMMA RequestKept ==
  ASSUME TypeInv, Kept, NEW r, Request(r)
  PROVE  Request(r)'
<1>1. ASSUME Fits(r.add) PROVE Fits(r.add)'
  <2>1. r.add.v # 0 => r.add.v \in Versions
    BY <1>1 DEF Fits, Pins
  <2> QED
    BY <1>1, <2>1 DEF Fits, Kept, EdgeIn
<1> QED
  BY <1>1 DEF Request, Kept

\* The end of a review changes the review status of its run, if anything of it.
LEMMA FinishKeeps ==
  ASSUME TypeInv, NEW d \in Reviewers, req[d] # None, Finish(d)
  PROVE  /\ RunsTyped'
         /\ \A r \in RunIds : runs[r] # None =>
               /\ runs'[r] # None
               /\ runs'[r].stage = runs[r].stage /\ runs'[r].pin = runs[r].pin
         /\ req' = [c \in Reviewers |-> req'[c]] /\ req'[d] = None
         /\ \A c \in Reviewers \ {d} : req'[c] = req[c]
<1>1. PICK run, verdict : run = req[d].run /\ verdict = req[d].verdict
  OBVIOUS
<1>2. /\ run \in RunIds /\ runs[run] # None
      /\ verdict \in {"approved", "rejected"}
  BY <1>1 DEF TypeInv, Request
<1>3. runs[run] \in RunRow
  BY <1>2 DEF TypeInv
<1>4. PICK row : row = [runs[run] EXCEPT !.review = verdict]
  OBVIOUS
<1>5. /\ row \in RunRow /\ row.stage = runs[run].stage /\ row.pin = runs[run].pin
      /\ row.artifact = runs[run].artifact
  BY <1>2, <1>3, <1>4 DEF RunRow
<1>6. row # None
  BY <1>5, PromotionAssumption
<1>7. runs' = runs \/ runs' = [runs EXCEPT ![run] = row]
  BY <1>1, <1>4 DEF Finish
<1>8. /\ req' = [c \in Reviewers |-> req'[c]] /\ req'[d] = None
      /\ \A c \in Reviewers \ {d} : req'[c] = req[c]
  BY DEF Finish, TypeInv
<1>9. CASE runs' = runs
  BY <1>8, <1>9 DEF TypeInv, RunsTyped
<1>10. CASE runs' = [runs EXCEPT ![run] = row]
  <2>1. runs'[run] = row /\ \A r \in RunIds \ {run} : runs'[r] = runs[r]
    BY <1>2, <1>10 DEF TypeInv
  <2>2. runs' \in [RunIds -> RunRow \cup {None}]
    BY <1>2, <1>5, <1>10 DEF TypeInv
  <2>3. \A r \in RunIds : runs'[r] # None =>
            runs'[r].artifact \in Artifacts(runs'[r].stage) \cup {None}
    BY <1>2, <1>5, <2>1 DEF TypeInv
  <2> QED
    BY <1>2, <1>5, <1>6, <1>8, <2>1, <2>2, <2>3 DEF RunsTyped
<1> QED
  BY <1>7, <1>9, <1>10

\* Steps that write no table but that of the runs.
LEMMA QuietType ==
  ASSUME TypeInv, UNCHANGED <<graph, snap, current>>, Kept, RunsTyped',
         req' = [d \in Reviewers |-> req'[d]],
         \A d \in Reviewers : req'[d] # None => req'[d] = req[d] \/ Request(req[d])'
  PROVE  TypeInv'
<1>1. UNCHANGED <<version, rows, rules, edges, snap, current>>
  BY DEF graph
<1>2. ASSUME NEW d \in Reviewers, req'[d] # None PROVE Request(req[d])'
  <2>1. CASE req'[d] = req[d]
    <3>1. Request(req[d])
      BY <1>2, <2>1 DEF TypeInv
    <3>2. PICK r : r = req[d]
      OBVIOUS
    <3>3. Request(r)'
      BY <3>1, <3>2, RequestKept
    <3> QED
      BY <2>1, <3>2, <3>3
  <2> QED
    BY <1>2, <2>1
<1>3. ASSUME NEW at \in Stages \X Pins, NEW x \in snap[at]
      PROVE  runs'[x.source] # None /\ runs'[x.source].stage = at[1]
  <2>1. x.source \in RunIds /\ runs[x.source] # None /\ runs[x.source].stage = at[1]
    BY DEF TypeInv, SnapRow
  <2> QED
    BY <2>1 DEF Kept
<1> QED
  BY <1>1, <1>2, <1>3 DEF TypeInv, RunsTyped, EdgeIn

LEMMA RunStageType ==
  ASSUME TypeInv, NEW r \in RunIds, NEW stage \in Stages, NEW pin \in Pins,
         NEW artifact \in Artifacts(stage) \cup {None}, RunStage(r, stage, pin, artifact)
  PROVE  TypeInv' /\ Kept
<1>1. PICK row : row = [stage |-> stage, pin |-> pin, artifact |-> artifact,
                        review |-> "auto_ok"]
  OBVIOUS
<1>2. /\ row \in RunRow /\ row.stage = stage /\ row.artifact = artifact
      /\ row # None
  BY <1>1, PromotionAssumption DEF RunRow, Artifacts
<1>3. runs[r] = None /\ runs' = [runs EXCEPT ![r] = row]
  BY <1>1 DEF RunStage
<1>4. RunsTyped' /\ \A o \in RunIds : runs[o] # None => runs'[o] = runs[o]
  BY <1>2, <1>3 DEF RunsTyped, TypeInv
<1>5. Kept
  BY <1>4 DEF Kept, RunStage, graph
<1> QED
  BY <1>4, <1>5, QuietType DEF RunStage, TypeInv

LEMMA BeginApproveType ==
  ASSUME TypeInv, NEW d \in Reviewers, NEW r \in RunIds, BeginApprove(d, r)
  PROVE  /\ TypeInv' /\ Kept
         /\ req[d] = None /\ UNCHANGED <<graph, runs, snap, current>>
         /\ \A c \in Reviewers \ {d} : req'[c] = req[c]
         /\ OneNodePerKey => Fresh(req[d])'
<1>1. PICK add \in Additions(d, r) :
          req' = [req EXCEPT ![d] = [run |-> r, verdict |-> "approved",
                                     writes |-> Writes(r, "approved"),
                                     found |-> snap[<<runs[r].stage, runs[r].pin>>],
                                     add |-> add]]
  BY DEF BeginApprove, Snapshot
<1>2. req[d] = None /\ runs[r] # None /\ UNCHANGED <<graph, runs, snap, current>>
  BY DEF BeginApprove
<1>3. /\ req'[d].run = r /\ req'[d].verdict = "approved" /\ req'[d].add = add
      /\ req'[d].found = snap[<<runs[r].stage, runs[r].pin>>]
      /\ \A c \in Reviewers \ {d} : req'[c] = req[c]
      /\ req' = [c \in Reviewers |-> req'[c]]
  BY <1>1 DEF TypeInv
<1>4. Fits(add) /\ (OneNodePerKey => Fresh([run |-> r, verdict |-> "approved", add |-> add,
                                     found |-> snap[<<runs[r].stage, runs[r].pin>>]]))
  BY <1>2, WhatIsAdded
<1>5. Kept
  BY <1>2 DEF Kept, graph
<1>6. Request(req[d])'
  BY <1>2, <1>3, <1>4 DEF Request, Fits, EdgeIn, graph
<1>7. OneNodePerKey => Fresh(req[d])'
  BY <1>2, <1>3, <1>4 DEF Fresh, KeysOf, graph
<1>8. RunsTyped'
  BY <1>2 DEF TypeInv, RunsTyped
<1>9. TypeInv'
  BY <1>2, <1>3, <1>5, <1>6, <1>8, QuietType
<1> QED
  BY <1>2, <1>3, <1>5, <1>7, <1>9

LEMMA BeginRejectType ==
  ASSUME TypeInv, NEW d \in Reviewers, NEW r \in RunIds, BeginReject(d, r)
  PROVE  /\ TypeInv' /\ Kept
         /\ req[d] = None /\ UNCHANGED <<graph, runs, snap, current>>
         /\ \A c \in Reviewers \ {d} : req'[c] = req[c]
         /\ Fresh(req[d])'
<1>1. /\ runs[r] # None /\ req[d] = None /\ UNCHANGED <<graph, runs, snap, current>>
      /\ req' = [req EXCEPT ![d] = [run |-> r, verdict |-> "rejected",
                                    writes |-> Writes(r, "rejected")]]
  BY DEF BeginReject
<1>2. /\ req'[d].run = r /\ req'[d].verdict = "rejected"
      /\ \A c \in Reviewers \ {d} : req'[c] = req[c]
      /\ req' = [c \in Reviewers |-> req'[c]]
  BY <1>1 DEF TypeInv
<1>3. Request(req[d])' /\ Fresh(req[d])'
  BY <1>1, <1>2 DEF Request, Fresh
<1>4. Kept /\ RunsTyped'
  BY <1>1 DEF Kept, RunsTyped, TypeInv, graph
<1> QED
  BY <1>1, <1>2, <1>3, <1>4, QuietType

LEMMA RejectType ==
  ASSUME TypeInv, NEW d \in Reviewers, Reject(d)
  PROVE  TypeInv' /\ Kept
<1>1. /\ req[d] # None /\ Finish(d) /\ UNCHANGED <<graph, snap, current>>
  BY DEF Reject
<1>2. Kept
  BY <1>1, FinishKeeps DEF Kept, graph
<1> QED
  BY <1>1, <1>2, FinishKeeps, QuietType

LEMMA AbortType ==
  ASSUME TypeInv, NEW d \in Reviewers, Abort(d)
  PROVE  TypeInv' /\ Kept
<1>1. /\ UNCHANGED <<graph, runs, snap, current>>
      /\ req' = [c \in Reviewers |-> req'[c]] /\ req'[d] = None
      /\ \A c \in Reviewers \ {d} : req'[c] = req[c]
  BY DEF Abort, TypeInv
<1>2. Kept /\ RunsTyped'
  BY <1>1 DEF Kept, RunsTyped, TypeInv, graph
<1> QED
  BY <1>1, <1>2, QuietType

LEMMA PublishType ==
  ASSUME TypeInv, NEW d \in Reviewers, NEW v \in Versions, Publish(d, v)
  PROVE  TypeInv' /\ Kept
<1>1. /\ UNCHANGED <<rows, rules, edges, runs, snap, req, current>>
      /\ version' = [version EXCEPT ![v] = "published"]
  BY DEF Publish
<1>2. Kept
  BY <1>1 DEF Kept
<1>3. /\ version' \in [Versions -> States]
      /\ \A w \in Versions : version'[w] = "absent" => rows[w] = {}
  BY <1>1 DEF TypeInv, States
<1>4. ASSUME NEW c \in Reviewers, req'[c] # None PROVE Request(req[c])'
  <2>1. PICK r : r = req[c]
    OBVIOUS
  <2>2. Request(r)
    BY <1>1, <1>4, <2>1 DEF TypeInv
  <2>3. Request(r)'
    BY <1>2, <2>2, RequestKept
  <2> QED
    BY <1>1, <2>1, <2>3
<1> QED
  BY <1>1, <1>2, <1>3, <1>4 DEF TypeInv, EdgeIn

\* The rows of the snapshot after the upsert name the run or what they named.
LEMMA UpsertRows ==
  ASSUME NEW d \in Reviewers, NEW found, NEW old \in SUBSET SnapRow, req[d].run \in RunIds
  PROVE  /\ Upserted(d, found, old) \subseteq SnapRow
         /\ \A x \in Upserted(d, found, old) :
               x.source = req[d].run \/ \E y \in old : x.source = y.source
<1>1. CASE found = {}
  BY <1>1 DEF Upserted, SnapRow
<1>2. CASE found # {}
  <2> SUFFICES ASSUME NEW y \in old
               PROVE  /\ [y EXCEPT !.source = req[d].run] \in SnapRow
                      /\ [y EXCEPT !.source = req[d].run].source = req[d].run
    BY <1>2 DEF Upserted
  <2>1. y \in SnapRow
    OBVIOUS
  <2> QED
    BY <2>1 DEF SnapRow
<1> QED
  BY <1>1, <1>2

\* An approval by review r: one snapshot and one version are written, or no version.
WritesGraph(r, v) ==
    /\ v \in Versions /\ v # 0
    /\ version' = [version EXCEPT ![v] = IF @ = "absent" THEN "draft" ELSE @]
    /\ rows' = [rows EXCEPT ![v] = @ \cup r.add.rows]
    /\ rules' = [rules EXCEPT ![v] = @ \cup r.add.rules]
    /\ edges' = [edges EXCEPT ![v] = @ \cup r.add.edges]

Approving(d, r, at, v) ==
    /\ r = req[d] /\ r # None /\ r.verdict = "approved" /\ Request(r) /\ Fits(r.add)
    /\ at = <<runs[r.run].stage, runs[r.run].pin>> /\ at \in Stages \X Pins
    /\ at[1] = runs[r.run].stage
    /\ snap' = [snap EXCEPT ![at] = Upserted(d, r.found, @)]
    /\ current' = [current EXCEPT ![at] = r.run]
    /\ v = r.add.v
    /\ \/ v = 0 /\ UNCHANGED graph
       \/ WritesGraph(r, v)
    /\ Finish(d)

LEMMA ApproveWrites ==
  ASSUME TypeInv, NEW d \in Reviewers, Approve(d)
  PROVE  \E r, at, v : Approving(d, r, at, v)
<1>1. PICK r, at, v : /\ r = req[d] /\ v = r.add.v
                      /\ at = <<runs[r.run].stage, runs[r.run].pin>>
  OBVIOUS
<1>2. r # None /\ r.verdict = "approved" /\ Request(r) /\ Fits(r.add) /\ Finish(d)
  BY <1>1 DEF Approve, TypeInv, Request
<1>3. at \in Stages \X Pins /\ at[1] = runs[r.run].stage
  BY <1>1, <1>2 DEF Request, TypeInv, RunRow
<1>4. /\ snap' = [snap EXCEPT ![at] = Upserted(d, r.found, @)]
      /\ current' = [current EXCEPT ![at] = r.run]
  BY <1>1 DEF Approve
<1>5. (v = 0 /\ UNCHANGED graph) \/ WritesGraph(r, v)
  <2>1. v = 0 \/ (v \in Versions /\ v # 0)
    BY <1>1, <1>2, PromotionAssumption DEF Fits, Pins, Versions
  <2> QED
    BY <1>1, <2>1 DEF Approve, WritesGraph
<1> QED
  BY <1>1, <1>2, <1>3, <1>4, <1>5 DEF Approving

LEMMA ApproveType ==
  ASSUME TypeInv, NEW d \in Reviewers, Approve(d)
  PROVE  TypeInv' /\ Kept
<1>1. PICK r, at, v : Approving(d, r, at, v)
  BY ApproveWrites
<1>2. /\ RunsTyped'
      /\ \A o \in RunIds : runs[o] # None =>
            /\ runs'[o] # None
            /\ runs'[o].stage = runs[o].stage /\ runs'[o].pin = runs[o].pin
      /\ req' = [c \in Reviewers |-> req'[c]] /\ req'[d] = None
      /\ \A c \in Reviewers \ {d} : req'[c] = req[c]
  BY <1>1, FinishKeeps DEF Approving
<1>3. /\ version' \in [Versions -> States]
      /\ rows' \in [Versions -> SUBSET NodeRow]
      /\ rules' \in [Versions -> SUBSET NodeRow]
      /\ edges' = [w \in Versions |-> edges'[w]]
      /\ \A w \in Versions : rows[w] \subseteq rows'[w]
      /\ \A w \in Versions :
            /\ rules'[w] \subseteq rows'[w]
            /\ \A e \in edges'[w] : EdgeIn(e, rows[w])
            /\ version'[w] = "absent" => rows'[w] = {}
  <2>1. CASE UNCHANGED graph
    BY <2>1 DEF graph, TypeInv
  <2>2. CASE WritesGraph(r, v)
    <3>1. /\ v # 0 /\ r.add.rows \subseteq NodeRow /\ r.add.rules \subseteq rows[v]
          /\ \A e \in r.add.edges : EdgeIn(e, rows[v])
      BY <1>1, <2>2 DEF Approving, WritesGraph, Fits
    <3>2. /\ version' \in [Versions -> States] /\ version'[v] # "absent"
          /\ \A w \in Versions \ {v} : version'[w] = version[w]
      BY <2>2 DEF WritesGraph, TypeInv, States
    <3>3. /\ rows' \in [Versions -> SUBSET NodeRow] /\ rows'[v] = rows[v] \cup r.add.rows
          /\ \A w \in Versions \ {v} : rows'[w] = rows[w]
      BY <2>2, <3>1 DEF WritesGraph, TypeInv
    <3>4. /\ rules' \in [Versions -> SUBSET NodeRow] /\ rules'[v] = rules[v] \cup r.add.rules
          /\ \A w \in Versions \ {v} : rules'[w] = rules[w]
      BY <2>2, <3>1 DEF WritesGraph, TypeInv
    <3>5. /\ edges' = [w \in Versions |-> edges'[w]] /\ edges'[v] = edges[v] \cup r.add.edges
          /\ \A w \in Versions \ {v} : edges'[w] = edges[w]
      BY <2>2 DEF WritesGraph, TypeInv
    <3> QED
      BY <3>1, <3>2, <3>3, <3>4, <3>5 DEF TypeInv
  <2> QED
    BY <1>1, <2>1, <2>2 DEF Approving
<1>4. Kept
  BY <1>2, <1>3 DEF Kept
<1>5. ASSUME NEW c \in Reviewers, req'[c] # None PROVE Request(req[c])'
  <2>1. c # d /\ req'[c] = req[c]
    BY <1>2, <1>5
  <2>2. PICK o : o = req[c]
    OBVIOUS
  <2>3. Request(o)
    BY <1>5, <2>1, <2>2 DEF TypeInv
  <2>4. Request(o)'
    BY <1>4, <2>3, RequestKept
  <2> QED
    BY <2>1, <2>2, <2>4
<1>6. /\ r.run \in RunIds /\ runs[r.run] # None /\ req[d].run = r.run
      /\ snap[at] \in SUBSET SnapRow
  BY <1>1 DEF Approving, Request, TypeInv
<1>7. /\ snap'[at] = Upserted(d, r.found, snap[at])
      /\ \A o \in Stages \X Pins : o # at => snap'[o] = snap[o]
      /\ snap' \in [Stages \X Pins -> SUBSET SnapRow]
      /\ current' \in [Stages \X Pins -> RunIds \cup {None}]
  <2>1. PICK S : S = Upserted(d, r.found, snap[at])
    OBVIOUS
  <2>2. S \subseteq SnapRow
    BY <1>6, <2>1, UpsertRows
  <2>3. snap' = [snap EXCEPT ![at] = S]
    BY <1>1, <2>1 DEF Approving
  <2>4. snap \in [Stages \X Pins -> SUBSET SnapRow]
    BY DEF TypeInv
  <2>5. /\ snap'[at] = S
        /\ \A o \in Stages \X Pins : o # at => snap'[o] = snap[o]
        /\ snap' \in [Stages \X Pins -> SUBSET SnapRow]
    BY <1>1, <2>2, <2>3, <2>4 DEF Approving
  <2>6. current' \in [Stages \X Pins -> RunIds \cup {None}]
    BY <1>1, <1>6 DEF Approving, TypeInv
  <2> QED
    BY <2>1, <2>5, <2>6
<1>8. ASSUME NEW o \in Stages \X Pins, NEW x \in snap'[o]
      PROVE  runs'[x.source] # None /\ runs'[x.source].stage = o[1]
  <2>1. \/ o = at /\ x.source = r.run
        \/ \E y \in snap[o] : x.source = y.source
    BY <1>6, <1>7, <1>8, UpsertRows
  <2>2. CASE o = at /\ x.source = r.run
    BY <1>1, <1>2, <1>6, <2>2 DEF Approving
  <2>3. ASSUME NEW y \in snap[o], x.source = y.source
        PROVE  runs'[x.source] # None /\ runs'[x.source].stage = o[1]
    <3>1. y.source \in RunIds /\ runs[y.source] # None /\ runs[y.source].stage = o[1]
      BY <2>3 DEF TypeInv, SnapRow
    <3> QED
      BY <1>2, <2>3, <3>1
  <2> QED
    BY <2>1, <2>2, <2>3
<1>9. (\A w \in Versions :
          /\ rules[w] \subseteq rows[w]
          /\ \A e \in edges[w] : EdgeIn(e, rows[w])
          /\ version[w] = "absent" => rows[w] = {})'
  BY <1>3 DEF EdgeIn
<1>10. (\A o \in Stages \X Pins : \A x \in snap[o] :
          runs[x.source] # None /\ runs[x.source].stage = o[1])'
  BY <1>8
<1>11. (\A c \in Reviewers : req[c] # None => Request(req[c]))'
  BY <1>5
<1> QED
  BY <1>2, <1>3, <1>4, <1>7, <1>9, <1>10, <1>11 DEF TypeInv, RunsTyped

LEMMA InitType == Init => TypeInv
  BY PromotionAssumption DEF Init, TypeInv, States

LEMMA StepType == TypeInv /\ [Next]_vars => TypeInv'
<1> SUFFICES ASSUME TypeInv, [Next]_vars PROVE TypeInv'
  OBVIOUS
<1>1. CASE UNCHANGED vars
  <2>1. UNCHANGED <<graph, version, rows, rules, edges, runs, snap, req, current>>
    BY <1>1 DEF vars, graph
  <2>2. Kept /\ RunsTyped'
    BY <2>1 DEF Kept, RunsTyped, TypeInv
  <2> QED
    BY <2>1, <2>2, QuietType DEF TypeInv
<1>2. CASE Next
  BY <1>2, RunStageType, BeginApproveType, BeginRejectType, ApproveType, RejectType,
     AbortType, PublishType DEF Next
<1> QED
  BY <1>1, <1>2

LEMMA TypeInvariance == Spec => []TypeInv
  BY InitType, StepType, PTL DEF Spec

\* The tables stay well formed for any number of reviews, runs, versions and
\* artifacts: the foreign keys of the nodes, rules and dependencies hold.
THEOREM TypeCorrect == Spec => []TypeOK
  BY TypeInvariance, TypeInvIsTyped, PTL

-----------------------------------------------------------------------------
(* One review at a time: what it has read is still what is committed.      *)

\* What is fresh stays so while nothing but the runs is written.
LEMMA FreshKept ==
  ASSUME TypeInv, UNCHANGED <<graph, snap>>, Kept, NEW r, Request(r), Fresh(r)
  PROVE  Fresh(r)'
  BY DEF Request, Fresh, Kept, KeysOf, graph

\* A step that writes neither graph nor snapshots keeps what is said of them.
LEMMA SerialQuiet ==
  ASSUME SerialInv, TypeInv', UNCHANGED <<graph, snap, current>>, Kept,
         \A d \in Reviewers : req'[d] # None => req'[d] = req[d] \/ Fresh(req[d])'
  PROVE  SerialInv'
<1>1. ASSUME NEW d \in Reviewers, req'[d] # None PROVE Fresh(req[d])'
  <2>1. CASE req'[d] = req[d]
    <3>1. Request(req[d]) /\ Fresh(req[d])
      BY <1>1, <2>1 DEF SerialInv, TypeInv
    <3>2. PICK r : r = req[d]
      OBVIOUS
    <3>3. Fresh(r)'
      BY <3>1, <3>2, FreshKept DEF SerialInv
    <3> QED
      BY <2>1, <3>2, <3>3
  <2> QED
    BY <1>1, <2>1
<1>2. UNCHANGED <<version, rows, rules, edges, snap, current>>
  BY DEF graph
<1>3. (OneNodePerKey /\ SnapshotIsCurrent /\ NoOppositeEdges)'
  BY <1>2 DEF SerialInv, OneNodePerKey, SnapshotIsCurrent, NoOppositeEdges
<1> QED
  BY <1>1, <1>3 DEF SerialInv

\* An approval that is alone: its new rows have new keys, its edges no reverse, and
\* the snapshot it found is the one it replaces.
LEMMA SerialApprove ==
  ASSUME OneAtATime, SerialInv, NEW d \in Reviewers, Approve(d)
  PROVE  SerialInv'
<1>1. PICK r, at, v : Approving(d, r, at, v)
  BY ApproveWrites DEF SerialInv
<1>2. TypeInv /\ TypeInv' /\ OneNodePerKey /\ SnapshotIsCurrent /\ NoOppositeEdges
  BY ApproveType DEF SerialInv
<1>3. \A c \in Reviewers : req'[c] = None
  BY <1>1, <1>2, FinishKeeps DEF OneAtATime, Approving
<1>4. Fresh(r) /\ r.found = snap[at]
  BY <1>1 DEF SerialInv, Approving, Fresh
<1>5. OneNodePerKey' /\ NoOppositeEdges'
  <2>1. CASE UNCHANGED graph
    BY <1>2, <2>1 DEF OneNodePerKey, NoOppositeEdges, graph
  <2>2. CASE WritesGraph(r, v)
    <3>1. /\ \A x, y \in r.add.rows : x.key = y.key => x = y
          /\ \A x \in r.add.rows : x.key \notin KeysOf(v)
          /\ \A e \in r.add.edges : Reverse(e) \notin edges[v] \cup r.add.edges
          /\ \A e \in r.add.edges : EdgeIn(e, rows[v])
      BY <1>1, <1>4, <2>2 DEF Approving, WritesGraph, Fresh, Fits
    <3>2. /\ rows'[v] = rows[v] \cup r.add.rows
          /\ \A w \in Versions \ {v} : rows'[w] = rows[w]
          /\ edges'[v] = edges[v] \cup r.add.edges
          /\ \A w \in Versions \ {v} : edges'[w] = edges[w]
      BY <1>2, <2>2 DEF WritesGraph, TypeInv
    <3>3. \A x, y \in rows'[v] : x.key = y.key => x = y
      BY <1>2, <2>2, <3>1, <3>2 DEF OneNodePerKey, KeysOf, WritesGraph
    <3>4. ASSUME NEW e \in edges'[v] PROVE Reverse(e) \notin edges'[v]
      <4>1. CASE e \in r.add.edges
        BY <3>1, <3>2, <4>1
      <4>2. CASE e \in edges[v]
        <5>1. Reverse(e) \notin edges[v]
          BY <1>2, <2>2, <4>2 DEF NoOppositeEdges, WritesGraph
        <5>2. Reverse(Reverse(e)) = e
          BY <1>2, <2>2, <4>2 DEF Reverse, TypeInv, EdgeIn, WritesGraph
        <5> QED
          BY <3>1, <3>2, <4>2, <5>1, <5>2
      <4> QED
        BY <3>2, <4>1, <4>2
    <3> QED
      BY <1>2, <3>2, <3>3, <3>4 DEF OneNodePerKey, NoOppositeEdges, Reverse
  <2> QED
    BY <1>1, <2>1, <2>2 DEF Approving
<1>6. SnapshotIsCurrent'
  <2>1. /\ r.run \in RunIds /\ req[d].run = r.run /\ r.run # None
        /\ at \in Stages \X Pins /\ snap[at] \subseteq SnapRow
    BY <1>1, <1>2, PromotionAssumption DEF Approving, Request, TypeInv
  <2>2. PICK S : S = Upserted(d, r.found, snap[at])
    OBVIOUS
  <2>3. /\ snap'[at] = S /\ current'[at] = r.run
        /\ \A o \in Stages \X Pins : o # at => snap'[o] = snap[o] /\ current'[o] = current[o]
    BY <1>1, <1>2, <2>1, <2>2 DEF Approving, TypeInv
  <2>4. {x.source : x \in S} = {r.run} /\ \A x, y \in S : x = y
    <3>1. CASE snap[at] = {}
      <4>1. S = {[by |-> d, source |-> r.run]}
        BY <1>4, <2>1, <2>2, <3>1 DEF Upserted
      <4> QED
        BY <4>1
    <3>2. CASE snap[at] # {}
      <4>1. PICK x \in SnapRow : snap[at] = {x}
        BY <1>2, <2>1, <3>2 DEF SnapshotIsCurrent
      <4>2. S = {[x EXCEPT !.source = r.run]}
        BY <1>4, <2>1, <2>2, <4>1 DEF Upserted
      <4>3. [x EXCEPT !.source = r.run].source = r.run
        BY <4>1 DEF SnapRow
      <4> QED
        BY <4>2, <4>3
    <3> QED
      BY <3>1, <3>2
  <2>5. ASSUME NEW o \in Stages \X Pins
        PROVE  /\ {x.source : x \in snap'[o]} = {current'[o]} \ {None}
               /\ \A x, y \in snap'[o] : x = y
    <3>1. CASE o = at
      BY <2>1, <2>3, <2>4, <3>1
    <3>2. CASE o # at
      BY <1>2, <2>3, <3>2 DEF SnapshotIsCurrent
    <3> QED
      BY <3>1, <3>2
  <2> QED
    BY <2>5 DEF SnapshotIsCurrent
<1> QED
  BY <1>2, <1>3, <1>5, <1>6 DEF SerialInv

LEMMA InitSerial == Init => SerialInv
  BY InitType DEF Init, SerialInv, OneNodePerKey, SnapshotIsCurrent, NoOppositeEdges

LEMMA StepSerial == ASSUME OneAtATime PROVE SerialInv /\ [Next]_vars => SerialInv'
<1> SUFFICES ASSUME SerialInv, [Next]_vars PROVE SerialInv'
  OBVIOUS
<1> USE DEF SerialInv
<1>1. TypeInv /\ TypeInv'
  BY StepType
<1>2. CASE UNCHANGED vars
  <2>1. UNCHANGED <<graph, runs, snap, req, current>> /\ Kept
    BY <1>2 DEF vars, graph, Kept
  <2> QED
    BY <1>1, <2>1, SerialQuiet
<1>3. ASSUME NEW r \in RunIds, NEW stage \in Stages, NEW pin \in Pins,
             NEW artifact \in Artifacts(stage) \cup {None},
             RunStage(r, stage, pin, artifact)
      PROVE  SerialInv'
  <2>1. UNCHANGED <<graph, snap, req, current>> /\ Kept
    BY <1>1, <1>3, RunStageType DEF RunStage
  <2> QED
    BY <1>1, <2>1, SerialQuiet
<1>4. ASSUME NEW d \in Reviewers, NEW r \in RunIds, BeginApprove(d, r)
      PROVE  SerialInv'
  <2>1. /\ Kept /\ UNCHANGED <<graph, snap, current>> /\ Fresh(req[d])'
        /\ \A c \in Reviewers \ {d} : req'[c] = req[c]
    BY <1>1, <1>4, BeginApproveType
  <2>2. \A c \in Reviewers : req'[c] # None => req'[c] = req[c] \/ Fresh(req[c])'
    BY <2>1
  <2> QED
    BY <1>1, <2>1, <2>2, SerialQuiet
<1>5. ASSUME NEW d \in Reviewers, NEW r \in RunIds, BeginReject(d, r)
      PROVE  SerialInv'
  <2>1. /\ Kept /\ UNCHANGED <<graph, snap, current>> /\ Fresh(req[d])'
        /\ \A c \in Reviewers \ {d} : req'[c] = req[c]
    BY <1>1, <1>5, BeginRejectType
  <2>2. \A c \in Reviewers : req'[c] # None => req'[c] = req[c] \/ Fresh(req[c])'
    BY <2>1
  <2> QED
    BY <1>1, <2>1, <2>2, SerialQuiet
<1>6. ASSUME NEW d \in Reviewers, Approve(d) PROVE SerialInv'
  BY <1>6, SerialApprove
<1>7. ASSUME NEW d \in Reviewers, Reject(d) \/ Abort(d) PROVE SerialInv'
  <2>1. /\ Kept /\ UNCHANGED <<graph, snap, current>>
        /\ req'[d] = None /\ \A c \in Reviewers \ {d} : req'[c] = req[c]
    BY <1>1, <1>7, RejectType, AbortType, FinishKeeps DEF Reject, Abort, TypeInv
  <2> QED
    BY <1>1, <2>1, SerialQuiet
<1>8. ASSUME NEW d \in Reviewers, NEW v \in Versions, Publish(d, v) PROVE SerialInv'
  <2>1. UNCHANGED <<rows, rules, edges, runs, snap, req, current>> /\ req[d] = None
    BY <1>8 DEF Publish
  <2>2. \A c \in Reviewers : req'[c] = None
    BY <2>1 DEF OneAtATime
  <2>3. (OneNodePerKey /\ SnapshotIsCurrent /\ NoOppositeEdges)'
    BY <2>1 DEF OneNodePerKey, SnapshotIsCurrent, NoOppositeEdges
  <2> QED
    BY <1>1, <2>2, <2>3
<1>9. CASE Next
  BY <1>3, <1>4, <1>5, <1>6, <1>7, <1>8, <1>9 DEF Next
<1> QED
  BY <1>2, <1>9

LEMMA SerialInvariance == ASSUME OneAtATime PROVE Spec => []SerialInv
<1>1. Init => SerialInv
  BY InitSerial
<1>2. SerialInv /\ [Next]_vars => SerialInv'
  BY StepSerial
<1> QED
  BY <1>1, <1>2, PTL DEF Spec

\* While reviews come one at a time, promotion is idempotent for nodes, whatever
\* the artifacts, the runs and their versions: promoting again never adds a second
\* node with a key that is there.
THEOREM OneNodePerKeySerial == ASSUME OneAtATime PROVE Spec => []OneNodePerKey
<1>1. SerialInv => OneNodePerKey
  BY DEF SerialInv
<1> QED
  BY <1>1, SerialInvariance, PTL

\* While reviews come one at a time, each stage and version has one artifact of
\* record: that of the run approved last.
THEOREM SnapshotIsCurrentSerial == ASSUME OneAtATime PROVE Spec => []SnapshotIsCurrent
<1>1. SerialInv => SnapshotIsCurrent
  BY DEF SerialInv
<1> QED
  BY <1>1, SerialInvariance, PTL

\* While reviews come one at a time, no artifact, alone or after others, joins two
\* nodes both ways by edges of one type.
THEOREM NoOppositeEdgesSerial == ASSUME OneAtATime PROVE Spec => []NoOppositeEdges
<1>1. SerialInv => NoOppositeEdges
  BY DEF SerialInv
<1> QED
  BY <1>1, SerialInvariance, PTL

SparesPublished ==
    \A d \in Reviewers, v \in Versions :
        /\ version[v] = "published"
        /\ req[d] # None /\ req'[d] = None /\ runs[req[d].run].pin = 0
        => rows'[v] = rows[v] /\ rules'[v] = rules[v] /\ edges'[v] = edges[v]

LEMMA StepSparesPublished ==
  ASSUME OneAtATime PROVE SerialInv /\ [Next]_vars => SparesPublished
<1> SUFFICES ASSUME SerialInv, [Next]_vars,
                    NEW d \in Reviewers, NEW v \in Versions,
                    version[v] = "published", req[d] # None, req'[d] = None,
                    runs[req[d].run].pin = 0
             PROVE  rows'[v] = rows[v] /\ rules'[v] = rules[v] /\ edges'[v] = edges[v]
  BY DEF SparesPublished
<1>1. \A c \in Reviewers : c = d
  BY DEF OneAtATime
<1>2. CASE ~Approve(d)
  <2>1. UNCHANGED <<rows, rules, edges>>
    BY <1>1, <1>2 DEF Next, vars, graph, RunStage, BeginApprove, BeginReject, Reject,
       Abort, Publish
  <2> QED
    BY <2>1
<1>3. CASE Approve(d)
  <2>1. PICK r, at, w : Approving(d, r, at, w)
    BY <1>3, ApproveWrites DEF SerialInv
  <2>2. CASE UNCHANGED graph
    BY <2>2 DEF graph
  <2>3. CASE WritesGraph(r, w)
    <3>1. version[w] # "published"
      BY <2>1, <2>3 DEF Approving, SerialInv, Fresh, WritesGraph
    <3> QED
      BY <2>3, <3>1 DEF WritesGraph, SerialInv, TypeInv
  <2> QED
    BY <2>1, <2>2, <2>3 DEF Approving
<1> QED
  BY <1>2, <1>3

\* While reviews come one at a time, approving or rejecting a run that names no
\* version leaves the nodes, rules and edges of every published version alone.
THEOREM UnpinnedSparesPublishedSerial ==
  ASSUME OneAtATime PROVE Spec => UnpinnedSparesPublished
<1>1. SerialInv /\ [Next]_vars => [SparesPublished]_vars
  BY StepSparesPublished
<1> QED
  BY <1>1, SerialInvariance, PTL DEF Spec, UnpinnedSparesPublished, SparesPublished
=============================================================================
