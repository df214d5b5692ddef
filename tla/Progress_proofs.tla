--------------------------- MODULE Progress_proofs ---------------------------
(***************************************************************************)
(* Proofs about Progress for every graph, every mastery rule, every set of *)
(* scores and every number of requests in flight.                          *)
(*                                                                         *)
(* GateSound alone is not inductive: a request decides what to unlock in   *)
(* Scan and writes it in Commit, so the invariant must say what a request  *)
(* that has scanned knows (UnlockBacked), why the mastery it is about to   *)
(* commit is justified (WriteBacked), and how the committed rows and       *)
(* records hang together (RowsBacked).                                     *)
(***************************************************************************)
EXTENDS Progress, TLAPS

USE DEF Row, Record, Idle, Active, NodeStates, CompletedStates

RowsBacked ==
    \A n \in Nodes :
        /\ row[n].state \in CompletedStates => row[n].done
        /\ row[n].state = "mastered" => n \in proven
        /\ record[n] # NoRecord =>
              /\ record[n].score >= Threshold[n] => record[n].status = "mastered"
              /\ record[n].status = "mastered" => n \in proven

Wrote(r) == req[r].phase \in {"written", "scanned"}

NodeOpen(r) == req[r].phase # "idle" => row[req[r].node].state # "locked"

WriteBacked(r) ==
    Wrote(r) =>
        /\ req[r].put # "locked"
        /\ req[r].mine \in CompletedStates
        /\ req[r].mine = "mastered" => req[r].put = "mastered"
        /\ req[r].put = "mastered" =>
              \/ req[r].node \in proven
              \/ req[r].node \notin Explicit
              \/ Meets(req[r].node, req[r].score)
        /\ (req[r].node \notin Explicit \/ Meets(req[r].node, req[r].score))
              => req[r].put = "mastered"
        /\ req[r].rec # NoRecord =>
              /\ req[r].rec.score >= Threshold[req[r].node] => req[r].rec.status = "mastered"
              /\ req[r].rec.status = "mastered" => req[r].put = "mastered"

UnlockBacked(r) ==
    req[r].phase = "scanned" =>
        \A m \in req[r].unlock :
            /\ m # req[r].node
            /\ \A p \in Nodes : <<p, m>> \in Requires => row[p].done \/ p = req[r].node
            /\ \A p \in Nodes : <<p, m>> \in Gates =>
                   p \in proven \/ (p = req[r].node /\ req[r].put = "mastered")

RequestsBacked ==
    \A r \in Requests : NodeOpen(r) /\ WriteBacked(r) /\ UnlockBacked(r)

IInv == TypeOK /\ RowsBacked /\ RequestsBacked /\ GateSound
-----------------------------------------------------------------------------
\* The initial state satisfies the invariant: nothing is completed, and a
\* node starts open only if it has no locking edge.
LEMMA InitIInv == Init => IInv
<1> SUFFICES ASSUME Init PROVE IInv
  OBVIOUS
<1>1. TypeOK
  BY DEF Init, TypeOK
<1>2. RowsBacked
  BY DEF Init, RowsBacked
<1>3. RequestsBacked
  BY DEF Init, RequestsBacked, NodeOpen, WriteBacked, UnlockBacked, Wrote
<1>4. GateSound
  BY GraphAssumption DEF Init, GateSound, HasPrereqs
<1> QED
  BY <1>1, <1>2, <1>3, <1>4 DEF IInv

\* A request that starts has read a row that is not locked.
LEMMA LoadIInv ==
    ASSUME IInv, NEW r \in Requests, NEW n \in Nodes,
           NEW s \in Scores \cup {NoScore}, Load(r, n, s)
    PROVE  IInv'
<1> USE DEF IInv, Load
<1>1. TypeOK'
  BY DEF TypeOK
<1>2. RowsBacked'
  BY DEF RowsBacked
<1>3. RequestsBacked'
  BY DEF TypeOK, RequestsBacked, NodeOpen, WriteBacked, UnlockBacked, Wrote
<1>4. GateSound'
  BY DEF GateSound
<1> QED
  BY <1>1, <1>2, <1>3, <1>4

\* The mastery verdict of a write is justified by the score, by the absence
\* of a rule, or by a mastery that is already committed.
LEMMA WriteIInv ==
    ASSUME IInv, NEW r \in Requests, Write(r)
    PROVE  IInv'
<1> DEFINE n == req[r].node
           s == req[r].score
           rec == Upsert(n, s, record[n])
           won == EvaluateMastery(n, s, rec)
<1> USE DEF IInv
<1>1. req[r] \in Active /\ req[r].phase = "loaded"
  BY DEF Write, TypeOK
<1>2. n \in Nodes /\ s \in Scores \cup {NoScore} /\ record[n] \in Record \cup {NoRecord}
  BY <1>1 DEF TypeOK
<1>3. rec \in Record \cup {NoRecord}
  BY <1>2 DEF Upsert, Graded
<1>4. rec # NoRecord =>
        /\ rec.score >= Threshold[n] => rec.status = "mastered"
        /\ rec.status = "mastered" => n \in proven \/ Meets(n, s)
  <2>1. CASE s = NoScore
    BY <2>1, <1>2 DEF Upsert, RowsBacked
  <2>2. CASE s # NoScore
    BY <2>2, <1>2 DEF Upsert, Graded, Meets
  <2> QED
    BY <2>1, <2>2
<1>5. /\ rec # NoRecord /\ rec.status = "mastered" => won
      /\ n \notin Explicit \/ Meets(n, s) => won
      /\ won => n \in proven \/ n \notin Explicit \/ Meets(n, s)
  BY <1>4 DEF EvaluateMastery
<1>6. req'[r] = [req[r] EXCEPT
                   !.phase = "written", !.rec = rec,
                   !.mine = IF won THEN "mastered" ELSE "completed",
                   !.put = IF won THEN "mastered"
                           ELSE IF req[r].mine = "completed" THEN row[n].state
                           ELSE "completed"]
  BY DEF Write, TypeOK
<1>7. \A q \in Requests \ {r} : req'[q] = req[q]
  BY DEF Write, TypeOK
<1>8. UNCHANGED <<row, record, proven>>
  BY DEF Write
<1>9. row[n] \in Row
  BY <1>2 DEF TypeOK
<1> HIDE DEF n, s, rec, won
<1>10. TypeOK'
  <2>1. req'[r] \in Active
    BY <1>1, <1>3, <1>6, <1>9
  <2>2. req' \in [Requests -> {Idle} \cup Active]
    BY <2>1, <1>7 DEF TypeOK, Write
  <2> QED
    BY <2>2, <1>8 DEF TypeOK
<1>11. RowsBacked' /\ GateSound'
  BY <1>8 DEF RowsBacked, GateSound
<1>12. RequestsBacked'
  <2>1. /\ req'[r].phase = "written"
        /\ req'[r].node = n
        /\ req'[r].score = s
        /\ req'[r].rec = rec
        /\ req'[r].mine = IF won THEN "mastered" ELSE "completed"
        /\ req'[r].put = IF won THEN "mastered"
                         ELSE IF req[r].mine = "completed" THEN row[n].state
                         ELSE "completed"
    BY <1>1, <1>6 DEF n, s
  <2>2. row[n].state # "locked" /\ (row[n].state = "mastered" => n \in proven)
    BY <1>1, <1>2 DEF RequestsBacked, NodeOpen, RowsBacked, n
  <2>3. NodeOpen(r)' /\ UnlockBacked(r)'
    BY <2>1, <2>2, <1>8 DEF NodeOpen, UnlockBacked
  <2>4. WriteBacked(r)'
    BY <2>1, <2>2, <1>4, <1>5, <1>8 DEF WriteBacked, Wrote, Meets
  <2>5. ASSUME NEW q \in Requests \ {r}
        PROVE  NodeOpen(q)' /\ WriteBacked(q)' /\ UnlockBacked(q)'
    BY <1>7, <1>8 DEF RequestsBacked, NodeOpen, WriteBacked, UnlockBacked, Wrote, Meets
  <2> QED
    BY <2>3, <2>4, <2>5 DEF RequestsBacked
<1> QED
  BY <1>10, <1>11, <1>12

\* What a request decides to unlock is backed by committed completions and
\* masteries, or by those of its own node.
LEMMA ScanIInv ==
    ASSUME IInv, NEW r \in Requests, Scan(r)
    PROVE  IInv'
<1> USE DEF IInv
<1>1. req[r] \in Active /\ req[r].phase = "written"
  BY DEF Scan, TypeOK
<1>2. req'[r] = [req[r] EXCEPT !.phase = "scanned", !.unlock = Unlockable(View(r))]
  BY DEF Scan, TypeOK
<1>3. \A q \in Requests \ {r} : req'[q] = req[q]
  BY DEF Scan, TypeOK
<1>4. UNCHANGED <<row, record, proven>>
  BY DEF Scan
<1>5. TypeOK'
  <2>1. Unlockable(View(r)) \in SUBSET Nodes
    BY DEF Unlockable
  <2>2. req'[r] \in Active
    BY <1>1, <1>2, <2>1
  <2>3. req' \in [Requests -> {Idle} \cup Active]
    BY <2>2, <1>3 DEF TypeOK, Scan
  <2> QED
    BY <2>3, <1>4 DEF TypeOK
<1>6. RowsBacked' /\ GateSound'
  BY <1>4 DEF RowsBacked, GateSound
<1>7. RequestsBacked'
  <2>1. /\ req'[r].phase = "scanned"
        /\ req'[r].node = req[r].node
        /\ req'[r].score = req[r].score
        /\ req'[r].mine = req[r].mine
        /\ req'[r].put = req[r].put
        /\ req'[r].rec = req[r].rec
        /\ req'[r].unlock = Unlockable(View(r))
    BY <1>1, <1>2
  <2>2. NodeOpen(r)' /\ WriteBacked(r)'
    BY <2>1, <1>1, <1>4 DEF RequestsBacked, NodeOpen, WriteBacked, Wrote, Meets
  <2>3. UnlockBacked(r)'
    <3>1. req[r].node \in Nodes /\ req[r].mine \in CompletedStates
          /\ (req[r].mine = "mastered" => req[r].put = "mastered")
      BY <1>1 DEF RequestsBacked, WriteBacked, Wrote
    <3>2. SUFFICES ASSUME NEW m \in Unlockable(View(r))
                   PROVE /\ m # req[r].node
                         /\ \A p \in Nodes : <<p, m>> \in Requires =>
                                row[p].done \/ p = req[r].node
                         /\ \A p \in Nodes : <<p, m>> \in Gates =>
                                p \in proven \/ (p = req[r].node /\ req[r].put = "mastered")
      BY <2>1, <1>4 DEF UnlockBacked
    <3>3. m \in Nodes /\ View(r)[m] = "locked" /\ PrereqsMet(m, View(r))
      BY <3>2 DEF Unlockable
    <3>4. \A p \in Nodes : View(r)[p] = IF p = req[r].node THEN req[r].mine ELSE row[p].state
      BY DEF View
    <3>5. m # req[r].node
      BY <3>1, <3>3, <3>4
    <3>6. ASSUME NEW p \in Nodes, <<p, m>> \in Requires
          PROVE  row[p].done \/ p = req[r].node
      BY <3>3, <3>4, <3>6 DEF PrereqsMet, RowsBacked
    <3>7. ASSUME NEW p \in Nodes, <<p, m>> \in Gates
          PROVE  p \in proven \/ (p = req[r].node /\ req[r].put = "mastered")
      BY <3>1, <3>3, <3>4, <3>7 DEF PrereqsMet, RowsBacked
    <3> QED
      BY <3>5, <3>6, <3>7
  <2>4. ASSUME NEW q \in Requests \ {r}
        PROVE  NodeOpen(q)' /\ WriteBacked(q)' /\ UnlockBacked(q)'
    BY <1>3, <1>4 DEF RequestsBacked, NodeOpen, WriteBacked, UnlockBacked, Wrote, Meets
  <2> QED
    BY <2>2, <2>3, <2>4 DEF RequestsBacked
<1> QED
  BY <1>5, <1>6, <1>7

\* What a commit does to the tables, in the terms the later proofs use.
LEMMA CommitEffect ==
    ASSUME IInv, NEW r \in Requests, Commit(r)
    PROVE  LET n == req[r].node IN
           /\ req[r] \in Active /\ req[r].phase = "scanned" /\ n \in Nodes
           /\ row' \in [Nodes -> Row]
           /\ row'[n] = [state |-> req[r].put, done |-> TRUE]
           /\ \A m \in Nodes \ {n} :
                  /\ row'[m].done = row[m].done
                  /\ row'[m].state = IF m \in req[r].unlock THEN "available" ELSE row[m].state
           /\ record' = [record EXCEPT ![n] = req[r].rec]
           /\ proven' = IF req[r].put = "mastered" THEN proven \cup {n} ELSE proven
           /\ req' = [req EXCEPT ![r] = Idle]
<1> USE DEF IInv
<1>1. req[r] \in Active /\ req[r].phase = "scanned" /\ req[r].node \in Nodes
  BY DEF Commit, TypeOK
<1>2. row' \in [Nodes -> Row]
  BY <1>1 DEF Commit, TypeOK
<1>3. row'[req[r].node] = [state |-> req[r].put, done |-> TRUE]
  BY <1>1 DEF Commit, TypeOK
<1>4. ASSUME NEW m \in Nodes \ {req[r].node}
      PROVE  /\ row'[m].done = row[m].done
             /\ row'[m].state = IF m \in req[r].unlock THEN "available" ELSE row[m].state
  <2>1. row[m] \in Row
    BY DEF TypeOK
  <2>2. row'[m] = IF m \in req[r].unlock THEN [row[m] EXCEPT !.state = "available"] ELSE row[m]
    BY DEF Commit
  <2> QED
    BY <2>1, <2>2
<1> QED
  BY <1>1, <1>2, <1>3, <1>4 DEF Commit

\* A commit keeps the invariant: what it opens is backed by what it, or an
\* earlier commit, has made permanent.
LEMMA CommitIInv ==
    ASSUME IInv, NEW r \in Requests, Commit(r)
    PROVE  IInv'
<1> DEFINE n == req[r].node
<1> USE DEF IInv
<1>1. /\ req[r] \in Active /\ req[r].phase = "scanned" /\ n \in Nodes
      /\ row' \in [Nodes -> Row]
      /\ row'[n] = [state |-> req[r].put, done |-> TRUE]
      /\ \A m \in Nodes \ {n} :
             /\ row'[m].done = row[m].done
             /\ row'[m].state = IF m \in req[r].unlock THEN "available" ELSE row[m].state
      /\ record' = [record EXCEPT ![n] = req[r].rec]
      /\ proven' = IF req[r].put = "mastered" THEN proven \cup {n} ELSE proven
      /\ req' = [req EXCEPT ![r] = Idle]
  BY CommitEffect
<1>2. WriteBacked(r) /\ UnlockBacked(r) /\ Wrote(r)
  BY <1>1 DEF RequestsBacked, Wrote
<1>3. /\ \A m \in Nodes : row[m].done => row'[m].done
      /\ \A m \in Nodes : row[m].state # "locked" => row'[m].state # "locked"
      /\ proven \subseteq proven'
  BY <1>1, <1>2 DEF WriteBacked
<1>4. TypeOK'
  BY <1>1 DEF TypeOK
<1>5. RowsBacked'
  <2> SUFFICES ASSUME NEW m \in Nodes
               PROVE
        /\ row'[m].state \in CompletedStates => row'[m].done
        /\ row'[m].state = "mastered" => m \in proven'
        /\ record'[m] # NoRecord =>
              /\ record'[m].score >= Threshold[m] => record'[m].status = "mastered"
              /\ record'[m].status = "mastered" => m \in proven'
    BY DEF RowsBacked
  <2>1. CASE m = n
    <3>1. record'[n] = req[r].rec
      BY <1>1 DEF TypeOK
    <3> QED
      BY <2>1, <3>1, <1>1, <1>2 DEF WriteBacked
  <2>2. CASE m # n
    <3>1. record'[m] = record[m]
      BY <2>2, <1>1 DEF TypeOK
    <3> QED
      BY <2>2, <3>1, <1>1, <1>3 DEF RowsBacked
  <2> QED
    BY <2>1, <2>2
<1>6. RequestsBacked'
  <2>1. req'[r] = Idle
    BY <1>1 DEF TypeOK
  <2>2. NodeOpen(r)' /\ WriteBacked(r)' /\ UnlockBacked(r)'
    BY <2>1 DEF NodeOpen, WriteBacked, UnlockBacked, Wrote
  <2>3. ASSUME NEW q \in Requests \ {r}
        PROVE  NodeOpen(q)' /\ WriteBacked(q)' /\ UnlockBacked(q)'
    <3>1. req'[q] = req[q] /\ NodeOpen(q) /\ WriteBacked(q) /\ UnlockBacked(q)
      BY <1>1 DEF TypeOK, RequestsBacked
    <3>2. req[q].phase # "idle" => req[q] \in Active
      BY DEF TypeOK
    <3>3. NodeOpen(q)'
      BY <3>1, <3>2, <1>3 DEF NodeOpen
    <3>4. WriteBacked(q)'
      BY <3>1, <1>3 DEF WriteBacked, Wrote, Meets
    <3>5. UnlockBacked(q)'
      BY <3>1, <1>3 DEF UnlockBacked
    <3> QED
      BY <3>3, <3>4, <3>5
  <2> QED
    BY <2>2, <2>3 DEF RequestsBacked
<1>7. GateSound'
  <2> SUFFICES ASSUME NEW m \in Nodes, row'[m].state # "locked", NEW p \in Nodes
               PROVE  /\ <<p, m>> \in Requires => row'[p].done
                      /\ <<p, m>> \in Gates => p \in proven'
    BY DEF GateSound
  <2>1. CASE row[m].state # "locked"
    BY <2>1, <1>3 DEF GateSound
  <2>2. CASE row[m].state = "locked"
    <3>1. m \in req[r].unlock
      BY <2>2, <1>1 DEF RequestsBacked, NodeOpen
    <3> QED
      BY <3>1, <1>1, <1>2, <1>3 DEF UnlockBacked
  <2> QED
    BY <2>1, <2>2
<1> QED
  BY <1>4, <1>5, <1>6, <1>7

\* A rollback leaves no trace in the tables.
LEMMA AbortIInv ==
    ASSUME IInv, NEW r \in Requests, Abort(r)
    PROVE  IInv'
<1> USE DEF IInv, Abort
<1>1. TypeOK'
  BY DEF TypeOK
<1>2. RowsBacked' /\ GateSound'
  BY DEF RowsBacked, GateSound
<1>3. RequestsBacked'
  BY DEF TypeOK, RequestsBacked, NodeOpen, WriteBacked, UnlockBacked, Wrote, Meets
<1> QED
  BY <1>1, <1>2, <1>3

\* Nothing happens, nothing changes.
LEMMA StutterIInv == IInv /\ UNCHANGED vars => IInv'
  BY DEF IInv, vars, TypeOK, RowsBacked, RequestsBacked, GateSound,
         NodeOpen, WriteBacked, UnlockBacked, Wrote, Meets

\* IInv is an invariant of the specification.
THEOREM Invariance == Spec => []IInv
<1>1. IInv /\ [Next]_vars => IInv'
  <2> SUFFICES ASSUME IInv, [Next]_vars PROVE IInv'
    OBVIOUS
  <2>1. ASSUME NEW r \in Requests, NEW n \in Nodes, NEW s \in Scores \cup {NoScore},
               Load(r, n, s)
        PROVE  IInv'
    BY <2>1, LoadIInv
  <2>2. ASSUME NEW r \in Requests, Serve(r) PROVE IInv'
    BY <2>2, WriteIInv, ScanIInv, CommitIInv DEF Serve
  <2>3. ASSUME NEW r \in Requests, Abort(r) PROVE IInv'
    BY <2>3, AbortIInv
  <2>4. CASE UNCHANGED vars
    BY <2>4, StutterIInv
  <2> QED
    BY <2>1, <2>2, <2>3, <2>4 DEF Next
<1> QED
  BY InitIInv, <1>1, PTL DEF Spec

\* The rows, records and requests of an enrollment keep their types under
\* every interleaving of complete_node requests.
THEOREM TypeCorrect == Spec => []TypeOK
<1>1. IInv => TypeOK
  BY DEF IInv
<1> QED
  BY <1>1, Invariance, PTL

\* No node opens early, for every graph and any number of concurrent
\* requests: _unlock_nodes (enrollment/service.py:480) is safe although it
\* reads rows that other requests are changing.
THEOREM GatesHold == Spec => []GateSound
<1>1. IInv => GateSound
  BY DEF IInv
<1> QED
  BY <1>1, Invariance, PTL
-----------------------------------------------------------------------------
\* The refinement mapping, written out.
OpenNodes == {n \in Nodes : row[n].state # "locked"}
FinishedNodes == {n \in Nodes : row[n].done}

\* A request that has not committed is invisible to the abstract promise.
LEMMA InvisibleStep ==
    ASSUME UNCHANGED <<row, record, proven>>
    PROVE  UNCHANGED Promise!vars
BY DEF Promise!vars

\* A commit is one abstract Finish of the request's node: the nodes it opens
\* have met prerequisites and its mastery has evidence.
LEMMA CommitIsFinish ==
    ASSUME IInv, NEW r \in Requests, Commit(r)
    PROVE  Promise!Next
<1>0. req[r].node \in Nodes /\ req[r].score \in Scores \cup {NoScore}
  BY CommitEffect DEF IInv
<1> SUFFICES ASSUME NEW n \in Nodes, NEW s \in Scores \cup {NoScore},
                    n = req[r].node, s = req[r].score
             PROVE  Promise!Finish(n, s)
  BY <1>0 DEF Promise!Next
<1>1. /\ req[r] \in Active /\ req[r].phase = "scanned"
      /\ row' \in [Nodes -> Row]
      /\ row'[n] = [state |-> req[r].put, done |-> TRUE]
      /\ \A m \in Nodes \ {n} :
             /\ row'[m].done = row[m].done
             /\ row'[m].state = IF m \in req[r].unlock THEN "available" ELSE row[m].state
      /\ proven' = IF req[r].put = "mastered" THEN proven \cup {n} ELSE proven
  BY CommitEffect
<1>2. NodeOpen(r) /\ WriteBacked(r) /\ UnlockBacked(r) /\ Wrote(r)
  BY <1>1 DEF IInv, RequestsBacked, Wrote
<1>3. n \in OpenNodes
  BY <1>1, <1>2 DEF NodeOpen, OpenNodes
<1>4. FinishedNodes' = FinishedNodes \cup {n}
  BY <1>1 DEF FinishedNodes
<1>5. s \in [m \in Nodes |-> {x \in Scores : Meets(m, x)}][n] <=> Meets(n, s)
  BY DEF Meets
<1>6. proven' = IF n \notin Explicit \/ s \in [m \in Nodes |-> {x \in Scores : Meets(m, x)}][n]
                THEN proven \cup {n} ELSE proven
  <2>1. CASE n \notin Explicit \/ Meets(n, s)
    BY <2>1, <1>1, <1>2, <1>5 DEF WriteBacked
  <2>2. CASE ~(n \notin Explicit \/ Meets(n, s))
    <3>1. req[r].put = "mastered" => n \in proven
      BY <2>2, <1>2 DEF WriteBacked
    <3>2. proven' = proven
      BY <3>1, <1>1
    <3> QED
      BY <3>2, <2>2, <1>5
  <2> QED
    BY <2>1, <2>2
<1>7. OpenNodes' = OpenNodes \cup (req[r].unlock \cap Nodes)
  <2>1. ASSUME NEW m \in Nodes
        PROVE  row'[m].state # "locked" <=> row[m].state # "locked" \/ m \in req[r].unlock
    <3>1. CASE m = n
      BY <3>1, <1>1, <1>2 DEF WriteBacked, NodeOpen
    <3>2. CASE m # n
      BY <3>2, <1>1
    <3> QED
      BY <3>1, <3>2
  <2> QED
    BY <2>1 DEF OpenNodes
<1>8. req[r].unlock \cap Nodes \in
         SUBSET {m \in Nodes : Promise!Met(m, FinishedNodes', proven')}
  BY <1>1, <1>2, <1>4 DEF UnlockBacked, FinishedNodes, Promise!Met
<1>9. Promise!Finish(n, s)
  BY <1>3, <1>4, <1>6, <1>7, <1>8 DEF Promise!Finish, OpenNodes, FinishedNodes
<1> QED
  BY <1>9

\* The traversal implements the abstract promise of Gating.tla, for every
\* graph and every number of concurrent requests.
THEOREM Refinement == Spec => ImplementsGating
<1>1. Init => Promise!Init
  <2> SUFFICES ASSUME Init PROVE Promise!Init
    OBVIOUS
  <2>1. ASSUME NEW n \in Nodes
        PROVE  (row[n].state # "locked" <=> ~HasPrereqs(n)) /\ ~row[n].done
    BY DEF Init
  <2>2. {n \in Nodes : row[n].state # "locked"} = {n \in Nodes : ~Promise!Gated(n)}
    BY <2>1 DEF HasPrereqs, Promise!Gated
  <2>3. {n \in Nodes : row[n].done} = {}
    BY <2>1
  <2> QED
    BY <2>2, <2>3 DEF Init, Promise!Init
<1>2. IInv /\ [Next]_vars => [Promise!Next]_Promise!vars
  <2> SUFFICES ASSUME IInv, [Next]_vars
               PROVE  Promise!Next \/ UNCHANGED Promise!vars
    OBVIOUS
  <2>1. ASSUME NEW r \in Requests, NEW n \in Nodes, NEW s \in Scores \cup {NoScore},
               Load(r, n, s)
        PROVE  UNCHANGED Promise!vars
    BY <2>1, InvisibleStep DEF Load
  <2>2. ASSUME NEW r \in Requests, Write(r) \/ Scan(r) \/ Abort(r)
        PROVE  UNCHANGED Promise!vars
    BY <2>2, InvisibleStep DEF Write, Scan, Abort
  <2>3. ASSUME NEW r \in Requests, Commit(r) PROVE Promise!Next
    BY <2>3, CommitIsFinish
  <2>4. CASE UNCHANGED vars
    BY <2>4, InvisibleStep DEF vars
  <2> QED
    BY <2>1, <2>2, <2>3, <2>4 DEF Next, Serve
<1> QED
  BY <1>1, <1>2, Invariance, PTL DEF Spec, ImplementsGating, Promise!Spec
-----------------------------------------------------------------------------
(* One request at a time: what a request has read is still what is there.  *)
OneAtATime == \A q, r \in Requests : q = r

States == [p \in Nodes |-> row[p].state]

UpToDate(r) ==
    /\ req[r].phase = "loaded" => req[r].mine = row[req[r].node].state
    /\ Wrote(r) =>
          /\ req[r].put = req[r].mine
          /\ req[r].node \in Explicit =>
                (req[r].put = "mastered" <=>
                    req[r].rec # NoRecord /\ req[r].rec.status = "mastered")
    /\ req[r].phase = "scanned" => req[r].unlock = Unlockable(View(r))

NoneLeft == \A n \in Nodes : row[n].state = "locked" => ~PrereqsMet(n, States)

SerialInv ==
    /\ \A r \in Requests : UpToDate(r)
    /\ NoneLeft
    /\ EvidenceAgrees

\* An enrollment starts with a locked row exactly where there is a locking edge.
LEMMA InitSerialInv == Init => SerialInv
<1> SUFFICES ASSUME Init PROVE SerialInv
  OBVIOUS
<1>1. \A r \in Requests : UpToDate(r)
  BY DEF Init, UpToDate, Wrote
<1>2. NoneLeft
  <2> SUFFICES ASSUME NEW n \in Nodes, row[n].state = "locked"
               PROVE  ~PrereqsMet(n, States)
    BY DEF NoneLeft
  <2>1. PICK p \in Nodes : <<p, n>> \in Requires \cup Gates
    BY DEF Init, HasPrereqs
  <2>2. States[p] \in {"locked", "available"}
    BY DEF Init, States
  <2> QED
    BY <2>1, <2>2 DEF PrereqsMet
<1>3. EvidenceAgrees
  BY GraphAssumption DEF Init, EvidenceAgrees
<1> QED
  BY <1>1, <1>2, <1>3 DEF SerialInv

\* A write that is alone decides mastery from the record it leaves.
LEMMA WriteUpToDate ==
    ASSUME OneAtATime, IInv, SerialInv, NEW r \in Requests, Write(r)
    PROVE  UpToDate(r)'
<1> DEFINE n == req[r].node
           s == req[r].score
           rec == Upsert(n, s, record[n])
           won == EvaluateMastery(n, s, rec)
           end == IF won THEN "mastered" ELSE "completed"
<1>1. /\ req[r] \in Active /\ req[r].phase = "loaded" /\ req[r].mine = row[n].state
      /\ n \in Nodes /\ s \in Scores \cup {NoScore} /\ record[n] \in Record \cup {NoRecord}
  BY DEF Write, IInv, TypeOK, SerialInv, UpToDate
<1>2. rec # NoRecord /\ rec.score >= Threshold[n] => rec.status = "mastered"
  <2>1. CASE s = NoScore
    BY <2>1, <1>1 DEF Upsert, IInv, RowsBacked
  <2>2. CASE s # NoScore
    BY <2>2, <1>1 DEF Upsert, Graded, Meets
  <2> QED
    BY <2>1, <2>2
<1>3. Meets(n, s) => rec # NoRecord /\ rec.status = "mastered"
  BY <1>1, RecordAssumption DEF Meets, Upsert, Graded
<1>4. n \in Explicit => (won <=> rec # NoRecord /\ rec.status = "mastered")
  BY <1>2, <1>3 DEF EvaluateMastery
<1>5. req'[r] = [req[r] EXCEPT
                   !.phase = "written", !.rec = rec, !.mine = end,
                   !.put = IF won THEN "mastered"
                           ELSE IF req[r].mine = "completed" THEN row[n].state
                           ELSE "completed"]
  BY DEF Write, IInv, TypeOK
<1> HIDE DEF n, s, rec, won
<1>6. /\ req'[r].phase = "written" /\ req'[r].node = n /\ req'[r].rec = rec
      /\ req'[r].mine = end /\ req'[r].put = end
  BY <1>1, <1>5 DEF n
<1>7. end = "mastered" <=> won
  OBVIOUS
<1> QED
  BY <1>4, <1>6, <1>7 DEF UpToDate, Wrote

\* A commit that is alone opens every node whose prerequisites it has met.
LEMMA CommitSerialInv ==
    ASSUME OneAtATime, IInv, SerialInv, NEW r \in Requests, Commit(r)
    PROVE  SerialInv'
<1> DEFINE n == req[r].node
<1>1. /\ req[r] \in Active /\ req[r].phase = "scanned" /\ n \in Nodes
      /\ row' \in [Nodes -> Row]
      /\ row'[n] = [state |-> req[r].put, done |-> TRUE]
      /\ \A m \in Nodes \ {n} :
             /\ row'[m].done = row[m].done
             /\ row'[m].state = IF m \in req[r].unlock THEN "available" ELSE row[m].state
      /\ record' = [record EXCEPT ![n] = req[r].rec]
      /\ req' = [req EXCEPT ![r] = Idle]
  BY CommitEffect
<1>2. UpToDate(r) /\ Wrote(r) /\ req[r].put = req[r].mine
  BY <1>1 DEF SerialInv, UpToDate, Wrote
<1>3. req[r].unlock = Unlockable(View(r)) /\ req[r].put \in CompletedStates
  BY <1>1, <1>2 DEF UpToDate, IInv, RequestsBacked, WriteBacked
<1>4. \A q \in Requests : UpToDate(q)'
  BY <1>1 DEF OneAtATime, IInv, TypeOK, UpToDate, Wrote
<1>5. \A m \in Nodes :
         /\ View(r)[m] = IF m = n THEN req[r].put ELSE row[m].state
         /\ row'[m].state = IF m \in req[r].unlock /\ m # n THEN "available" ELSE View(r)[m]
  BY <1>1, <1>2 DEF View
<1>6. \A m \in req[r].unlock : View(r)[m] = "locked"
  BY <1>3 DEF Unlockable
<1>7. NoneLeft'
  <2> SUFFICES ASSUME NEW m \in Nodes, row'[m].state = "locked"
               PROVE  ~PrereqsMet(m, [p \in Nodes |-> row'[p].state])
    BY DEF NoneLeft, States
  <2>1. View(r)[m] = "locked" /\ m \notin req[r].unlock
    BY <1>3, <1>5
  <2>2. ~PrereqsMet(m, View(r))
    BY <1>3, <2>1 DEF Unlockable
  <2>3. \A p \in Nodes : /\ row'[p].state = "mastered" => View(r)[p] = "mastered"
                         /\ row'[p].state \in CompletedStates => View(r)[p] \in CompletedStates
    BY <1>5
  <2> QED
    BY <2>2, <2>3 DEF PrereqsMet
<1>8. EvidenceAgrees'
  <2> SUFFICES ASSUME NEW m \in Explicit
               PROVE  row'[m].state = "mastered" <=>
                          record'[m] # NoRecord /\ record'[m].status = "mastered"
    BY DEF EvidenceAgrees
  <2>1. m \in Nodes
    BY GraphAssumption
  <2>2. CASE m = n
    <3>1. record'[m] = req[r].rec
      BY <1>1, <2>2 DEF IInv, TypeOK
    <3> QED
      BY <1>1, <1>2, <2>2, <3>1 DEF UpToDate
  <2>3. CASE m # n
    <3>1. record'[m] = record[m]
      BY <1>1, <2>1, <2>3 DEF IInv, TypeOK
    <3>2. row'[m].state = "mastered" <=> row[m].state = "mastered"
      BY <1>1, <1>5, <1>6, <2>1, <2>3
    <3> QED
      BY <3>1, <3>2 DEF SerialInv, EvidenceAgrees
  <2> QED
    BY <2>2, <2>3
<1> QED
  BY <1>4, <1>7, <1>8 DEF SerialInv

\* Every step keeps the serial invariant when requests do not overlap.
LEMMA StepSerialInv ==
    ASSUME OneAtATime
    PROVE  IInv /\ SerialInv /\ [Next]_vars => SerialInv'
<1> SUFFICES ASSUME IInv, SerialInv, [Next]_vars PROVE SerialInv'
  OBVIOUS
<1>1. ASSUME UNCHANGED <<row, record>>, \A q \in Requests : UpToDate(q)'
      PROVE  SerialInv'
  BY <1>1 DEF SerialInv, NoneLeft, States, EvidenceAgrees
<1>2. ASSUME NEW r \in Requests, NEW n \in Nodes, NEW s \in Scores \cup {NoScore}, Load(r, n, s)
      PROVE  SerialInv'
  <2>1. UpToDate(r)'
    BY <1>2 DEF Load, IInv, TypeOK, UpToDate, Wrote
  <2> QED
    BY <1>1, <1>2, <2>1 DEF Load, OneAtATime
<1>3. ASSUME NEW r \in Requests, Write(r) PROVE SerialInv'
  BY <1>1, <1>3, WriteUpToDate DEF Write, OneAtATime
<1>4. ASSUME NEW r \in Requests, Scan(r) PROVE SerialInv'
  <2>1. /\ req'[r] = [req[r] EXCEPT !.phase = "scanned", !.unlock = Unlockable(View(r))]
        /\ req[r] \in Active /\ req[r].phase = "written" /\ UNCHANGED <<row, record>>
    BY <1>4 DEF Scan, IInv, TypeOK
  <2>2. /\ req'[r].phase = "scanned" /\ req'[r].unlock = Unlockable(View(r))
        /\ req'[r].put = req[r].put /\ req'[r].mine = req[r].mine
        /\ req'[r].node = req[r].node /\ req'[r].rec = req[r].rec
    BY <2>1
  <2>3. View(r)' = View(r)
    BY <2>1, <2>2 DEF View
  <2>4. Unlockable(View(r))' = Unlockable(View(r))
    BY <2>3 DEF Unlockable, PrereqsMet
  <2>5. UpToDate(r)'
    BY <2>1, <2>2, <2>4 DEF SerialInv, UpToDate, Wrote
  <2> QED
    BY <1>1, <2>1, <2>5 DEF OneAtATime
<1>5. ASSUME NEW r \in Requests, Commit(r) PROVE SerialInv'
  BY <1>5, CommitSerialInv
<1>6. ASSUME NEW r \in Requests, Abort(r) PROVE SerialInv'
  <2>1. UpToDate(r)'
    BY <1>6 DEF Abort, IInv, TypeOK, UpToDate, Wrote
  <2> QED
    BY <1>1, <1>6, <2>1 DEF Abort, OneAtATime
<1>7. CASE UNCHANGED vars
  BY <1>1, <1>7 DEF vars, SerialInv, UpToDate, Wrote, Unlockable, PrereqsMet, View
<1> QED
  BY <1>2, <1>3, <1>4, <1>5, <1>6, <1>7 DEF Next, Serve

\* The serial invariant holds throughout.
LEMMA SerialInvariance ==
    ASSUME OneAtATime
    PROVE  Spec => []SerialInv
  BY InitSerialInv, StepSerialInv, Invariance, PTL DEF Spec

\* With one request at a time no node is left behind: whenever none is in
\* flight a locked node has an unmet prerequisite (enrollment/service.py:480),
\* for every graph and every set of scores.
THEOREM NoNodeLeftLockedSerial ==
    ASSUME OneAtATime
    PROVE  Spec => []NoNodeLeftLocked
<1>1. SerialInv => NoNodeLeftLocked
  BY DEF SerialInv, NoneLeft, States, NoNodeLeftLocked
<1> QED
  BY <1>1, SerialInvariance, PTL

\* With one request at a time the traversal state and the mastery record of a
\* node with a rule always agree, through any sequence of retries
\* (enrollment/service.py:466).
THEOREM EvidenceAgreesSerial ==
    ASSUME OneAtATime
    PROVE  Spec => []EvidenceAgrees
<1>1. SerialInv => EvidenceAgrees
  BY DEF SerialInv
<1> QED
  BY <1>1, SerialInvariance, PTL
=============================================================================
