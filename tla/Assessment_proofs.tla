------------------------- MODULE Assessment_proofs -------------------------
(***************************************************************************)
(* The promises of Submission, Readiness, Contribution and Credit for any  *)
(* number of requests, rows, texts, packages and evaluations.              *)
(*                                                                         *)
(* Submission: the numbers rest on what a request counted when it began;   *)
(* frozen packages and final grades rest on the row a request loaded still *)
(* being there when nobody crossed it.                                     *)
(*                                                                         *)
(* Readiness: on a row that requests never crossed, what a request has     *)
(* loaded is what the row still holds; that and the shape of the requests  *)
(* is the inductive invariant.                                             *)
(*                                                                         *)
(* Contribution: the expert's requests write the consent they loaded, which*)
(* Flush leaves out of the UPDATE; a learner's request that met no other   *)
(* one of the learner writes over the consent it loaded.                   *)
(*                                                                         *)
(* Credit: the invariant counts the redemptions that are still to come.    *)
(*                                                                         *)
(* In the last section the four are put side by side, as MCAssessment does.*)
(***************************************************************************)
EXTENDS MCAssessment, FiniteSetTheorems

(* Submission                                                              *)

submissionVars == <<session, submissionRows>>

Editable == {"draft", "revision_requested"}

\* What a request may be going to write.
SubmissionShape(r) ==
    /\ r.key \in Submissions
    /\ r.loaded \in SubmissionRow \cup {None}
    /\ r.set \in SubmissionRow
    /\ r.final \in BOOLEAN
    /\ r.times \subseteq Times
    /\ r.after \subseteq Submissions
    /\ r.set.status = "graded" => r.final
    /\ r.loaded # None =>
          /\ r.after = {}
          /\ r.set.version = r.loaded.version
          /\ r.set.package # r.loaded.package => r.loaded.status \in Editable
    /\ r.loaded = None => r.times = {} /\ ~r.final

SubmissionShapes == \A q \in Requests : req[q] # None => SubmissionShape(req[q])

\* A row being created is not there yet and has one request; any other is there.
Rows ==
    \A q \in Requests : req[q] # None =>
        IF req[q].loaded = None
        THEN /\ sub[req[q].key] = None
             /\ \A o \in Requests \ {q} : req[o] # None => req[o].key # req[q].key
        ELSE sub[req[q].key] # None

\* The number a request will give is above those it counted.
Counted(r) ==
    /\ r.after \subseteq Existing
    /\ r.loaded = None =>
          /\ r.set.version = Cardinality(r.after) + 1
          /\ \A j \in r.after : sub[j].version < r.set.version

Numbers ==
    /\ \A i \in Existing : sub[i].version <= Cardinality(Existing)
    /\ \A i \in Submissions : earlier[i] \subseteq Existing
    /\ \A i \in Submissions : sub[i] = None => earlier[i] = {}
    /\ \A q \in Requests : req[q] # None => Counted(req[q])

\* The evaluations a request touches are of its submission, or will be.
Owned ==
    \A q \in Requests : req[q] # None =>
        \A t \in req[q].times :
            /\ t <= clock
            /\ evaluation[t] # None => evaluation[t].of = req[q].key
            /\ \A o \in Requests : req[o] # None /\ t \in req[o].times =>
                                       req[o].key = req[q].key

\* The request finalizes an evaluation and there is no later one.
Last(r) ==
    r.final => \E t \in r.times : \A u \in EvaluationsOf(r.key) \cup r.times : u <= t

\* On an uncrossed row what a request loaded is what is there.
SubmissionFresh ==
    \A q \in Requests : req[q] # None /\ req[q].key \notin crossed =>
        req[q].loaded = sub[req[q].key] /\ Last(req[q])

SubmissionInv ==
    /\ SessionOK
    /\ SubmissionTypeOK
    /\ SubmissionShapes
    /\ Rows
    /\ Numbers
    /\ NumbersAscend
    /\ Owned
    /\ SubmissionFresh
    /\ GradedIsFinal

-----------------------------------------------------------------------------
\* The UPDATE of a row is a row, and sets what differs from what was loaded.
LEMMA SubmissionFlush ==
  ASSUME NEW now \in SubmissionRow, NEW loaded \in SubmissionRow, NEW set \in SubmissionRow
  PROVE  LET row == Flush(now, loaded, set)
         IN  /\ row \in SubmissionRow
             /\ set.version = loaded.version => row.version = now.version
             /\ now = loaded => row.status = set.status /\ row.package = set.package
<1>1. DOMAIN now = {"version", "status", "package"}
  BY DEF SubmissionRow
<1>2. Flush(now, loaded, set) =
        [version |-> IF set.version # loaded.version THEN set.version ELSE now.version,
         status  |-> IF set.status # loaded.status THEN set.status ELSE now.status,
         package |-> IF set.package # loaded.package THEN set.package ELSE now.package]
  BY <1>1 DEF Flush
<1> QED
  BY <1>2 DEF SubmissionRow

\* There are no submissions, evaluations or requests at the start.
LEMMA SubmissionStarts == SubmissionInit => SubmissionInv
<1> SUFFICES ASSUME SubmissionInit PROVE SubmissionInv
  OBVIOUS
<1>1. SessionOK
  BY SessionStarts DEF SubmissionInit
<1>2. Existing = {} /\ \A q \in Requests : req[q] = None
  BY DEF SubmissionInit, SessionInit, Existing
<1>3. SubmissionTypeOK
  BY DEF SubmissionInit, SubmissionTypeOK
<1>4. SubmissionShapes /\ Rows /\ Owned /\ SubmissionFresh
  BY <1>2 DEF SubmissionShapes, Rows, Owned, SubmissionFresh
<1>5. Numbers /\ NumbersAscend /\ GradedIsFinal
  BY <1>2 DEF SubmissionInit, Numbers, NumbersAscend, GradedIsFinal
<1> QED
  BY <1>1, <1>3, <1>4, <1>5 DEF SubmissionInv

\* What a request must have read to begin: the row as it is, and its own evaluations.
Reads(r, now) ==
    /\ r.loaded = sub[r.key]
    /\ r.loaded = None => \A o \in Requests : req[o] # None => req[o].key # r.key
    /\ Counted(r)
    /\ \A t \in r.times :
          /\ t <= now
          /\ evaluation[t] # None => evaluation[t].of = r.key
          /\ \A o \in Requests : req[o] # None /\ t \in req[o].times => req[o].key = r.key
    /\ Last(r)

\* A request that has read this way begins.
LEMMA SubmissionBegins ==
  ASSUME SubmissionInv, NEW q \in Requests, NEW r, Begin(q, r), SubmissionShape(r), Reads(r, clock'),
         UNCHANGED <<sub, evaluation, earlier>>, clock' \in Nat, clock <= clock'
  PROVE  SubmissionInv'
<1>1. /\ SessionOK'
      /\ crossed \subseteq crossed'
      /\ req'[q] = r
      /\ \A o \in Requests \ {q} : req'[o] = req[o]
      /\ req[q] = None
  BY BeginKeepsAlone DEF Begin, SubmissionInv
<1>2. /\ Existing' = Existing
      /\ \A i : EvaluationsOf(i)' = EvaluationsOf(i)
  BY DEF Existing, EvaluationsOf
<1>3. SubmissionTypeOK'
  BY DEF SubmissionInv, SubmissionTypeOK, Times
<1>4. SubmissionShapes'
  BY <1>1 DEF SubmissionInv, SubmissionShapes
<1>5. Rows'
  <2> SUFFICES ASSUME NEW a \in Requests, req'[a] # None
               PROVE  IF req'[a].loaded = None
                      THEN /\ sub[req'[a].key] = None
                           /\ \A o \in Requests \ {a} : req'[o] # None => req'[o].key # req'[a].key
                      ELSE sub[req'[a].key] # None
    BY DEF Rows
  <2>1. CASE a = q
    BY <1>1, <2>1 DEF Reads
  <2>2. CASE a # q
    <3>1. CASE req[a].loaded = None
      <4>1. sub[req[a].key] = None
        BY <1>1, <2>2, <3>1 DEF SubmissionInv, Rows
      <4>2. r.key # req[a].key
        BY <1>1, <2>2, <4>1 DEF Reads
      <4> QED
        BY <1>1, <2>2, <3>1, <4>1, <4>2 DEF SubmissionInv, Rows
    <3>2. CASE req[a].loaded # None
      BY <1>1, <2>2, <3>2 DEF SubmissionInv, Rows
    <3> QED
      BY <3>1, <3>2
  <2> QED
    BY <2>1, <2>2
<1>6. (Numbers /\ NumbersAscend)'
  BY <1>1, <1>2 DEF SubmissionInv, Numbers, NumbersAscend, Counted, Reads
<1>7. Owned'
  <2> SUFFICES ASSUME NEW a \in Requests, req'[a] # None, NEW t \in req'[a].times
               PROVE  /\ t <= clock'
                      /\ evaluation[t] # None => evaluation[t].of = req'[a].key
                      /\ \A o \in Requests : req'[o] # None /\ t \in req'[o].times =>
                                                 req'[o].key = req'[a].key
    BY DEF Owned
  <2>1. CASE a = q
    BY <1>1, <2>1 DEF Reads
  <2>2. CASE a # q
    <3>1. t \in Times /\ t <= clock
      BY <1>1, <2>2 DEF SubmissionInv, Owned, SubmissionShapes, SubmissionShape
    <3>2. t <= clock'
      BY <3>1 DEF Times, SubmissionInv, SubmissionTypeOK
    <3> QED
      BY <1>1, <2>2, <3>2 DEF SubmissionInv, Owned, Reads
  <2> QED
    BY <2>1, <2>2
<1>8. (SubmissionFresh /\ GradedIsFinal)'
  BY <1>1, <1>2 DEF SubmissionInv, SubmissionFresh, GradedIsFinal, Reads, Last
<1> QED
  BY <1>1, <1>3, <1>4, <1>5, <1>6, <1>7, <1>8 DEF SubmissionInv

\* A commit writes one row and the evaluations it owns.
LEMMA SubmissionCommits ==
  ASSUME SubmissionInv, NEW q \in Requests, CommitSubmission(q)
  PROVE  /\ SubmissionInv'
         /\ \A i \in Submissions \ crossed :
               sub[i] # None /\ sub[i].status \notin Editable => sub'[i].package = sub[i].package
<1> DEFINE r == req[q]
           k == r.key
           row == IF r.loaded = None THEN r.set ELSE Flush(sub[k], r.loaded, r.set)
<1>1. /\ SessionOK'
      /\ crossed' = crossed
      /\ req[q] # None
      /\ req'[q] = None
      /\ \A o \in Requests \ {q} : req'[o] = req[o]
  BY EndKeepsAlone DEF CommitSubmission, SubmissionInv
<1>2. SubmissionShape(r)
  BY <1>1 DEF SubmissionInv, SubmissionShapes
<1>3. /\ k \in Submissions
      /\ r.loaded = None => sub[k] = None /\ \A o \in Requests \ {q} : req[o] # None => req[o].key # k
      /\ r.loaded # None => sub[k] # None
  BY <1>1, <1>2 DEF SubmissionInv, Rows, SubmissionShape
<1>4. /\ sub'[k] = row
      /\ \A i \in Submissions \ {k} : sub'[i] = sub[i] /\ earlier'[i] = earlier[i]
      /\ earlier'[k] = earlier[k] \cup r.after
      /\ DOMAIN sub' = Submissions /\ DOMAIN earlier' = Submissions
      /\ sub' = [i \in Submissions |-> sub'[i]] /\ earlier' = [i \in Submissions |-> earlier'[i]]
      /\ clock' = clock
  BY <1>3 DEF CommitSubmission, SubmissionInv, SubmissionTypeOK
<1>5. /\ evaluation' = [t \in Times |-> evaluation'[t]]
      /\ \A t \in Times \ r.times : evaluation'[t] = evaluation[t]
      /\ \A t \in Times : t \in r.times =>
            /\ evaluation'[t] \in EvaluationRow
            /\ evaluation'[t].of = k
            /\ r.final => evaluation'[t].finalized
  <2>1. evaluation' = [t \in Times |->
                IF t \notin r.times THEN evaluation[t]
                ELSE [of |-> r.key, finalized |-> r.final \/ (/\ evaluation[t] # None
                                                      /\ evaluation[t].finalized)]]
    BY DEF CommitSubmission
  <2>2. \A t \in Times : evaluation[t] # None => evaluation[t].finalized \in BOOLEAN
    BY DEF SubmissionInv, SubmissionTypeOK, EvaluationRow
  <2> HIDE DEF r
  <2> QED
    BY <1>2, <1>3, <2>1, <2>2 DEF SubmissionShape, EvaluationRow
<1>6. r.times \subseteq Times /\ \A t \in Times : evaluation'[t] \in EvaluationRow => evaluation'[t] # None
  BY <1>2, SubmissionAssumption DEF SubmissionShape
<1> HIDE DEF r, k
\* The row that is written.
<1>7. /\ row \in SubmissionRow
      /\ sub[k] # None => row.version = sub[k].version
      /\ sub[k] # None /\ r.loaded = sub[k] =>
            row.status = r.set.status /\ row.package = r.set.package
      /\ sub[k] = None => row = r.set /\ r.loaded = None
  <2>1. CASE r.loaded = None
    BY <1>2, <1>3, <2>1 DEF SubmissionShape
  <2>2. CASE r.loaded # None
    <3>1. r.loaded \in SubmissionRow /\ sub[k] \in SubmissionRow /\ r.set \in SubmissionRow
      BY <1>2, <1>3, <2>2 DEF SubmissionShape, SubmissionInv, SubmissionTypeOK
    <3> QED
      BY <1>2, <1>3, <2>2, <3>1, SubmissionFlush DEF SubmissionShape
  <2> QED
    BY <2>1, <2>2
<1>8. row # None
  BY <1>7, SubmissionAssumption
<1> HIDE DEF row
<1>9. /\ Existing' = Existing \cup {k}
      /\ Existing \subseteq Submissions
      /\ \A i \in Existing : sub'[i].version = sub[i].version
  BY <1>3, <1>4, <1>7, <1>8 DEF Existing
<1>10. SubmissionTypeOK'
  <2>1. sub' \in [Submissions -> SubmissionRow \cup {None}]
    BY <1>4, <1>7 DEF SubmissionInv, SubmissionTypeOK
  <2>2. evaluation' \in [Times -> EvaluationRow \cup {None}]
    BY <1>5 DEF SubmissionInv, SubmissionTypeOK
  <2>3. earlier' \in [Submissions -> SUBSET Submissions]
    BY <1>2, <1>4 DEF SubmissionInv, SubmissionTypeOK, SubmissionShape
  <2>4. ASSUME NEW t \in Times, evaluation'[t] # None
        PROVE  t <= clock /\ sub'[evaluation'[t].of] # None
    <3>1. CASE t \in r.times
      BY <1>1, <1>4, <1>5, <1>8, <3>1 DEF SubmissionInv, Owned, r
    <3>2. CASE t \notin r.times
      <4>1. evaluation'[t] = evaluation[t]
        BY <1>5, <3>2
      <4>2. evaluation[t].of \in Submissions /\ t <= clock /\ sub[evaluation[t].of] # None
        BY <2>4, <4>1 DEF SubmissionInv, SubmissionTypeOK, EvaluationRow
      <4> QED
        BY <1>4, <1>8, <4>1, <4>2
    <3> QED
      BY <3>1, <3>2
  <2> QED
    BY <1>4, <2>1, <2>2, <2>3, <2>4 DEF SubmissionInv, SubmissionTypeOK
<1>11. SubmissionShapes'
  BY <1>1 DEF SubmissionInv, SubmissionShapes
<1>12. Rows'
  <2> SUFFICES ASSUME NEW a \in Requests, req'[a] # None
               PROVE  IF req'[a].loaded = None
                      THEN /\ sub'[req'[a].key] = None
                           /\ \A o \in Requests \ {a} : req'[o] # None => req'[o].key # req'[a].key
                      ELSE sub'[req'[a].key] # None
    BY DEF Rows
  <2>1. a # q /\ req'[a] = req[a] /\ req[a].key \in Submissions
    BY <1>1 DEF SubmissionInv, SubmissionShapes, SubmissionShape
  <2>2. CASE req[a].loaded = None
    <3>1. req[a].key # k
      BY <1>1, <2>1, <2>2 DEF SubmissionInv, Rows, k, r
    <3> QED
      BY <1>1, <1>4, <2>1, <2>2, <3>1 DEF SubmissionInv, Rows
  <2>3. CASE req[a].loaded # None
    <3>1. sub[req[a].key] # None
      BY <2>1, <2>3 DEF SubmissionInv, Rows
    <3> QED
      BY <1>4, <1>8, <2>1, <2>3, <3>1
  <2> QED
    BY <2>2, <2>3
\* Numbers: an edit keeps them, a creation counts one row more.
<1>13. IsFiniteSet(Existing) /\ Cardinality(Existing) \in Nat
  BY <1>9, SubmissionAssumption, FS_Subset, FS_CardinalityType
<1>14. /\ Cardinality(Existing) <= Cardinality(Existing')
       /\ k \notin Existing => Cardinality(Existing') = Cardinality(Existing) + 1
       /\ Cardinality(Existing') \in Nat
  <2>1. PICK S, T : S = Existing /\ T = S \cup {k}
    OBVIOUS
  <2>2. IsFiniteSet(S) /\ Cardinality(S) \in Nat
    BY <1>13, <2>1
  <2>3. Cardinality(T) = IF k \in S THEN Cardinality(S) ELSE Cardinality(S) + 1
    BY <2>1, <2>2, FS_AddElement
  <2>4. Existing' = T
    BY <1>9, <2>1
  <2> HIDE DEF k
  <2> QED
    BY <2>1, <2>2, <2>3, <2>4
<1>15. \A i \in Existing : sub[i].version \in Nat
  BY DEF Existing, SubmissionInv, SubmissionTypeOK, SubmissionRow
<1>16. r.after \subseteq Existing /\ Counted(r)
  BY <1>1 DEF SubmissionInv, Numbers, Counted, r
<1>17. k \notin Existing => /\ row.version = Cardinality(r.after) + 1
                            /\ Cardinality(r.after) <= Cardinality(Existing)
                            /\ Cardinality(r.after) \in Nat
                            /\ earlier[k] = {}
                            /\ \A j \in r.after : sub[j].version < row.version
  <2> SUFFICES ASSUME k \notin Existing
               PROVE  /\ row.version = Cardinality(r.after) + 1
                      /\ Cardinality(r.after) <= Cardinality(Existing)
                      /\ Cardinality(r.after) \in Nat
                      /\ earlier[k] = {}
                      /\ \A j \in r.after : sub[j].version < row.version
    OBVIOUS
  <2>1. sub[k] = None /\ r.loaded = None /\ row = r.set
    BY <1>3, <1>7 DEF Existing
  <2>2. earlier[k] = {}
    BY <1>3, <2>1 DEF SubmissionInv, Numbers
  <2>3. IsFiniteSet(r.after) /\ Cardinality(r.after) <= Cardinality(Existing)
    BY <1>13, <1>16, FS_Subset
  <2>4. Cardinality(r.after) \in Nat
    BY <2>3, FS_CardinalityType
  <2> QED
    BY <1>16, <2>1, <2>2, <2>3, <2>4 DEF Counted
<1>18. k \in Existing => r.after = {}
  BY <1>2, <1>3 DEF Existing, SubmissionShape
<1>19. Numbers'
  <2>1. ASSUME NEW i \in Existing' PROVE sub'[i].version <= Cardinality(Existing')
    <3>1. CASE i \in Existing
      BY <1>9, <1>13, <1>14, <1>15, <3>1 DEF SubmissionInv, Numbers
    <3>2. CASE i \notin Existing
      <4>1. i = k
        BY <1>9, <3>2
      <4> QED
        BY <1>4, <1>13, <1>14, <1>17, <3>2, <4>1
    <3> QED
      BY <3>1, <3>2
  <2>2. \A i \in Submissions : earlier'[i] \subseteq Existing'
    BY <1>4, <1>9, <1>16 DEF SubmissionInv, Numbers
  <2>3. \A i \in Submissions : sub'[i] = None => earlier'[i] = {}
    BY <1>4, <1>8 DEF SubmissionInv, Numbers
  <2>4. ASSUME NEW o \in Requests, req'[o] # None PROVE Counted(req[o])'
    <3>1. req'[o] = req[o] /\ Counted(req[o])
      BY <1>1, <2>4 DEF SubmissionInv, Numbers
    <3> QED
      BY <1>9, <3>1 DEF Counted
  <2> QED
    BY <2>1, <2>2, <2>3, <2>4 DEF Numbers
<1>20. NumbersAscend'
  <2> SUFFICES ASSUME NEW i \in Submissions, NEW j \in Submissions, sub'[i] # None, j \in earlier'[i]
               PROVE  sub'[j].version < sub'[i].version
    BY DEF NumbersAscend
  <2>1. CASE i \in Existing
    <3>1. j \in earlier[i] /\ j \in Existing
      BY <1>3, <1>4, <1>18, <2>1 DEF SubmissionInv, Numbers
    <3> QED
      BY <1>9, <2>1, <3>1 DEF SubmissionInv, NumbersAscend, Existing
  <2>2. CASE i \notin Existing
    <3>1. i = k
      BY <1>4, <2>2 DEF Existing
    <3>2. j \in r.after /\ j \in Existing
      BY <1>4, <1>16, <1>17, <2>2, <3>1
    <3> QED
      BY <1>4, <1>9, <1>17, <2>2, <3>1, <3>2
  <2> QED
    BY <2>1, <2>2
<1>21. Owned'
  <2> SUFFICES ASSUME NEW a \in Requests, req'[a] # None, NEW t \in req'[a].times
               PROVE  /\ t <= clock
                      /\ evaluation'[t] # None => evaluation'[t].of = req'[a].key
                      /\ \A o \in Requests : req'[o] # None /\ t \in req'[o].times =>
                                                 req'[o].key = req'[a].key
    BY <1>4 DEF Owned
  <2>1. a # q /\ req'[a] = req[a] /\ t \in Times
    BY <1>1 DEF SubmissionInv, SubmissionShapes, SubmissionShape
  <2>2. t \in r.times => req[a].key = k
    BY <1>1, <2>1 DEF SubmissionInv, Owned, r, k
  <2> QED
    BY <1>1, <1>5, <2>1, <2>2 DEF SubmissionInv, Owned
\* The evaluations of another submission stay as they are.
<1>22. \A i \in Submissions \ {k} :
          /\ EvaluationsOf(i)' = EvaluationsOf(i)
          /\ \A t \in EvaluationsOf(i) : evaluation'[t] = evaluation[t]
  <2> SUFFICES ASSUME NEW i \in Submissions \ {k}, NEW t \in Times
               PROVE  /\ t \in EvaluationsOf(i)' <=> t \in EvaluationsOf(i)
                      /\ t \in EvaluationsOf(i) => evaluation'[t] = evaluation[t]
    BY DEF EvaluationsOf
  <2>1. CASE t \in r.times
    <3>1. evaluation[t] # None => evaluation[t].of = k
      BY <1>1, <2>1 DEF SubmissionInv, Owned, r, k
    <3> QED
      BY <1>5, <2>1, <3>1 DEF EvaluationsOf
  <2>2. CASE t \notin r.times
    BY <1>5, <2>2 DEF EvaluationsOf
  <2> QED
    BY <2>1, <2>2
<1>23. \A i \in Submissions : i = k => EvaluationsOf(i)' = EvaluationsOf(i) \cup r.times
  <2> SUFFICES ASSUME NEW i \in Submissions, i = k, NEW t \in Times
               PROVE  t \in EvaluationsOf(i)' <=> t \in EvaluationsOf(i) \/ t \in r.times
    BY <1>6 DEF EvaluationsOf
  <2>1. CASE t \in r.times
    BY <1>5, <1>6, <2>1 DEF EvaluationsOf
  <2>2. CASE t \notin r.times
    BY <1>5, <2>2 DEF EvaluationsOf
  <2> QED
    BY <2>1, <2>2
\* On an uncrossed row the request was alone.
<1>24. k \notin crossed => /\ r.loaded = sub[k]
                           /\ Last(r)
                           /\ \A o \in Requests : req'[o] # None => req'[o].key # k
  BY <1>1, OthersCrossed DEF SubmissionInv, SubmissionFresh, r, k
<1>25. SubmissionFresh'
  <2> SUFFICES ASSUME NEW a \in Requests, req'[a] # None, req'[a].key \notin crossed
               PROVE  req'[a].loaded = sub'[req'[a].key] /\ Last(req[a])'
    BY <1>1 DEF SubmissionFresh
  <2>1. req'[a] = req[a] /\ req[a].key \in Submissions
    BY <1>1 DEF SubmissionInv, SubmissionShapes, SubmissionShape
  <2>2. req[a].key # k
    BY <1>24, <2>1
  <2>3. EvaluationsOf(req[a].key)' = EvaluationsOf(req[a].key)
    BY <1>22, <2>1, <2>2
  <2>4. req[a].loaded = sub[req[a].key] /\ Last(req[a])
    BY <1>1, <2>1 DEF SubmissionInv, SubmissionFresh
  <2> QED
    BY <1>4, <2>1, <2>2, <2>3, <2>4 DEF Last
<1>26. GradedIsFinal'
  <2> SUFFICES ASSUME NEW i \in Submissions \ crossed, sub'[i] # None, sub'[i].status = "graded"
               PROVE  \E t \in EvaluationsOf(i)' : /\ evaluation'[t].finalized
                                                   /\ \A u \in EvaluationsOf(i)' : u <= t
    BY <1>1 DEF GradedIsFinal
  <2>1. CASE i # k
    BY <1>4, <1>22, <2>1 DEF SubmissionInv, GradedIsFinal
  <2>2. CASE i = k
    <3>1. row.status = r.set.status
      BY <1>7, <1>24, <2>2
    <3>2. r.final
      BY <1>2, <1>4, <2>2, <3>1 DEF SubmissionShape
    <3>3. PICK t \in r.times : \A u \in EvaluationsOf(k) \cup r.times : u <= t
      BY <1>24, <2>2, <3>2 DEF Last, k
    <3>4. EvaluationsOf(i)' = EvaluationsOf(i) \cup r.times
      BY <1>23, <2>2
    <3>5. evaluation'[t].finalized
      BY <1>5, <1>6, <3>2, <3>3
    <3> QED
      BY <2>2, <3>3, <3>4, <3>5
  <2> QED
    BY <2>1, <2>2
<1>27. ASSUME NEW i \in Submissions \ crossed, sub[i] # None, sub[i].status \notin Editable
       PROVE  sub'[i].package = sub[i].package
  <2>1. CASE i # k
    BY <1>4, <2>1
  <2>2. CASE i = k
    BY <1>2, <1>4, <1>7, <1>24, <1>27, <2>2 DEF SubmissionShape
  <2> QED
    BY <2>1, <2>2
<1> QED
  BY <1>1, <1>10, <1>11, <1>12, <1>19, <1>20, <1>21, <1>25, <1>26, <1>27 DEF SubmissionInv

-----------------------------------------------------------------------------
\* An edit of a row begins: it touches no evaluation.
LEMMA EditOK ==
  ASSUME SubmissionInv, NEW q \in Requests, NEW i \in Submissions, NEW new, Edit(q, i, new),
         new \in SubmissionRow, new.status # "graded", new.version = sub[i].version,
         new.package # sub[i].package => sub[i].status \in Editable
  PROVE  SubmissionInv'
<1> DEFINE r == [key |-> i, loaded |-> sub[i], set |-> new, after |-> {},
                 times |-> {}, final |-> FALSE]
<1>1. Begin(q, r) /\ UNCHANGED <<sub, evaluation, clock, earlier>> /\ sub[i] # None
  BY DEF Edit, submissionRows
<1>2. /\ r.key = i /\ r.loaded = sub[i] /\ r.set = new /\ r.after = {}
      /\ r.times = {} /\ r.final = FALSE
  OBVIOUS
<1> HIDE DEF r
<1>3. sub[i] \in SubmissionRow \cup {None} /\ clock \in Nat
  BY DEF SubmissionInv, SubmissionTypeOK
<1>4. SubmissionShape(r)
  BY <1>1, <1>2, <1>3 DEF SubmissionShape
<1>5. Reads(r, clock')
  BY <1>1, <1>2 DEF Reads, Counted, Last
<1> QED
  BY <1>1, <1>3, <1>4, <1>5, SubmissionBegins

\* A request on the evaluations of a row begins: on those of the latest, or on
\* a new one, which is later than all there are.
LEMMA ReviewOK ==
  ASSUME SubmissionInv, NEW q \in Requests, NEW i \in Submissions, NEW new, NEW times,
         NEW final \in BOOLEAN, Review(q, i, new, times, final),
         new \in SubmissionRow, new.status = "graded" => final,
         new.version = sub[i].version, new.package = sub[i].package,
         times \in {{}, latest_evaluation(i)}
  PROVE  SubmissionInv'
<1> DEFINE touched == IF times = {} THEN {clock'} ELSE times
           r == [key |-> i, loaded |-> sub[i], set |-> new, after |-> {},
                 times |-> touched, final |-> final]
<1>1. /\ Begin(q, r) /\ UNCHANGED <<sub, evaluation, earlier>> /\ sub[i] # None
      /\ times = {} => clock < MaxEvaluations
      /\ clock' = IF times = {} THEN clock + 1 ELSE clock
  BY DEF Review
<1>2. /\ r.key = i /\ r.loaded = sub[i] /\ r.set = new /\ r.after = {}
      /\ r.times = touched /\ r.final = final
  OBVIOUS
<1> HIDE DEF r
<1>3. /\ sub[i] \in SubmissionRow \cup {None}
      /\ clock \in Nat /\ clock' \in Nat /\ clock <= clock'
  BY <1>1 DEF SubmissionInv, SubmissionTypeOK
<1>4. /\ touched \subseteq Times
      /\ \A t \in touched : t <= clock'
      /\ \A t \in touched : evaluation[t] # None => evaluation[t].of = i
      /\ \A t \in touched, o \in Requests : req[o] # None /\ t \in req[o].times => req[o].key = i
      /\ \E t \in touched : \A u \in EvaluationsOf(i) \cup touched : u <= t
  <2>1. CASE times = {}
    <3>1. touched = {clock'} /\ clock' = clock + 1 /\ clock' \in Times
      BY <1>1, <1>3, <2>1, SubmissionAssumption DEF Times
    <3>2. \A u \in Times : evaluation[u] # None => u <= clock
      BY DEF SubmissionInv, SubmissionTypeOK
    <3>3. evaluation[clock'] = None
      BY <1>3, <3>1, <3>2
    <3>4. \A o \in Requests : req[o] # None => clock' \notin req[o].times
      BY <1>3, <3>1 DEF SubmissionInv, Owned
    <3>5. \A u \in EvaluationsOf(i) : u <= clock'
      BY <1>3, <3>1, <3>2 DEF EvaluationsOf, Times
    <3> QED
      BY <1>3, <3>1, <3>3, <3>4, <3>5
  <2>2. CASE times # {}
    <3>1. touched = latest_evaluation(i) /\ clock' = clock
      BY <1>1, <2>2
    <3>2. /\ touched \subseteq EvaluationsOf(i)
          /\ \A t \in touched, u \in EvaluationsOf(i) : u <= t
      BY <3>1 DEF latest_evaluation
    <3>3. \A t \in touched : t \in Times /\ evaluation[t] # None /\ evaluation[t].of = i
      BY <3>2 DEF EvaluationsOf
    <3>4. \A t \in touched : t <= clock'
      BY <3>1, <3>3 DEF SubmissionInv, SubmissionTypeOK
    <3>5. \A t \in touched, o \in Requests : req[o] # None /\ t \in req[o].times => req[o].key = i
      BY <3>3 DEF SubmissionInv, Owned
    <3>6. \E t \in touched : \A u \in EvaluationsOf(i) \cup touched : u <= t
      BY <2>2, <3>2
    <3> HIDE DEF touched
    <3> QED
      BY <3>3, <3>4, <3>5, <3>6
  <2> QED
    BY <2>1, <2>2
<1> HIDE DEF touched
<1>5. SubmissionShape(r)
  BY <1>1, <1>2, <1>3, <1>4 DEF SubmissionShape
<1>6. Reads(r, clock')
  BY <1>1, <1>2, <1>4 DEF Reads, Counted, Last
<1> QED
  BY <1>1, <1>3, <1>5, <1>6, SubmissionBegins

\* A creation begins: it counts the rows that are there.
LEMMA CreateOK ==
  ASSUME SubmissionInv, NEW q \in Requests, NEW i \in Submissions, NEW package \in Packages,
         NEW submit \in BOOLEAN, CreateSubmission(q, i, package, submit)
  PROVE  SubmissionInv'
<1> DEFINE new == create_submission(package, submit)
           r == [key |-> i, loaded |-> None, set |-> new, after |-> Existing,
                 times |-> {}, final |-> FALSE]
<1>1. /\ Begin(q, r) /\ UNCHANGED <<sub, evaluation, clock, earlier>> /\ sub[i] = None
      /\ \A o \in Requests : req[o] # None => req[o].key # i
  BY DEF CreateSubmission, submissionRows
<1>2. /\ r.key = i /\ r.loaded = None /\ r.set = new /\ r.after = Existing
      /\ r.times = {} /\ r.final = FALSE
  OBVIOUS
<1> HIDE DEF r
<1>3. Existing \subseteq Submissions /\ IsFiniteSet(Existing) /\ Cardinality(Existing) \in Nat
  BY SubmissionAssumption, FS_Subset, FS_CardinalityType DEF Existing
<1>4. /\ new \in SubmissionRow
      /\ new.version = Cardinality(Existing) + 1
      /\ new.status # "graded"
  BY <1>3 DEF create_submission, SubmissionRow, Status
<1>5. \A j \in Existing : sub[j].version \in Nat /\ sub[j].version <= Cardinality(Existing)
  BY DEF Existing, SubmissionInv, SubmissionTypeOK, SubmissionRow, Numbers
<1> HIDE DEF new
<1>6. SubmissionShape(r)
  BY <1>2, <1>3, <1>4 DEF SubmissionShape
<1>7. Reads(r, clock')
  BY <1>1, <1>2, <1>3, <1>4, <1>5 DEF Reads, Counted, Last
<1>8. clock \in Nat
  BY DEF SubmissionInv, SubmissionTypeOK
<1> QED
  BY <1>1, <1>6, <1>7, <1>8, SubmissionBegins

\* Every step of every request keeps the invariant.
LEMMA SubmissionSteps == SubmissionInv /\ [SubmissionNext]_submissionVars => SubmissionInv'
<1> SUFFICES ASSUME SubmissionInv, [SubmissionNext]_submissionVars PROVE SubmissionInv'
  OBVIOUS
<1> DEFINE Row(i) == sub[i] \in SubmissionRow
<1>1. ASSUME NEW q \in Requests, NEW i \in Submissions, NEW p \in Packages, NEW b \in BOOLEAN,
             CreateSubmission(q, i, p, b)
      PROVE  SubmissionInv'
  BY <1>1, CreateOK
<1>2. \A i \in Submissions : sub[i] # None => Row(i)
  BY DEF SubmissionInv, SubmissionTypeOK
<1>3. ASSUME NEW q \in Requests, NEW i \in Submissions, NEW p \in Packages,
             UpdateSubmission(q, i, p)
      PROVE  SubmissionInv'
  <2> DEFINE new == update_submission(sub[i], p)
  <2>1. Edit(q, i, new) /\ sub[i] # None /\ new # None
    BY <1>3 DEF UpdateSubmission, Edit, Refused
  <2>2. sub[i].status \in Editable /\ new = [sub[i] EXCEPT !.package = p]
    BY <2>1 DEF update_submission, Editable, Refused
  <2>3. Row(i)
    BY <1>2, <2>1
  <2>4. /\ new \in SubmissionRow /\ new.version = sub[i].version
        /\ new.status # "graded"
    BY <2>2, <2>3 DEF SubmissionRow, Editable
  <2> HIDE DEF new
  <2> QED
    BY <2>1, <2>2, <2>4, EditOK
<1>4. ASSUME NEW q \in Requests, NEW i \in Submissions, SubmitSubmission(q, i)
      PROVE  SubmissionInv'
  <2> DEFINE new == submit_submission(sub[i])
  <2>1. Edit(q, i, new) /\ sub[i] # None
    BY <1>4 DEF SubmitSubmission, Edit
  <2>2. Row(i)
    BY <1>2, <2>1
  <2>3. /\ new \in SubmissionRow /\ new.version = sub[i].version
        /\ new.status # "graded" /\ new.package = sub[i].package
    BY <2>2 DEF submit_submission, SubmissionRow, Status
  <2> HIDE DEF new
  <2> QED
    BY <2>1, <2>3, EditOK
<1>5. ASSUME NEW q \in Requests, NEW i \in Submissions, EvaluateSubmission(q, i)
      PROVE  SubmissionInv'
  <2> DEFINE new == evaluate_submission(sub[i])
  <2>1. Review(q, i, new, {}, FALSE) /\ sub[i] # None /\ new # None
    BY <1>5 DEF EvaluateSubmission, Review, Refused
  <2>2. Row(i)
    BY <1>2, <2>1
  <2>3. new = [sub[i] EXCEPT !.status = "under_review"]
    BY <2>1 DEF evaluate_submission, Refused
  <2>4. /\ new \in SubmissionRow /\ new.version = sub[i].version
        /\ new.status # "graded" /\ new.package = sub[i].package
    BY <2>2, <2>3 DEF SubmissionRow, Status
  <2> HIDE DEF new
  <2> QED
    BY <2>1, <2>4, ReviewOK
<1>6. ASSUME NEW q \in Requests, NEW i \in Submissions, FinalizeGrade(q, i)
      PROVE  SubmissionInv'
  <2> DEFINE new == finalize_grade(sub[i])
  <2>1. Review(q, i, new, latest_evaluation(i), TRUE) /\ sub[i] # None
    BY <1>6 DEF FinalizeGrade, Review
  <2>2. Row(i)
    BY <1>2, <2>1
  <2>3. new \in SubmissionRow /\ new.version = sub[i].version /\ new.package = sub[i].package
    BY <2>2 DEF finalize_grade, SubmissionRow, Status
  <2> HIDE DEF new
  <2> QED
    BY <2>1, <2>3, ReviewOK
<1>7. ASSUME NEW q \in Requests, NEW i \in Submissions, RequestRevision(q, i)
      PROVE  SubmissionInv'
  <2> DEFINE new == request_revision(sub[i])
  <2>1. Review(q, i, new, latest_evaluation(i), FALSE) /\ sub[i] # None
    BY <1>7 DEF RequestRevision, Review
  <2>2. Row(i)
    BY <1>2, <2>1
  <2>3. /\ new \in SubmissionRow /\ new.version = sub[i].version
        /\ new.package = sub[i].package /\ new.status # "graded"
    BY <2>2 DEF request_revision, SubmissionRow, Status
  <2> HIDE DEF new
  <2> QED
    BY <2>1, <2>3, ReviewOK
<1>8. ASSUME NEW q \in Requests, CommitSubmission(q)
      PROVE  SubmissionInv'
  BY <1>8, SubmissionCommits
<1>9. ASSUME NEW q \in Requests, AbortSubmission(q)
      PROVE  SubmissionInv'
  <2>1. /\ SessionOK'
        /\ crossed' = crossed
        /\ req'[q] = None
        /\ \A o \in Requests \ {q} : req'[o] = req[o]
    BY <1>9, EndKeepsAlone DEF AbortSubmission, SubmissionInv
  <2>2. UNCHANGED <<sub, evaluation, clock, earlier>>
    BY <1>9 DEF AbortSubmission, submissionRows
  <2>3. Existing' = Existing /\ \A i : EvaluationsOf(i)' = EvaluationsOf(i)
    BY <2>2 DEF Existing, EvaluationsOf
  <2>4. (SubmissionTypeOK /\ SubmissionShapes /\ Rows)'
    BY <2>1, <2>2 DEF SubmissionInv, SubmissionTypeOK, SubmissionShapes, Rows
  <2>5. (Numbers /\ NumbersAscend)'
    BY <2>1, <2>2, <2>3 DEF SubmissionInv, Numbers, Counted, NumbersAscend
  <2>6. (Owned /\ SubmissionFresh /\ GradedIsFinal)'
    BY <2>1, <2>2, <2>3 DEF SubmissionInv, Owned, SubmissionFresh, Last, GradedIsFinal
  <2> QED
    BY <2>1, <2>4, <2>5, <2>6 DEF SubmissionInv
<1>10. CASE UNCHANGED submissionVars
  <2>1. UNCHANGED <<session, req, crossed, sub, evaluation, clock, earlier>>
    BY <1>10 DEF submissionVars, session, submissionRows
  <2>2. SessionOK'
    BY <2>1, StillAlone DEF SubmissionInv
  <2>3. Existing' = Existing /\ \A i : EvaluationsOf(i)' = EvaluationsOf(i)
    BY <2>1 DEF Existing, EvaluationsOf
  <2>4. (SubmissionTypeOK /\ SubmissionShapes /\ Rows)'
    BY <2>1 DEF SubmissionInv, SubmissionTypeOK, SubmissionShapes, Rows
  <2>5. (Numbers /\ NumbersAscend)'
    BY <2>1, <2>3 DEF SubmissionInv, Numbers, Counted, NumbersAscend
  <2>6. (Owned /\ SubmissionFresh /\ GradedIsFinal)'
    BY <2>1, <2>3 DEF SubmissionInv, Owned, SubmissionFresh, Last, GradedIsFinal
  <2> QED
    BY <2>2, <2>4, <2>5, <2>6 DEF SubmissionInv
<1> QED
  BY <1>1, <1>3, <1>4, <1>5, <1>6, <1>7, <1>8, <1>9, <1>10 DEF SubmissionNext

\* The whole invariant holds in every reachable state.
LEMMA SubmissionInductive == SubmissionSpec => []SubmissionInv
  BY SubmissionStarts, SubmissionSteps, PTL DEF SubmissionSpec, submissionVars

\* A submission has a higher number than each one its request had counted
\* (service.py:447), for any number of requests and submissions.
THEOREM NumbersNeverGoBack == SubmissionSpec => []NumbersAscend
<1>1. SubmissionInv => NumbersAscend
  BY DEF SubmissionInv
<1> QED
  BY SubmissionInductive, <1>1, PTL

\* The latest evaluation of a graded submission nobody crossed on is final
\* (service.py:575-581).
THEOREM GradesAreFinal == SubmissionSpec => []GradedIsFinal
<1>1. SubmissionInv => GradedIsFinal
  BY DEF SubmissionInv
<1> QED
  BY SubmissionInductive, <1>1, PTL

\* What was handed in stays until a revision is asked for, on every submission
\* two requests have not crossed on (service.py:480).
THEOREM HandedInStays == SubmissionSpec => SubmittedIsFrozen
<1> DEFINE Frozen == \A i \in Submissions \ crossed :
                        sub[i] # None /\ sub[i].status \notin {"draft", "revision_requested"} =>
                            sub'[i].package = sub[i].package
<1>1. ASSUME SubmissionInv, [SubmissionNext]_submissionVars
      PROVE  [Frozen]_<<session, submissionRows>>
  <2>1. CASE UNCHANGED submissionVars
    BY <2>1 DEF submissionVars
  <2>2. CASE \E q \in Requests : CommitSubmission(q)
    BY <1>1, <2>2, SubmissionCommits DEF Editable
  <2>3. CASE SubmissionNext /\ ~\E q \in Requests : CommitSubmission(q)
    <3>1. UNCHANGED sub
      BY <2>3 DEF SubmissionNext, CreateSubmission, UpdateSubmission, SubmitSubmission, Edit,
                  EvaluateSubmission, FinalizeGrade, RequestRevision, Review,
                  AbortSubmission, submissionRows
    <3> QED
      BY <3>1
  <2> QED
    BY <1>1, <2>1, <2>2, <2>3
<1>2. [][Frozen]_<<session, submissionRows>> <=> SubmittedIsFrozen
  BY DEF SubmittedIsFrozen
<1> QED
  BY SubmissionInductive, <1>1, <1>2, PTL DEF SubmissionSpec, submissionVars

-----------------------------------------------------------------------------
(* Readiness                                                               *)

readinessVars == <<session, readinessRows>>

\* What a request on a profile or a node has loaded and writes is a row.
RowRequest(r) ==
    \/ /\ r.key = "profile" /\ r.op \in {"submit", "review"}
       /\ r.loaded \in ProfileRow \cup {None} /\ r.set \in ProfileRow
       /\ r.op = "submit" => r.set.status = "submitted"
       /\ r.op = "review" => r.loaded # None
    \/ /\ r.key \in Required /\ r.op = "evidence"
       /\ \/ r.loaded = None /\ r.set = None
          \/ r.loaded \in ProgressRow /\ r.set \in ProgressRow
       /\ r.state \in ReadinessState

\* Whether a node has a progress row does not change: a request with evidence
\* that found none has none to write to.
RowOrNone(q) ==
    req[q] # None /\ req[q].op = "evidence" =>
        (req[q].loaded = None <=> progress[req[q].key] = None)

ReadinessRows ==
    /\ SessionOK
    /\ ReadinessTypeOK
    /\ \A q \in Requests : req[q] # None => RowRequest(req[q])
    /\ \A q \in Requests : RowOrNone(q)

\* The tables are well formed before any request.
LEMMA ReadinessRowsStart == ReadinessInit => ReadinessRows
<1> SUFFICES ASSUME ReadinessInit PROVE ReadinessRows
  OBVIOUS
<1>1. SessionOK /\ \A q \in Requests : req[q] = None
  BY SessionStarts DEF ReadinessInit, SessionInit
<1>2. [state |-> "locked", readiness |-> None] \in ProgressRow
  BY DEF ProgressRow
<1>3. progress \in [Required -> ProgressRow \cup {None}]
  BY <1>2 DEF ReadinessInit
<1>4. ReadinessTypeOK
  BY <1>3 DEF ReadinessInit, ReadinessTypeOK
<1> QED
  BY <1>1, <1>4 DEF ReadinessRows, RowOrNone

\* A request that has read the profile or the node begins.
LEMMA RowRequestBegins ==
  ASSUME ReadinessRows, NEW q \in Requests, NEW r, Begin(q, r), UNCHANGED readinessRows,
         RowRequest(r), r.op = "evidence" => (r.loaded = None <=> progress[r.key] = None)
  PROVE  ReadinessRows'
<1>1. /\ SessionOK'
      /\ req'[q] = r
      /\ \A o \in Requests \ {q} : req'[o] = req[o]
  BY BeginKeepsAlone DEF ReadinessRows
<1>2. ReadinessTypeOK'
  BY DEF ReadinessRows, ReadinessTypeOK, readinessRows
<1>3. \A o \in Requests : RowOrNone(o)'
  BY <1>1 DEF ReadinessRows, RowOrNone, readinessRows
<1> QED
  BY <1>1, <1>2, <1>3 DEF ReadinessRows, RowRequest

\* A request ends and leaves rows.
LEMMA RowRequestEnds ==
  ASSUME ReadinessRows, NEW q \in Requests, End(q), ReadinessTypeOK',
         \A n \in Required : progress'[n] = None <=> progress[n] = None
  PROVE  ReadinessRows'
<1>1. /\ SessionOK'
      /\ req'[q] = None
      /\ \A o \in Requests \ {q} : req'[o] = req[o]
  BY EndKeepsAlone DEF ReadinessRows
<1>2. ASSUME NEW o \in Requests
      PROVE  RowOrNone(o)'
  <2>1. CASE o = q
    BY <1>1, <2>1 DEF RowOrNone
  <2>2. CASE o # q /\ req[o] # None /\ req[o].op = "evidence"
    <3>1. req[o].key \in Required
      BY <2>2 DEF ReadinessRows, RowRequest
    <3> QED
      BY <1>1, <2>2, <3>1 DEF ReadinessRows, RowOrNone
  <2> QED
    BY <1>1, <2>1, <2>2 DEF RowOrNone
<1> QED
  BY <1>1, <1>2 DEF ReadinessRows, RowRequest

\* The UPDATE of a profile is one: approved if it says so or was before.
LEMMA ProfileFlush ==
  ASSUME NEW now \in ProfileRow, NEW loaded \in ProfileRow, NEW set \in ProfileRow
  PROVE  /\ Flush(now, loaded, set) \in ProfileRow
         /\ Flush(now, loaded, set).status \in {set.status, now.status}
<1>1. Flush(now, loaded, set) =
        [text |-> IF set.text # loaded.text THEN set.text ELSE now.text,
         status |-> IF set.status # loaded.status THEN set.status ELSE now.status]
  BY DEF Flush, ProfileRow
<1> QED
  BY <1>1 DEF ProfileRow

\* The UPDATE of a progress row is one.
LEMMA ProgressFlush ==
  ASSUME NEW now \in ProgressRow, NEW loaded \in ProgressRow, NEW set \in ProgressRow
  PROVE  Flush(now, loaded, set) \in ProgressRow
<1>1. Flush(now, loaded, set) =
        [state |-> IF set.state # loaded.state THEN set.state ELSE now.state,
         readiness |-> IF set.readiness # loaded.readiness THEN set.readiness
                       ELSE now.readiness]
  BY DEF Flush, ProgressRow
<1> QED
  BY <1>1 DEF ProgressRow

\* A profile is committed over the one there is, or as the first.
LEMMA ProfileCommits ==
  ASSUME ReadinessRows, NEW q \in Requests, CommitProfile(q)
  PROVE  ReadinessRows'
<1>1. PICK r : r = req[q]
  OBVIOUS
<1>2. /\ End(q) /\ r.key = "profile" /\ RowRequest(r)
      /\ r.loaded = None => profile = None
      /\ profile' = IF profile = None THEN r.set ELSE Flush(profile, r.loaded, r.set)
      /\ shown' = IF r.op = "review" THEN r.loaded.text ELSE shown
      /\ UNCHANGED <<progress, last>>
  BY <1>1 DEF CommitProfile, End, ReadinessRows
<1>3. /\ r.op \in {"submit", "review"}
      /\ r.loaded \in ProfileRow \cup {None} /\ r.set \in ProfileRow
      /\ r.op = "submit" => r.set.status = "submitted"
      /\ r.op = "review" => r.loaded # None
  BY <1>2, ReadinessAssumption DEF RowRequest
<1>4. /\ profile \in ProfileRow \cup {None} /\ shown \in Texts \cup {None}
      /\ profile # None /\ profile.status = "approved" => shown # None
  BY DEF ReadinessRows, ReadinessTypeOK
<1>5. /\ profile' \in ProfileRow
      /\ profile'.status = "approved" =>
            \/ r.set.status = "approved"
            \/ profile # None /\ profile.status = "approved"
  <2>1. CASE profile = None
    BY <1>2, <1>3, <2>1
  <2>2. CASE profile # None
    <3>1. profile \in ProfileRow /\ r.loaded \in ProfileRow
      BY <1>2, <1>3, <1>4, <2>2
    <3>2. profile' = Flush(profile, r.loaded, r.set)
      BY <1>2, <2>2
    <3> QED
      BY <1>3, <2>2, <3>1, <3>2, ProfileFlush
  <2> QED
    BY <2>1, <2>2
<1>6. shown' \in Texts \cup {None} /\ (r.op = "review" => shown' # None)
  BY <1>2, <1>3, <1>4, ReadinessAssumption DEF ProfileRow
<1>7. profile' # None /\ profile'.status = "approved" => shown' # None
  BY <1>2, <1>3, <1>4, <1>5, <1>6
<1>8. ReadinessTypeOK'
  BY <1>2, <1>5, <1>6, <1>7 DEF ReadinessRows, ReadinessTypeOK
<1> QED
  BY <1>2, <1>8, RowRequestEnds

\* Evidence is committed to the row of its node, if there is one.
LEMMA EvidenceCommits ==
  ASSUME ReadinessRows, NEW q \in Requests, CommitEvidence(q)
  PROVE  /\ ReadinessRows'
         /\ \A m \in Required : progress'[m] = None <=> progress[m] = None
<1>1. PICK r : r = req[q]
  OBVIOUS
<1>2. PICK n : n = r.key
  OBVIOUS
<1>3. /\ End(q) /\ r.op = "evidence" /\ RowRequest(r)
      /\ progress' = IF r.loaded = None THEN progress
                     ELSE [progress EXCEPT ![n] = Flush(@, r.loaded, r.set)]
      /\ last' = [last EXCEPT ![n] = r.state]
      /\ UNCHANGED <<profile, shown>>
      /\ r.loaded = None <=> progress[n] = None
  BY <1>1, <1>2 DEF CommitEvidence, End, ReadinessRows, RowOrNone
<1>4. /\ n \in Required
      /\ r.loaded # None => r.loaded \in ProgressRow /\ r.set \in ProgressRow
      /\ r.state \in ReadinessState
  BY <1>2, <1>3 DEF RowRequest
<1>5. progress \in [Required -> ProgressRow \cup {None}]
  BY DEF ReadinessRows, ReadinessTypeOK
<1>6. /\ progress' \in [Required -> ProgressRow \cup {None}]
      /\ \A m \in Required : progress'[m] = None <=> progress[m] = None
  <2>1. CASE r.loaded = None
    BY <1>3, <1>5, <2>1
  <2>2. CASE r.loaded # None
    <3>1. progress[n] \in ProgressRow
      BY <1>3, <1>4, <1>5, <2>2
    <3>2. PICK f : f = Flush(progress[n], r.loaded, r.set)
      OBVIOUS
    <3>3. f \in ProgressRow /\ f # None
      BY <1>4, <2>2, <3>1, <3>2, ProgressFlush, ProgressRowAssumption
    <3>4. progress' = [progress EXCEPT ![n] = f]
      BY <1>3, <2>2, <3>2
    <3> QED
      BY <1>3, <1>4, <1>5, <2>2, <3>3, <3>4
  <2> QED
    BY <2>1, <2>2
<1>7. last' \in [Required -> ReadinessState \cup {None}]
  BY <1>3, <1>4 DEF ReadinessRows, ReadinessTypeOK
<1>8. ReadinessTypeOK'
  BY <1>3, <1>6, <1>7 DEF ReadinessRows, ReadinessTypeOK
<1> QED
  BY <1>3, <1>6, <1>8, RowRequestEnds

\* Every step keeps the tables and the requests well formed.
LEMMA ReadinessRowsStay == ReadinessRows /\ [ReadinessNext]_readinessVars => ReadinessRows'
<1> SUFFICES ASSUME ReadinessRows, [ReadinessNext]_readinessVars PROVE ReadinessRows'
  OBVIOUS
<1>0. /\ profile \in ProfileRow \cup {None}
      /\ progress \in [Required -> ProgressRow \cup {None}]
  BY DEF ReadinessRows, ReadinessTypeOK
<1>1. ASSUME NEW q \in Requests, NEW text \in Texts, SubmitContextProfile(q, text)
      PROVE  ReadinessRows'
  <2>1. PICK r : r = [key |-> "profile", op |-> "submit", loaded |-> profile,
                      set |-> [text |-> text, status |-> "submitted"]]
    OBVIOUS
  <2>2. Begin(q, r) /\ UNCHANGED readinessRows
    BY <1>1, <2>1 DEF SubmitContextProfile, BeginProfile, submit_context_profile
  <2>3. RowRequest(r) /\ r.op # "evidence"
    BY <1>0, <2>1 DEF RowRequest, ProfileRow
  <2> QED
    BY <2>2, <2>3, RowRequestBegins
<1>2. ASSUME NEW q \in Requests, NEW approve \in BOOLEAN, ReviewContextProfile(q, approve)
      PROVE  ReadinessRows'
  <2>1. PICK row : row = review_context_profile(profile, approve)
    OBVIOUS
  <2>2. PICK r : r = [key |-> "profile", op |-> "review", loaded |-> profile, set |-> row]
    OBVIOUS
  <2>3. Begin(q, r) /\ UNCHANGED readinessRows /\ profile # None
    BY <1>2, <2>1, <2>2 DEF ReviewContextProfile, BeginProfile
  <2>4. row \in ProfileRow
    BY <1>0, <2>1, <2>3 DEF review_context_profile, ProfileRow
  <2>5. RowRequest(r) /\ r.op # "evidence"
    BY <1>0, <2>2, <2>3, <2>4 DEF RowRequest
  <2> QED
    BY <2>3, <2>5, RowRequestBegins
<1>3. ASSUME NEW q \in Requests, NEW n \in Required, NEW e \in Evidence,
             NEW p \in {None, "advanced"}, SubmitNodeEvidence(q, n, e, p)
      PROVE  ReadinessRows'
  <2>1. PICK state : state = derive_readiness(e, p)
    OBVIOUS
  <2>2. state \in ReadinessState
    BY <2>1 DEF derive_readiness, ReadinessState
  <2>3. PICK row : row = submit_node_evidence(progress[n], state)
    OBVIOUS
  <2>4. \/ progress[n] = None /\ row = None
        \/ progress[n] \in ProgressRow /\ row \in ProgressRow
    BY <1>0, <2>2, <2>3, ProgressRowAssumption DEF submit_node_evidence, ProgressRow
  <2>5. PICK r : r = [key |-> n, op |-> "evidence", loaded |-> progress[n], set |-> row,
                      state |-> state]
    OBVIOUS
  <2>6. Begin(q, r) /\ UNCHANGED readinessRows
    BY <1>3, <2>1, <2>3, <2>5 DEF SubmitNodeEvidence
  <2>7. RowRequest(r) /\ (r.loaded = None <=> progress[r.key] = None)
    BY <2>2, <2>4, <2>5 DEF RowRequest
  <2> QED
    BY <2>6, <2>7, RowRequestBegins
<1>4. ASSUME NEW q \in Requests, CommitProfile(q)
      PROVE  ReadinessRows'
  BY <1>4, ProfileCommits
<1>5. ASSUME NEW q \in Requests, CommitEvidence(q)
      PROVE  ReadinessRows'
  BY <1>5, EvidenceCommits
<1>6. ASSUME NEW q \in Requests, AbortReadiness(q)
      PROVE  ReadinessRows'
  <2>1. End(q) /\ ReadinessTypeOK' /\ UNCHANGED progress
    BY <1>6 DEF AbortReadiness, readinessRows, ReadinessRows, ReadinessTypeOK
  <2> QED
    BY <2>1, RowRequestEnds
<1>7. ASSUME NEW n \in Required, Traverse(n)
      PROVE  ReadinessRows'
  <2>1. progress[n] \in ProgressRow
    BY <1>0, <1>7 DEF Traverse
  <2>2. PICK s : s = progress[n].state
    OBVIOUS
  <2>3. s \in {"locked", "available", "completed", "mastered"}
    BY <2>1, <2>2 DEF ProgressRow
  <2>4. PICK to \in [locked    |-> {"available"},
                     available |-> {"completed", "mastered"},
                     completed |-> {"mastered", "available"},
                     mastered  |-> {"completed", "available"}][s] :
          progress' = [progress EXCEPT ![n].state = to]
    BY <1>7, <2>2 DEF Traverse
  <2>5. to \in {"available", "completed", "mastered"}
    BY <2>3, <2>4
  <2>6. PICK row : row = [progress[n] EXCEPT !.state = to]
    OBVIOUS
  <2>7. row \in ProgressRow /\ row # None
    BY <2>1, <2>5, <2>6, ProgressRowAssumption DEF ProgressRow
  <2>8. progress' = [progress EXCEPT ![n] = row]
    BY <2>4, <2>6
  <2>9. /\ progress' \in [Required -> ProgressRow \cup {None}]
        /\ \A m \in Required : progress'[m] = None <=> progress[m] = None
    BY <1>0, <1>7, <2>7, <2>8 DEF Traverse
  <2>10. UNCHANGED <<session, req, profile, last, shown>>
    BY <1>7 DEF Traverse, session
  <2>11. SessionOK' /\ ReadinessTypeOK'
    BY <2>9, <2>10, StillAlone DEF ReadinessRows, ReadinessTypeOK
  <2>12. \A q \in Requests : RowOrNone(q)'
    BY <2>9, <2>10 DEF ReadinessRows, RowOrNone, RowRequest
  <2> QED
    BY <2>10, <2>11, <2>12 DEF ReadinessRows, RowRequest
<1>8. CASE UNCHANGED readinessVars
  <2>1. UNCHANGED <<session, req, profile, progress, last, shown>>
    BY <1>8 DEF readinessVars, readinessRows, session
  <2> QED
    BY <2>1, StillAlone DEF ReadinessRows, ReadinessTypeOK, RowRequest, RowOrNone
<1> QED
  BY <1>1, <1>2, <1>3, <1>4, <1>5, <1>6, <1>7, <1>8 DEF ReadinessNext

-----------------------------------------------------------------------------
(* What an uncrossed row keeps                                             *)

\* What a request on the profile is, and what one with evidence is.
OfProfile(r) ==
    /\ r.key = "profile"
    /\ \/ r.op = "submit" /\ \E text \in Texts : r.set = [text |-> text, status |-> "submitted"]
       \/ /\ r.op = "review"
          /\ r.loaded # None
          /\ \E approve \in BOOLEAN : r.set = review_context_profile(r.loaded, approve)

OfEvidence(r) ==
    /\ r.key \in Required
    /\ r.op = "evidence"
    /\ r.set = submit_node_evidence(r.loaded, r.state)

ReadinessShapes == \A q \in Requests : req[q] # None => OfProfile(req[q]) \/ OfEvidence(req[q])

\* An uncrossed profile has its two columns, and its request loaded it as it is.
ProfileFresh ==
    "profile" \notin crossed =>
        /\ profile # None => DOMAIN profile = {"text", "status"}
        /\ \A q \in Requests :
              req[q] # None /\ req[q].key = "profile" => req[q].loaded = profile

\* The request on an uncrossed node loaded the readiness that is still there.
EvidenceFresh ==
    \A n \in Required \ crossed, q \in Requests :
        req[q] # None /\ req[q].key = n /\ req[q].loaded # None =>
            req[q].loaded.readiness = progress[n].readiness

ReadinessInv ==
    /\ ReadinessRows
    /\ ReadinessShapes
    /\ ProfileFresh
    /\ EvidenceFresh
    /\ ApprovedWasRead
    /\ MirrorIsLatest

-----------------------------------------------------------------------------
\* Before any request there is no profile, no evidence and no request.
LEMMA ReadinessStarts == ReadinessInit => ReadinessInv
<1> SUFFICES ASSUME ReadinessInit PROVE ReadinessInv
  OBVIOUS
<1>1. ReadinessRows
  BY ReadinessRowsStart
<1>2. MirrorIsLatest
  BY DEF ReadinessInit, MirrorIsLatest
<1>3. ReadinessShapes /\ ProfileFresh /\ EvidenceFresh /\ ApprovedWasRead
  BY DEF ReadinessInit, SessionInit, ReadinessShapes, ProfileFresh, EvidenceFresh, ApprovedWasRead
<1> QED
  BY <1>1, <1>2, <1>3 DEF ReadinessInv

\* A request on the profile begins: the rows stay, it has loaded what is there.
LEMMA BeginProfileOK ==
  ASSUME ReadinessInv, ReadinessRows',
         NEW q \in Requests, NEW row, NEW op, BeginProfile(q, row, op),
         OfProfile([key |-> "profile", op |-> op, loaded |-> profile, set |-> row])
  PROVE  ReadinessInv'
<1> DEFINE r == [key |-> "profile", op |-> op, loaded |-> profile, set |-> row]
<1>1. /\ SessionOK'
      /\ crossed \subseteq crossed'
      /\ req'[q] = r
      /\ \A o \in Requests \ {q} : req'[o] = req[o]
  BY BeginKeepsAlone DEF BeginProfile, ReadinessInv, ReadinessRows
<1>2. UNCHANGED readinessRows
  BY DEF BeginProfile
<1>4. ReadinessShapes'
  <2> HIDE DEF r
  <2>1. OfProfile(r)
    BY DEF r
  <2> QED
    BY <2>1, <1>1 DEF ReadinessInv, ReadinessShapes
<1>5. (ProfileFresh /\ ApprovedWasRead)'
  BY <1>1, <1>2 DEF ReadinessInv, ProfileFresh, ApprovedWasRead, readinessRows
<1>6. (EvidenceFresh /\ MirrorIsLatest)'
  <2>1. \A n \in Required : r.key # n
    BY ReadinessAssumption
  <2> QED
    BY <1>1, <1>2, <2>1 DEF ReadinessInv, EvidenceFresh, MirrorIsLatest, readinessRows
<1> QED
  BY <1>4, <1>5, <1>6 DEF ReadinessInv

\* A request with evidence begins: likewise.
LEMMA EvidenceBeginsOK ==
  ASSUME ReadinessInv, ReadinessRows',
         NEW q \in Requests, NEW n \in Required, NEW e \in Evidence,
         NEW p, SubmitNodeEvidence(q, n, e, p)
  PROVE  ReadinessInv'
<1> DEFINE state == derive_readiness(e, p)
           r == [key |-> n, op |-> "evidence", loaded |-> progress[n],
                 set |-> submit_node_evidence(progress[n], state), state |-> state]
<1>1. /\ SessionOK'
      /\ crossed \subseteq crossed'
      /\ req'[q] = r
      /\ \A o \in Requests \ {q} : req'[o] = req[o]
  <2>1. Begin(q, r)
    BY DEF SubmitNodeEvidence
  <2> HIDE DEF r
  <2> QED
    BY <2>1, BeginKeepsAlone DEF ReadinessInv, ReadinessRows
<1>2. UNCHANGED readinessRows
  BY DEF SubmitNodeEvidence
<1>a. /\ r.key = n
      /\ r.op = "evidence"
      /\ r.loaded = progress[n]
      /\ r.set = submit_node_evidence(r.loaded, r.state)
  OBVIOUS
<1> HIDE DEF r
<1>4. ReadinessShapes'
  <2>1. OfEvidence(r)
    BY <1>a DEF OfEvidence
  <2> QED
    BY <2>1, <1>1 DEF ReadinessInv, ReadinessShapes
<1>5. n # "profile"
  BY ReadinessAssumption
<1>6. (ProfileFresh /\ ApprovedWasRead)'
  BY <1>1, <1>2, <1>5, <1>a DEF ReadinessInv, ProfileFresh, ApprovedWasRead, readinessRows
<1>7. (EvidenceFresh /\ MirrorIsLatest)'
  BY <1>1, <1>2, <1>a DEF ReadinessInv, EvidenceFresh, MirrorIsLatest, readinessRows
<1> QED
  BY <1>4, <1>6, <1>7 DEF ReadinessInv

\* The traversal moves the state of a row; the readiness of it stays.
LEMMA TraverseOK ==
  ASSUME ReadinessInv, ReadinessRows', NEW n \in Required, Traverse(n)
  PROVE  ReadinessInv' /\ UNCHANGED session
<1>1. UNCHANGED <<session, req, crossed, profile, last, shown>>
  BY DEF Traverse, session
<1>2. PICK to : progress' = [progress EXCEPT ![n].state = to]
  BY DEF Traverse
<1>3. progress[n] \in ProgressRow
  BY DEF Traverse, ReadinessInv, ReadinessRows, ReadinessTypeOK
<1>4. PICK row : row = [progress[n] EXCEPT !.state = to]
  OBVIOUS
<1>5. row.readiness = progress[n].readiness
  BY <1>3, <1>4 DEF ProgressRow
<1>6. /\ progress'[n] = row
      /\ \A m \in Required \ {n} : progress'[m] = progress[m]
  BY <1>2, <1>4 DEF ReadinessInv, ReadinessRows, ReadinessTypeOK
<1>7. (ReadinessShapes /\ ProfileFresh /\ ApprovedWasRead)'
  BY <1>1 DEF ReadinessInv, ReadinessShapes, OfProfile, OfEvidence, ProfileFresh, ApprovedWasRead
<1>8. EvidenceFresh'
  BY <1>1, <1>5, <1>6 DEF ReadinessInv, EvidenceFresh
<1>9. MirrorIsLatest'
  BY <1>1, <1>3, <1>5, <1>6, ProgressRowAssumption DEF ReadinessInv, MirrorIsLatest
<1> QED
  BY <1>1, <1>7, <1>8, <1>9 DEF ReadinessInv

\* A commit on the profile: on an uncrossed row it was alone, so what it set is
\* what is there, and a review set the approval of the text it had loaded.
LEMMA CommitProfileOK ==
  ASSUME ReadinessInv, ReadinessRows', NEW q \in Requests, CommitProfile(q)
  PROVE  ReadinessInv'
<1>1. /\ SessionOK'
      /\ crossed' = crossed
      /\ req[q] # None
      /\ req'[q] = None
      /\ \A o \in Requests \ {q} : req'[o] = req[o]
  BY EndKeepsAlone DEF CommitProfile, ReadinessInv, ReadinessRows
<1>2. UNCHANGED <<progress, last>>
  BY DEF CommitProfile
<1>4. ReadinessShapes'
  BY <1>1 DEF ReadinessInv, ReadinessShapes
<1>5. (EvidenceFresh /\ MirrorIsLatest)'
  BY <1>1, <1>2 DEF ReadinessInv, EvidenceFresh, MirrorIsLatest
<1>6. CASE "profile" \in crossed
  BY <1>1, <1>4, <1>5, <1>6
           DEF ReadinessInv, ProfileFresh, ApprovedWasRead
<1>7. CASE "profile" \notin crossed
  <2> DEFINE r == req[q]
  <2>1. r.key = "profile" /\ r.loaded = profile
    BY <1>1, <1>7 DEF CommitProfile, ReadinessInv, ProfileFresh
  <2>2. OfProfile(r)
    <3>1. "profile" \notin Required
      BY ReadinessAssumption
    <3> QED
      BY <1>1, <2>1, <3>1 DEF ReadinessInv, ReadinessShapes, OfEvidence
  <2>3. \A o \in Requests : req'[o] # None => req'[o].key # "profile"
    BY <1>1, <1>7, <2>1, OthersCrossed DEF ReadinessInv, ReadinessRows
  <2>4. CASE profile = None
    <3>1. r.op = "submit" /\ profile' = r.set
      BY <2>1, <2>2, <2>4 DEF OfProfile, CommitProfile
    <3>2. PICK text \in Texts : profile' = [text |-> text, status |-> "submitted"]
      BY <2>2, <3>1 DEF OfProfile
    <3> QED
      BY <1>1, <1>4, <1>5, <2>3, <3>2 DEF ReadinessInv, ProfileFresh, ApprovedWasRead
  <2>5. CASE profile # None
    <3>1. DOMAIN profile = {"text", "status"}
      BY <1>7, <2>5 DEF ReadinessInv, ProfileFresh
    <3>2. profile' = Flush(profile, profile, r.set)
      BY <2>1, <2>5 DEF CommitProfile
    <3>3. /\ DOMAIN profile' = {"text", "status"}
          /\ profile'.text = r.set.text
          /\ profile'.status = r.set.status
      BY <3>1, <3>2 DEF Flush
    <3>4. CASE r.op = "review"
      <4>1. PICK approve \in BOOLEAN : r.set = review_context_profile(profile, approve)
        BY <2>1, <2>2, <3>4 DEF OfProfile
      <4>2. r.set.text = profile.text
        BY <3>1, <4>1 DEF review_context_profile
      <4>3. shown' = profile.text
        BY <2>1, <3>4 DEF CommitProfile
      <4> QED
        BY <1>1, <1>4, <1>5, <2>3, <3>3, <4>2, <4>3 DEF ReadinessInv, ProfileFresh, ApprovedWasRead
    <3>5. CASE r.op # "review"
      <4>1. r.set.status = "submitted"
        <5>1. PICK text \in Texts : r.set = [text |-> text, status |-> "submitted"]
          BY <2>2, <3>5 DEF OfProfile
        <5> QED
          BY <5>1
      <4> QED
        BY <1>1, <1>4, <1>5, <2>3, <3>3, <4>1 DEF ReadinessInv, ProfileFresh, ApprovedWasRead
    <3> QED
      BY <3>4, <3>5
  <2> QED
    BY <2>4, <2>5
<1> QED
  BY <1>6, <1>7

\* A commit of evidence writes the readiness column and never the state.
LEMMA CommitEvidenceOK ==
  ASSUME ReadinessInv, ReadinessRows', NEW q \in Requests, CommitEvidence(q)
  PROVE  /\ ReadinessInv'
         /\ \A n \in Required : Done(n) => Done(n)'
<1>1. /\ SessionOK'
      /\ crossed' = crossed
      /\ req[q] # None
      /\ req'[q] = None
      /\ \A o \in Requests \ {q} : req'[o] = req[o]
  BY EndKeepsAlone DEF CommitEvidence, ReadinessInv, ReadinessRows
<1>2. UNCHANGED <<profile, shown>>
  BY DEF CommitEvidence
<1>3. PICK r : r = req[q]
  OBVIOUS
<1>4. PICK n : n = r.key
  OBVIOUS
<1>5. OfEvidence(r)
  BY <1>1, <1>3 DEF ReadinessInv, ReadinessShapes, OfProfile, CommitEvidence
<1>6. /\ n \in Required
      /\ r.loaded = None <=> progress[n] = None
      /\ r.loaded # None => r.loaded \in ProgressRow
  BY <1>1, <1>3, <1>4, <1>5 DEF OfEvidence, ReadinessInv, ReadinessRows, RowRequest, RowOrNone
<1>7. /\ progress' = IF r.loaded = None THEN progress
                     ELSE [progress EXCEPT ![n] = Flush(@, r.loaded, r.set)]
      /\ last' = [last EXCEPT ![n] = r.state]
  BY <1>3, <1>4 DEF CommitEvidence
<1>8. /\ progress \in [Required -> ProgressRow \cup {None}]
      /\ progress' \in [Required -> ProgressRow \cup {None}]
      /\ last \in [Required -> ReadinessState \cup {None}]
  BY DEF ReadinessInv, ReadinessRows, ReadinessTypeOK
<1>9. /\ \A m \in Required \ {n} : progress'[m] = progress[m] /\ last'[m] = last[m]
      /\ last'[n] = r.state
      /\ r.loaded = None => progress'[n] = progress[n]
  BY <1>6, <1>7, <1>8
<1>10. ASSUME r.loaded # None
       PROVE  /\ progress'[n].state = progress[n].state
              /\ progress'[n].readiness =
                    IF r.state # r.loaded.readiness THEN r.state ELSE progress[n].readiness
  <2>1. progress[n] \in ProgressRow
    BY <1>6, <1>8, <1>10
  <2>2. /\ r.set = [r.loaded EXCEPT !.readiness = r.state]
        /\ r.loaded \in ProgressRow
    BY <1>5, <1>6, <1>10 DEF OfEvidence, submit_node_evidence
  <2>3. r.set.state = r.loaded.state /\ r.set.readiness = r.state
    BY <2>2 DEF ProgressRow
  <2>4. progress'[n] = Flush(progress[n], r.loaded, r.set)
    BY <1>6, <1>7, <1>8, <1>10
  <2>5. DOMAIN progress[n] = {"state", "readiness"}
    BY <2>1 DEF ProgressRow
  <2> QED
    BY <2>3, <2>4, <2>5 DEF Flush
<1>11. \A m \in Required : Done(m) => Done(m)'
  <2> SUFFICES ASSUME NEW m \in Required, Done(m) PROVE Done(m)'
    OBVIOUS
  <2>1. progress'[m] # None
    BY EvidenceCommits DEF Done, ReadinessInv
  <2>2. progress'[m].state = progress[m].state
    BY <1>9, <1>10
  <2> QED
    BY <2>1, <2>2 DEF Done
<1>12. ReadinessShapes'
  BY <1>1 DEF ReadinessInv, ReadinessShapes
<1>13. (ProfileFresh /\ ApprovedWasRead)'
  BY <1>1, <1>2 DEF ReadinessInv, ProfileFresh, ApprovedWasRead
<1>14. EvidenceFresh'
  <2> SUFFICES ASSUME NEW m \in Required \ crossed, NEW o \in Requests,
                      req'[o] # None, req'[o].key = m, req'[o].loaded # None
               PROVE  req'[o].loaded.readiness = progress'[m].readiness
    BY <1>1 DEF EvidenceFresh
  <2>1. o # q /\ req[o] = req'[o]
    BY <1>1
  <2>2. m # n
    BY <1>1, <1>3, <1>4, <2>1, OthersCrossed DEF ReadinessInv, ReadinessRows
  <2> QED
    BY <1>9, <2>1, <2>2 DEF ReadinessInv, EvidenceFresh
<1>15. MirrorIsLatest'
  <2> SUFFICES ASSUME NEW m \in Required \ crossed, last'[m] # None, progress'[m] # None
               PROVE  progress'[m].readiness = last'[m]
    BY <1>1 DEF MirrorIsLatest
  <2>1. CASE m # n
    BY <1>9, <2>1 DEF ReadinessInv, MirrorIsLatest
  <2>2. CASE m = n
    <3>1. r.loaded # None
      BY <1>6, <1>9, <2>2
    <3>2. r.loaded.readiness = progress[n].readiness
      BY <1>1, <1>3, <1>4, <1>6, <2>2, <3>1 DEF ReadinessInv, EvidenceFresh
    <3> QED
      BY <1>9, <1>10, <2>2, <3>1, <3>2
  <2> QED
    BY <2>1, <2>2
<1> QED
  BY <1>11, <1>12, <1>13, <1>14, <1>15 DEF ReadinessInv

\* A rollback writes nothing.
LEMMA AbortOK ==
  ASSUME ReadinessInv, ReadinessRows', NEW q \in Requests, AbortReadiness(q)
  PROVE  ReadinessInv'
<1>1. /\ crossed' = crossed
      /\ req'[q] = None
      /\ \A o \in Requests \ {q} : req'[o] = req[o]
  BY EndKeepsAlone DEF AbortReadiness, ReadinessInv, ReadinessRows
<1>2. UNCHANGED readinessRows
  BY DEF AbortReadiness
<1>3. (MirrorIsLatest /\ ApprovedWasRead)'
  BY <1>1, <1>2 DEF ReadinessInv, MirrorIsLatest, ApprovedWasRead, readinessRows
<1>4. (ReadinessShapes /\ ProfileFresh /\ EvidenceFresh)'
  BY <1>1, <1>2 DEF ReadinessInv, ReadinessShapes, ProfileFresh, EvidenceFresh, readinessRows
<1> QED
  BY <1>3, <1>4 DEF ReadinessInv

-----------------------------------------------------------------------------
\* Every step keeps the invariant, and no node that is done ceases to be by a
\* step of a request of this workflow.
LEMMA ReadinessSteps ==
  ASSUME ReadinessInv, [ReadinessNext]_readinessVars
  PROVE  /\ ReadinessInv'
         /\ session' # session => \A n \in Required : Done(n) => Done(n)'
<1>0. ReadinessRows'
  BY ReadinessRowsStay DEF ReadinessInv
<1>1. ASSUME NEW q \in Requests, NEW text \in Texts, SubmitContextProfile(q, text)
      PROVE  ReadinessInv' /\ UNCHANGED progress
  <2> DEFINE row == submit_context_profile(profile, text)
  <2>1. BeginProfile(q, row, "submit")
    BY <1>1 DEF SubmitContextProfile
  <2>2. OfProfile([key |-> "profile", op |-> "submit", loaded |-> profile, set |-> row])
    BY DEF OfProfile, submit_context_profile
  <2>3. UNCHANGED progress
    BY <2>1 DEF BeginProfile, readinessRows
  <2> QED
    BY <1>0, <2>1, <2>2, <2>3, BeginProfileOK
<1>2. ASSUME NEW q \in Requests, NEW approve \in BOOLEAN, ReviewContextProfile(q, approve)
      PROVE  ReadinessInv' /\ UNCHANGED progress
  <2> DEFINE row == review_context_profile(profile, approve)
  <2>1. BeginProfile(q, row, "review") /\ profile # None
    BY <1>2 DEF ReviewContextProfile
  <2>2. OfProfile([key |-> "profile", op |-> "review", loaded |-> profile, set |-> row])
    BY <2>1 DEF OfProfile
  <2>3. UNCHANGED progress
    BY <2>1 DEF BeginProfile, readinessRows
  <2> QED
    BY <1>0, <2>1, <2>2, <2>3, BeginProfileOK
<1>3. ASSUME NEW q \in Requests, NEW n \in Required, NEW e \in Evidence,
             NEW p \in {None, "advanced"}, SubmitNodeEvidence(q, n, e, p)
      PROVE  ReadinessInv' /\ UNCHANGED progress
  BY <1>0, <1>3, EvidenceBeginsOK DEF SubmitNodeEvidence, readinessRows
<1>4. ASSUME NEW q \in Requests, CommitProfile(q)
      PROVE  ReadinessInv' /\ UNCHANGED progress
  BY <1>0, <1>4, CommitProfileOK DEF CommitProfile
<1>5. ASSUME NEW q \in Requests, CommitEvidence(q)
      PROVE  ReadinessInv' /\ \A n \in Required : Done(n) => Done(n)'
  BY <1>0, <1>5, CommitEvidenceOK
<1>6. ASSUME NEW q \in Requests, AbortReadiness(q)
      PROVE  ReadinessInv' /\ UNCHANGED progress
  BY <1>0, <1>6, AbortOK DEF AbortReadiness, readinessRows
<1>7. ASSUME NEW m \in Required, Traverse(m)
      PROVE  ReadinessInv' /\ UNCHANGED session
  BY <1>0, <1>7, TraverseOK
<1>8. CASE UNCHANGED readinessVars
  <2>1. UNCHANGED <<session, req, crossed, profile, progress, last, shown>>
    BY <1>8 DEF readinessVars, session, readinessRows
  <2> QED
    BY <1>0, <2>1 DEF ReadinessInv, ReadinessShapes, OfProfile, OfEvidence, ProfileFresh,
                      EvidenceFresh, ApprovedWasRead, MirrorIsLatest
<1>9. UNCHANGED progress => \A n \in Required : Done(n) => Done(n)'
  BY DEF Done
<1> QED
  BY <1>1, <1>2, <1>3, <1>4, <1>5, <1>6, <1>7, <1>8, <1>9 DEF ReadinessNext, readinessVars

\* The whole invariant holds in every reachable state.
LEMMA ReadinessInductive == ReadinessSpec => []ReadinessInv
<1>1. ReadinessInv /\ [ReadinessNext]_readinessVars => ReadinessInv'
  BY ReadinessSteps
<1> QED
  BY ReadinessStarts, <1>1, PTL DEF ReadinessSpec, readinessVars

\* An approved profile nobody crossed on is the text its reviewer had loaded
\* (service.py:182), for any number of requests.
THEOREM ApprovalIsOfWhatWasRead == ReadinessSpec => []ApprovedWasRead
<1>1. ReadinessInv => ApprovedWasRead
  BY DEF ReadinessInv
<1> QED
  BY ReadinessInductive, <1>1, PTL

\* The readiness of an uncrossed node is that of the evidence committed last
\* (service.py:291), whatever the traversal does to its row meanwhile.
THEOREM MirrorFollowsEvidence == ReadinessSpec => []MirrorIsLatest
<1>1. ReadinessInv => MirrorIsLatest
  BY DEF ReadinessInv
<1> QED
  BY ReadinessInductive, <1>1, PTL

\* Once all required nodes are completed no request with evidence or a profile
\* brings the check back to "not_ready", with any number of requests on the same
\* rows (service.py:290); the traversal's own requests are not among them.
THEOREM EvidenceUndoesNoCompletion == ReadinessSpec => CompletionCounts
<1> DEFINE Counts == (\A n \in Required : Done(n)) /\ session' # session =>
                        check_readiness' # "not_ready"
<1>1. ASSUME ReadinessInv, [ReadinessNext]_readinessVars
      PROVE  [Counts]_<<session, readinessRows>>
  <2>1. SUFFICES ASSUME \A n \in Required : Done(n), session' # session
                 PROVE  check_readiness' # "not_ready"
    OBVIOUS
  <2>2. \A n \in Required : Done(n)'
    BY <1>1, <2>1, ReadinessSteps
  <2>3. (\A n \in Required : NodeReady(n))'
    BY <2>2 DEF NodeReady
  <2> QED
    BY <2>3 DEF check_readiness
<1>2. [][Counts]_<<session, readinessRows>> <=> CompletionCounts
  BY DEF CompletionCounts
<1> QED
  BY ReadinessInductive, <1>1, <1>2, PTL DEF ReadinessSpec, readinessVars

-----------------------------------------------------------------------------
(* Contribution                                                            *)


contributionVars == <<session, contributionRows>>

\* Requests of the learner set consent; the expert's load a row and keep its consent.
ContributionShape(r) ==
    /\ r.key \in {"learner", "expert"}
    /\ r.loaded \in ContributionRow \cup {None}
    /\ r.set \in ContributionRow
    /\ r.key = "expert" => r.loaded # None /\ r.set.consent = r.loaded.consent
    /\ r.loaded # None => contribution # None

ContributionShapes == \A q \in Requests : req[q] # None => ContributionShape(req[q])

\* What an uncrossed request of the learner loaded: no row while there is none,
\* and the consent that is still there.
ConsentFresh ==
    "learner" \notin crossed =>
        \A q \in Requests :
            req[q] # None /\ req[q].key = "learner" =>
                /\ req[q].loaded = None <=> contribution = None
                /\ contribution # None => req[q].loaded.consent = contribution.consent

ContributionInv ==
    /\ SessionOK
    /\ ContributionTypeOK
    /\ ContributionShapes
    /\ ConsentFresh
    /\ ConsentIsTheLearners

-----------------------------------------------------------------------------
\* The UPDATE of a row is a row.
LEMMA FlushType ==
  ASSUME NEW now \in ContributionRow, NEW loaded \in ContributionRow,
         NEW set \in ContributionRow
  PROVE  /\ Flush(now, loaded, set) \in ContributionRow
         /\ Flush(now, loaded, set).consent =
              IF set.consent # loaded.consent THEN set.consent ELSE now.consent
<1>1. DOMAIN now = {"consent", "visibility", "verification"}
  BY DEF ContributionRow
<1>2. Flush(now, loaded, set) =
        [consent |-> IF set.consent # loaded.consent THEN set.consent ELSE now.consent,
         visibility |-> IF set.visibility # loaded.visibility THEN set.visibility
                        ELSE now.visibility,
         verification |-> IF set.verification # loaded.verification THEN set.verification
                          ELSE now.verification]
  BY <1>1 DEF Flush
<1> QED
  BY <1>2 DEF ContributionRow

\* There is no contribution and no request at the start.
LEMMA ContributionStarts == ContributionInit => ContributionInv
  BY SessionStarts DEF ContributionInit, SessionInit, ContributionInv,
     ContributionTypeOK, ContributionShapes,
                       ConsentFresh, ConsentIsTheLearners

\* A request that has read the row begins.
LEMMA ContributionBegins ==
  ASSUME ContributionInv, NEW q \in Requests, NEW author, NEW row,
         BeginContribution(q, author, row),
         ContributionShape([key |-> author, loaded |-> contribution, set |-> row])
  PROVE  ContributionInv'
<1> DEFINE r == [key |-> author, loaded |-> contribution, set |-> row]
<1>1. /\ SessionOK'
      /\ crossed \subseteq crossed'
      /\ req'[q] = r
      /\ \A o \in Requests \ {q} : req'[o] = req[o]
  BY BeginKeepsAlone DEF BeginContribution, ContributionInv
<1>2. UNCHANGED <<contribution, wish>>
  BY DEF BeginContribution, contributionRows
<1>3. r.loaded = contribution /\ ContributionShape(r)
  OBVIOUS
<1> HIDE DEF r
<1>4. ContributionShapes'
  BY <1>1, <1>2, <1>3 DEF ContributionInv, ContributionShapes, ContributionShape
<1>5. ConsentFresh'
  BY <1>1, <1>2, <1>3 DEF ContributionInv, ConsentFresh
<1>6. (ContributionTypeOK /\ ConsentIsTheLearners)'
  BY <1>1, <1>2 DEF ContributionInv, ContributionTypeOK, ConsentIsTheLearners
<1> QED
  BY <1>1, <1>4, <1>5, <1>6 DEF ContributionInv

\* A commit: of the learner, whose consent it is, or of the expert, who keeps it.
LEMMA ContributionCommits ==
  ASSUME ContributionInv, NEW q \in Requests, CommitContribution(q)
  PROVE  ContributionInv'
<1> DEFINE r == req[q]
<1>1. /\ SessionOK'
      /\ crossed' = crossed
      /\ req[q] # None
      /\ req'[q] = None
      /\ \A o \in Requests \ {q} : req'[o] = req[o]
  BY EndKeepsAlone DEF CommitContribution, ContributionInv
<1>2. ContributionShape(r)
  BY <1>1 DEF ContributionInv, ContributionShapes
<1>3. /\ r.loaded = None => contribution = None
      /\ contribution' = IF contribution = None THEN r.set
                         ELSE Flush(contribution, r.loaded, r.set)
      /\ wish' = IF r.key = "learner" THEN r.set.consent ELSE wish
  BY DEF CommitContribution
<1> HIDE DEF r
<1>4. /\ contribution' \in ContributionRow
      /\ contribution # None =>
            contribution'.consent = IF r.set.consent # r.loaded.consent THEN r.set.consent
                                    ELSE contribution.consent
  <2>1. CASE contribution = None
    BY <1>2, <1>3, <2>1 DEF ContributionShape
  <2>2. CASE contribution # None
    <3>1. contribution \in ContributionRow /\ r.loaded \in ContributionRow
      BY <1>2, <1>3, <2>2 DEF ContributionShape, ContributionInv, ContributionTypeOK
    <3> QED
      BY <1>2, <1>3, <2>2, <3>1, FlushType DEF ContributionShape
  <2> QED
    BY <2>1, <2>2
<1>5. contribution' # None
  BY <1>4, ContributionAssumption
<1>6. ContributionTypeOK'
  BY <1>2, <1>3, <1>4 DEF ContributionInv, ContributionTypeOK, ContributionShape, ContributionRow
<1>7. ContributionShapes'
  BY <1>1, <1>5 DEF ContributionInv, ContributionShapes, ContributionShape
<1>8. (ConsentFresh /\ ConsentIsTheLearners)'
  <2>1. CASE "learner" \in crossed
    BY <1>1, <2>1 DEF ConsentFresh, ConsentIsTheLearners
  <2>2. CASE "learner" \notin crossed /\ r.key = "learner"
    <3>1. \A o \in Requests : req'[o] # None => req'[o].key # "learner"
      BY <1>1, <2>2, OthersCrossed DEF ContributionInv, r
    <3>2. contribution # None => r.loaded.consent = contribution.consent
      BY <1>1, <2>2 DEF ContributionInv, ConsentFresh, r
    <3>3. contribution'.consent = r.set.consent
      <4>1. CASE contribution = None
        BY <1>3, <4>1
      <4>2. CASE contribution # None
        BY <1>4, <3>2, <4>2
      <4> QED
        BY <4>1, <4>2
    <3> QED
      BY <1>3, <2>2, <3>1, <3>3 DEF ConsentFresh, ConsentIsTheLearners
  <2>3. CASE "learner" \notin crossed /\ r.key # "learner"
    <3>1. contribution # None /\ r.set.consent = r.loaded.consent
      BY <1>2, <2>3 DEF ContributionShape
    <3>2. contribution'.consent = contribution.consent /\ wish' = wish
      BY <1>3, <1>4, <2>3, <3>1
    <3> QED
      BY <1>1, <1>5, <3>1, <3>2 DEF ContributionInv, ConsentFresh, ConsentIsTheLearners
  <2> QED
    BY <2>1, <2>2, <2>3
<1> QED
  BY <1>1, <1>6, <1>7, <1>8 DEF ContributionInv

\* Every step of every request keeps the invariant.
LEMMA ContributionSteps == ContributionInv /\ [ContributionNext]_contributionVars => ContributionInv'
<1> SUFFICES ASSUME ContributionInv, [ContributionNext]_contributionVars PROVE ContributionInv'
  OBVIOUS
<1>1. ASSUME NEW q \in Requests, NEW consent \in BOOLEAN, NEW level \in Visibilities,
             PrepareContribution(q, consent, level)
      PROVE  ContributionInv'
  <2> DEFINE row == prepare_contribution(consent, level)
  <2>1. BeginContribution(q, "learner", row) /\ contribution = None
    BY <1>1 DEF PrepareContribution
  <2>2. ContributionShape([key |-> "learner", loaded |-> contribution, set |-> row])
    BY <2>1 DEF ContributionShape, prepare_contribution, ContributionRow
  <2> QED
    BY <2>1, <2>2, ContributionBegins
<1>2. ASSUME NEW q \in Requests, NEW consent \in BOOLEAN, NEW level \in Visibilities,
             UpdateContribution(q, consent, level)
      PROVE  ContributionInv'
  <2> DEFINE row == update_contribution(contribution, consent, level)
  <2>1. BeginContribution(q, "learner", row) /\ contribution # None
    BY <1>2 DEF UpdateContribution
  <2>2. contribution \in ContributionRow
    BY <2>1 DEF ContributionInv, ContributionTypeOK
  <2>3. row \in ContributionRow
    BY <2>2 DEF update_contribution, ContributionRow
  <2> HIDE DEF row
  <2>4. ContributionShape([key |-> "learner", loaded |-> contribution, set |-> row])
    BY <2>1, <2>2, <2>3 DEF ContributionShape
  <2> QED
    BY <2>1, <2>4, ContributionBegins
<1>3. ASSUME NEW q \in Requests, NEW status \in {"pending", "verified", "rejected"},
             NEW level \in Visibilities, VerifyContribution(q, status, level)
      PROVE  ContributionInv'
  <2> DEFINE row == verify_contribution(contribution, status, level)
  <2>1. BeginContribution(q, "expert", row) /\ contribution # None
    BY <1>3 DEF VerifyContribution
  <2>2. contribution \in ContributionRow
    BY <2>1 DEF ContributionInv, ContributionTypeOK
  <2>3. row \in ContributionRow /\ row.consent = contribution.consent
    BY <2>2 DEF verify_contribution, ContributionRow
  <2> HIDE DEF row
  <2>4. ContributionShape([key |-> "expert", loaded |-> contribution, set |-> row])
    BY <2>1, <2>2, <2>3 DEF ContributionShape
  <2> QED
    BY <2>1, <2>4, ContributionBegins
<1>4. ASSUME NEW q \in Requests, CommitContribution(q)
      PROVE  ContributionInv'
  BY <1>4, ContributionCommits
<1>5. ASSUME NEW q \in Requests, AbortContribution(q)
      PROVE  ContributionInv'
  <2>1. /\ SessionOK'
        /\ crossed' = crossed
        /\ req'[q] = None
        /\ \A o \in Requests \ {q} : req'[o] = req[o]
    BY <1>5, EndKeepsAlone DEF AbortContribution, ContributionInv
  <2>2. UNCHANGED <<contribution, wish>>
    BY <1>5 DEF AbortContribution, contributionRows
  <2> QED
    BY <2>1, <2>2 DEF ContributionInv, ContributionTypeOK, ContributionShapes,
       ContributionShape, ConsentFresh, ConsentIsTheLearners
<1>6. CASE UNCHANGED contributionVars
  <2>1. UNCHANGED <<session, req, crossed, contribution, wish>>
    BY <1>6 DEF contributionVars, session, contributionRows
  <2>2. SessionOK'
    BY <2>1, StillAlone DEF ContributionInv
  <2> QED
    BY <2>1, <2>2 DEF ContributionInv, ContributionTypeOK, ContributionShapes,
       ContributionShape, ConsentFresh, ConsentIsTheLearners
<1> QED
  BY <1>1, <1>2, <1>3, <1>4, <1>5, <1>6 DEF ContributionNext

\* A contribution holds the consent of the learner's request committed last,
\* whatever verifications are in flight with it (service.py:679, 697).
THEOREM ConsentStaysTheLearners == ContributionSpec => []ConsentIsTheLearners
<1>1. ContributionInv => ConsentIsTheLearners
  BY DEF ContributionInv
<1> QED
  BY ContributionStarts, ContributionSteps, <1>1, PTL DEF ContributionSpec, contributionVars
-----------------------------------------------------------------------------
(* Mastery credits.                                                        *)
creditVars == <<session, creditRows>>

\* What a request about a credit is going to write, from what it loaded.
CreditShape(r) ==
    /\ r.key \in Credits
    /\ r.set \in CreditRow
    /\ \/ /\ r.op = "award" /\ r.loaded = None
          /\ r.set.status = "recommended"
       \/ /\ r.op = "approve" /\ r.loaded \in CreditRow
          /\ r.set.status = "approved"
       \/ /\ r.op = "redeem" /\ r.loaded \in CreditRow
          /\ r.loaded.status = "approved" /\ r.set.status = "redeemed"

\* A credit being awarded is not there yet and has one request; any other is there.
CreditPlace(q) ==
    IF req[q].op = "award"
    THEN /\ credit[req[q].key] = None
         /\ \A o \in Requests \ {q} : req[o] # None => req[o].key # req[q].key
    ELSE credit[req[q].key] # None

CreditFresh(q) == req[q].key \notin crossed => req[q].loaded = credit[req[q].key]

CreditRequests ==
    \A q \in Requests : req[q] # None =>
        CreditShape(req[q]) /\ CreditPlace(q) /\ CreditFresh(q)

Approved(c) == credit[c] # None /\ credit[c].status = "approved"

Redeeming(c) == {q \in Requests : req[q] # None /\ req[q].key = c /\ req[q].op = "redeem"}

\* Redemptions still to come before another approval: as long as the credit reads
\* "approved" any request may begin one, afterwards only those that have begun.
Left(c) == IF Approved(c) THEN Cardinality(Requests) ELSE Cardinality(Redeeming(c))

Spending(c) ==
    /\ spent[c] + Left(c) <= approvals[c] * Cardinality(Requests)
    /\ c \notin crossed => spent[c] + (IF Approved(c) THEN 1 ELSE 0) <= approvals[c]

CreditInv ==
    /\ SessionOK
    /\ CreditTypeOK
    /\ CreditRequests
    /\ \A c \in Credits : Spending(c)

-----------------------------------------------------------------------------
LEMMA Products ==
  ASSUME NEW a \in Nat, NEW n \in Nat
  PROVE  a * n \in Nat /\ (a + 1) * n = a * n + n /\ (a + 0) * n = a * n
  OBVIOUS

\* What is counted is a number.
LEMMA Counts ==
  ASSUME NEW c
  PROVE  /\ Cardinality(Requests) \in Nat
         /\ IsFiniteSet(Redeeming(c))
         /\ Cardinality(Redeeming(c)) \in Nat
         /\ Cardinality(Redeeming(c)) <= Cardinality(Requests)
<1>1. Redeeming(c) \in SUBSET Requests
  BY DEF Redeeming
<1>2. /\ IsFiniteSet(Redeeming(c))
      /\ Cardinality(Redeeming(c)) <= Cardinality(Requests)
  BY <1>1, FS_Subset, CreditAssumption
<1> QED
  BY <1>2, FS_CardinalityType, CreditAssumption

\* The UPDATE of a credit is a credit.
LEMMA CreditFlush ==
  ASSUME NEW now \in CreditRow, NEW loaded \in CreditRow, NEW set \in CreditRow
  PROVE  /\ Flush(now, loaded, set) \in CreditRow
         /\ Flush(now, loaded, set).status =
              IF set.status # loaded.status THEN set.status ELSE now.status
<1>1. DOMAIN now = {"status", "purpose"}
  BY DEF CreditRow
<1>2. Flush(now, loaded, set) =
        [status |-> IF set.status # loaded.status THEN set.status ELSE now.status,
         purpose |-> IF set.purpose # loaded.purpose THEN set.purpose ELSE now.purpose]
  BY <1>1 DEF Flush
<1> QED
  BY <1>2 DEF CreditRow

\* There is no credit and no request at the start.
LEMMA CreditStarts == CreditInit => CreditInv
<1> SUFFICES ASSUME CreditInit PROVE CreditInv
  OBVIOUS
<1>1. \A q \in Requests : req[q] = None
  BY DEF CreditInit, SessionInit
<1>2. ASSUME NEW c \in Credits PROVE Spending(c)
  <2>1. Redeeming(c) = {} /\ ~Approved(c)
    BY <1>1 DEF CreditInit, Redeeming, Approved
  <2>2. Left(c) = 0
    BY <2>1, FS_EmptySet DEF Left
  <2> QED
    BY <2>1, <2>2, Counts, Products DEF Spending, CreditInit
<1> QED
  BY <1>1, <1>2, SessionStarts
     DEF CreditInit, CreditInv, CreditTypeOK, CreditRequests

\* A request that has read the credit begins; what it may spend was counted.
LEMMA CreditBegins ==
  ASSUME CreditInv, NEW q \in Requests, NEW c \in Credits, NEW row, NEW op,
         BeginCredit(q, c, row, op),
         CreditShape([key |-> c, op |-> op, loaded |-> credit[c], set |-> row]),
         op = "award" => \A o \in Requests : req[o] # None => req[o].key # c
  PROVE  CreditInv'
<1> DEFINE r == [key |-> c, op |-> op, loaded |-> credit[c], set |-> row]
<1>1. /\ SessionOK'
      /\ crossed \subseteq crossed'
      /\ req'[q] = r
      /\ \A o \in Requests \ {q} : req'[o] = req[o]
      /\ req[q] = None
  BY BeginKeepsAlone DEF BeginCredit, CreditInv, Begin
<1>2. UNCHANGED <<credit, approvals, spent>>
  BY DEF BeginCredit, creditRows
<1>3. /\ CreditShape(r)
      /\ r.key = c /\ r.op = op /\ r.loaded = credit[c]
      /\ op = "award" => \A o \in Requests : req[o] # None => req[o].key # c
  OBVIOUS
<1> HIDE DEF r
<1>4. op = "award" <=> credit[c] = None
  BY <1>3, CreditAssumption DEF CreditShape
<1>5. CreditRequests'
  <2> SUFFICES ASSUME NEW o \in Requests, req'[o] # None
               PROVE  (CreditShape(req[o]) /\ CreditPlace(o) /\ CreditFresh(o))'
    BY DEF CreditRequests
  <2>1. CASE o = q
    BY <1>1, <1>2, <1>3, <1>4, <2>1 DEF CreditShape, CreditPlace, CreditFresh
  <2>2. CASE o # q
    <3>1. /\ req'[o] = req[o] /\ req[o] # None
          /\ CreditShape(req[o]) /\ CreditPlace(o) /\ CreditFresh(o)
      BY <1>1, <2>2 DEF CreditInv, CreditRequests
    <3>2. req[o].op = "award" => req[o].key # c
      <4> SUFFICES ASSUME req[o].op = "award", req[o].key = c PROVE FALSE
        OBVIOUS
      <4>1. op = "award"
        BY <3>1, <1>4 DEF CreditPlace
      <4> QED
        BY <4>1, <1>3, <3>1
    <3> QED
      BY <1>1, <1>2, <1>3, <2>2, <3>1, <3>2 DEF CreditShape, CreditPlace, CreditFresh
  <2> QED
    BY <2>1, <2>2
<1>6. ASSUME NEW d \in Credits PROVE Spending(d)'
  <2>1. Spending(d)
    BY DEF CreditInv
  <2>2. Approved(d)' = Approved(d)
    BY <1>2 DEF Approved
  <2>3. ~Approved(d) => Redeeming(d)' = Redeeming(d)
    <3> SUFFICES ASSUME ~Approved(d) PROVE Redeeming(d)' = Redeeming(d)
      OBVIOUS
    <3>1. op = "redeem" => Approved(c)
      BY <1>3, <1>4 DEF CreditShape, Approved
    <3> QED
      BY <1>1, <1>3, <3>1 DEF Redeeming
  <2>4. Left(d)' = Left(d)
    BY <2>2, <2>3 DEF Left
  <2> QED
    BY <1>1, <1>2, <2>1, <2>2, <2>4 DEF Spending
<1> QED
  BY <1>1, <1>2, <1>5, <1>6 DEF CreditInv, CreditTypeOK

\* A commit: an approval makes room for one more redemption by each request, or
\* just one where none have crossed; a redemption takes its place in the count.
LEMMA CreditCommits ==
  ASSUME CreditInv, NEW q \in Requests, CommitCredit(q)
  PROVE  CreditInv'
<1>0. PICK r : r = req[q]
  OBVIOUS
<1> DEFINE c == r.key
           n == Cardinality(Requests)
           paid == IF r.op = "approve" THEN 1 ELSE 0
           used == IF r.op = "redeem" THEN 1 ELSE 0
<1>1. /\ SessionOK'
      /\ crossed' = crossed
      /\ req[q] # None
      /\ req'[q] = None
      /\ \A o \in Requests \ {q} : req'[o] = req[o]
  BY EndKeepsAlone DEF CommitCredit, CreditInv
<1>2. CreditShape(r) /\ CreditPlace(q) /\ CreditFresh(q) /\ c \in Credits
  BY <1>0, <1>1 DEF CreditInv, CreditRequests, CreditShape
<1>3. /\ credit' = [credit EXCEPT ![c] =
                      IF @ = None THEN r.set ELSE Flush(@, r.loaded, r.set)]
      /\ approvals' = [approvals EXCEPT ![c] = @ + paid]
      /\ spent' = [spent EXCEPT ![c] = @ + used]
  BY <1>0 DEF CommitCredit
<1>4. /\ credit \in [Credits -> CreditRow \cup {None}]
      /\ approvals \in [Credits -> Nat] /\ spent \in [Credits -> Nat]
  BY DEF CreditInv, CreditTypeOK
<1>5. /\ approvals'[c] = approvals[c] + paid /\ spent'[c] = spent[c] + used
      /\ \A d \in Credits \ {c} : /\ credit'[d] = credit[d]
                                  /\ approvals'[d] = approvals[d] /\ spent'[d] = spent[d]
  BY <1>2, <1>3, <1>4
<1>6. /\ credit'[c] \in CreditRow
      /\ r.op = "award" => credit[c] = None /\ credit'[c].status = "recommended"
      /\ r.op # "award" =>
            /\ credit[c] \in CreditRow /\ r.loaded \in CreditRow
            /\ credit'[c].status = IF r.set.status # r.loaded.status THEN r.set.status
                                   ELSE credit[c].status
  <2>1. CASE r.op = "award"
    BY <1>0, <1>2, <1>3, <1>4, <2>1 DEF CreditShape, CreditPlace
  <2>2. CASE r.op # "award"
    <3>1. credit[c] \in CreditRow /\ r.loaded \in CreditRow /\ credit[c] # None
      BY <1>0, <1>2, <1>4, <2>2 DEF CreditShape, CreditPlace
    <3>2. credit'[c] = Flush(credit[c], r.loaded, r.set)
      BY <1>2, <1>3, <1>4, <3>1
    <3> QED
      BY <1>2, <2>2, <3>1, <3>2, CreditFlush DEF CreditShape
  <2> QED
    BY <2>1, <2>2
<1>7. credit'[c] # None
  BY <1>6, CreditAssumption
<1>8. CreditTypeOK'
  BY <1>2, <1>3, <1>4, <1>6 DEF CreditTypeOK
<1>9. CreditRequests'
  <2> SUFFICES ASSUME NEW o \in Requests, req'[o] # None
               PROVE  (CreditShape(req[o]) /\ CreditPlace(o) /\ CreditFresh(o))'
    BY DEF CreditRequests
  <2>1. /\ o # q /\ req'[o] = req[o] /\ req[o] # None
        /\ CreditShape(req[o]) /\ CreditPlace(o) /\ CreditFresh(o)
    BY <1>1 DEF CreditInv, CreditRequests
  <2>2. CASE req[o].key = c
    <3>1. c \in crossed /\ req[o].op # "award"
      BY <1>0, <1>1, <2>1, <2>2, OthersCrossed DEF CreditInv, CreditPlace
    <3> QED
      BY <1>1, <1>7, <2>1, <2>2, <3>1 DEF CreditShape, CreditPlace, CreditFresh
  <2>3. CASE req[o].key # c
    <3>1. credit'[req[o].key] = credit[req[o].key]
      BY <1>5, <2>1, <2>3 DEF CreditShape
    <3> QED
      BY <1>1, <2>1, <3>1 DEF CreditShape, CreditPlace, CreditFresh
  <2> QED
    BY <2>2, <2>3
<1>10. ASSUME NEW d \in Credits PROVE Spending(d)'
  <2>1. Spending(d)
    BY DEF CreditInv
  <2>2. CASE d # c
    <3>1. Redeeming(d)' = Redeeming(d) /\ Approved(d)' = Approved(d)
      BY <1>0, <1>1, <1>5, <2>2 DEF Redeeming, Approved
    <3> QED
      BY <1>1, <1>5, <2>1, <2>2, <3>1 DEF Spending, Left
  <2>3. CASE d = c
    <3>1. /\ n \in Nat /\ Cardinality(Redeeming(c)) \in Nat
          /\ Cardinality(Redeeming(c)) <= n
          /\ approvals[c] \in Nat /\ spent[c] \in Nat
          /\ approvals[c] * n \in Nat
          /\ (approvals[c] + 1) * n = approvals[c] * n + n
      BY <1>2, <1>4, Counts, Products
    <3>2. Redeeming(c)' = Redeeming(c) \ {q} /\ (q \in Redeeming(c) <=> r.op = "redeem")
      BY <1>0, <1>1 DEF Redeeming
    <3>3. Cardinality(Redeeming(c)') = Cardinality(Redeeming(c)) - used
      <4>1. IsFiniteSet(Redeeming(c))
        BY Counts
      <4>2. Cardinality(Redeeming(c) \ {q}) = IF q \in Redeeming(c)
                                              THEN Cardinality(Redeeming(c)) - 1
                                              ELSE Cardinality(Redeeming(c))
        BY <4>1, FS_RemoveElement
      <4> QED
        BY <3>1, <3>2, <4>2
    <3>4. Approved(c)' <=> credit'[c].status = "approved"
      BY <1>7 DEF Approved
    <3>5. CASE r.op = "award"
      <4>1. ~Approved(c) /\ ~Approved(c)'
        BY <1>6, <3>4, <3>5 DEF Approved
      <4> QED
        BY <1>1, <1>5, <2>1, <2>3, <3>1, <3>3, <3>5, <4>1 DEF Spending, Left
    <3>6. CASE r.op = "approve"
      <4>1. Approved(c) => Approved(c)'
        BY <1>2, <1>6, <3>4, <3>6 DEF Approved, CreditShape
      <4>2. spent[c] + Left(c)' <= (approvals[c] + 1) * n
        BY <2>1, <2>3, <3>1, <3>3, <3>6 DEF Spending, Left
      <4>3. c \notin crossed => spent[c] + (IF Approved(c)' THEN 1 ELSE 0) <= approvals[c] + 1
        BY <2>1, <2>3, <3>1 DEF Spending
      <4> QED
        BY <1>1, <1>5, <2>3, <3>1, <3>6, <4>2, <4>3 DEF Spending
    <3>7. CASE r.op = "redeem"
      <4>1. ~Approved(c)' /\ r.loaded.status = "approved"
        BY <1>2, <1>6, <3>4, <3>7 DEF CreditShape
      <4>2. spent[c] + 1 + Left(c)' <= approvals[c] * n
        BY <2>1, <2>3, <3>1, <3>3, <3>7, <4>1 DEF Spending, Left
      <4>3. c \notin crossed => Approved(c)
        BY <1>0, <1>2, <1>6, <3>7, <4>1, CreditAssumption DEF CreditFresh, Approved
      <4>4. c \notin crossed => spent[c] + 1 <= approvals[c]
        BY <2>1, <2>3, <4>3 DEF Spending
      <4> QED
        BY <1>1, <1>5, <2>3, <3>1, <3>7, <4>1, <4>2, <4>4 DEF Spending
    <3> QED
      BY <1>2, <3>5, <3>6, <3>7 DEF CreditShape
  <2> QED
    BY <2>2, <2>3
<1> QED
  BY <1>1, <1>8, <1>9, <1>10 DEF CreditInv

\* A rollback takes a redemption that was to come out of the count.
LEMMA CreditAborts ==
  ASSUME CreditInv, NEW q \in Requests, AbortCredit(q)
  PROVE  CreditInv'
<1>1. /\ SessionOK'
      /\ crossed' = crossed
      /\ req'[q] = None
      /\ \A o \in Requests \ {q} : req'[o] = req[o]
  BY EndKeepsAlone DEF AbortCredit, CreditInv
<1>2. UNCHANGED <<credit, approvals, spent>>
  BY DEF AbortCredit, creditRows
<1>3. CreditRequests'
  BY <1>1, <1>2 DEF CreditInv, CreditRequests, CreditShape, CreditPlace, CreditFresh
<1>4. ASSUME NEW c \in Credits PROVE Spending(c)'
  <2>1. Redeeming(c)' = Redeeming(c) \ {q}
    BY <1>1 DEF Redeeming
  <2>2. /\ Cardinality(Redeeming(c)') \in Nat
        /\ Cardinality(Redeeming(c)') <= Cardinality(Redeeming(c))
    <3>1. IsFiniteSet(Redeeming(c)) /\ Cardinality(Redeeming(c)) \in Nat
      BY Counts
    <3>2. Redeeming(c)' \in SUBSET Redeeming(c)
      BY <2>1
    <3> QED
      BY <3>1, <3>2, FS_Subset, FS_CardinalityType
  <2>3. Approved(c)' = Approved(c)
    BY <1>2 DEF Approved
  <2>4. Left(c) \in Nat /\ Left(c)' \in Nat /\ Left(c)' <= Left(c)
    BY <2>2, <2>3, Counts DEF Left
  <2>5. spent[c] \in Nat /\ approvals[c] \in Nat /\ approvals[c] * Cardinality(Requests) \in Nat
    BY Counts, Products DEF CreditInv, CreditTypeOK
  <2> QED
    BY <1>1, <1>2, <2>3, <2>4, <2>5 DEF CreditInv, Spending
<1> QED
  BY <1>1, <1>2, <1>3, <1>4 DEF CreditInv, CreditTypeOK

\* Every step of every request keeps the invariant.
LEMMA CreditSteps == CreditInv /\ [CreditNext]_creditVars => CreditInv'
<1> SUFFICES ASSUME CreditInv, [CreditNext]_creditVars PROVE CreditInv'
  OBVIOUS
<1>1. ASSUME NEW q \in Requests, NEW c \in Credits, AwardCredit(q, c)
      PROVE  CreditInv'
  <2>1. /\ credit[c] = None
        /\ \A o \in Requests : req[o] # None => req[o].key # c
        /\ BeginCredit(q, c, award_credit, "award")
    BY <1>1 DEF AwardCredit
  <2>2. CreditShape([key |-> c, op |-> "award", loaded |-> credit[c], set |-> award_credit])
    BY <2>1 DEF CreditShape, award_credit, CreditRow
  <2> QED
    BY <2>1, <2>2, CreditBegins
<1>2. ASSUME NEW q \in Requests, NEW c \in Credits, ApproveCredit(q, c)
      PROVE  CreditInv'
  <2>1. PICK row : row = approve_credit(credit[c])
    OBVIOUS
  <2>2. BeginCredit(q, c, row, "approve") /\ credit[c] \in CreditRow
    BY <1>2, <2>1 DEF ApproveCredit, CreditInv, CreditTypeOK
  <2>3. row \in CreditRow /\ row.status = "approved"
    BY <2>1, <2>2 DEF approve_credit, CreditRow
  <2>4. CreditShape([key |-> c, op |-> "approve", loaded |-> credit[c], set |-> row])
    BY <2>2, <2>3 DEF CreditShape
  <2> QED
    BY <2>2, <2>4, CreditBegins
<1>3. ASSUME NEW q \in Requests, NEW c \in Credits, NEW p \in Purposes, RedeemCredit(q, c, p)
      PROVE  CreditInv'
  <2>1. PICK row : row = redeem_credit(credit[c], p)
    OBVIOUS
  <2>2. BeginCredit(q, c, row, "redeem") /\ row # Refused /\ credit[c] \in CreditRow
    BY <1>3, <2>1 DEF RedeemCredit, BeginCredit, CreditInv, CreditTypeOK
  <2>3. credit[c].status = "approved" /\ row \in CreditRow /\ row.status = "redeemed"
    BY <2>1, <2>2 DEF redeem_credit, CreditRow
  <2>4. CreditShape([key |-> c, op |-> "redeem", loaded |-> credit[c], set |-> row])
    BY <2>2, <2>3 DEF CreditShape
  <2> QED
    BY <2>2, <2>4, CreditBegins
<1>4. CASE UNCHANGED creditVars
  <2>1. UNCHANGED <<session, req, crossed, credit, approvals, spent>>
    BY <1>4 DEF creditVars, session, creditRows
  <2>2. SessionOK'
    BY <2>1, StillAlone DEF CreditInv
  <2>3. CreditRequests'
    BY <2>1 DEF CreditInv, CreditRequests, CreditShape, CreditPlace, CreditFresh
  <2>4. ASSUME NEW c \in Credits PROVE Spending(c)'
    <3>1. Left(c)' = Left(c) /\ Approved(c)' = Approved(c)
      BY <2>1 DEF Left, Approved, Redeeming
    <3> QED
      BY <2>1, <3>1 DEF CreditInv, Spending
  <2> QED
    BY <2>1, <2>2, <2>3, <2>4 DEF CreditInv, CreditTypeOK
<1> QED
  BY <1>1, <1>2, <1>3, <1>4, CreditCommits, CreditAborts DEF CreditNext

\* However many requests award, approve and redeem at once, an approval pays once
\* for each request that could be in flight, and just once where no two have
\* crossed on the credit (service.py:820).
THEOREM ApprovalsBoundSpending == CreditSpec => []SpendingIsBounded
<1>1. CreditInv => SpendingIsBounded
  <2> SUFFICES ASSUME CreditInv, NEW c \in Credits
               PROVE  spent[c] <= approvals[c] *
                         (IF c \in crossed THEN Cardinality(Requests) ELSE 1)
    BY DEF SpendingIsBounded
  <2>1. spent[c] \in Nat /\ approvals[c] \in Nat /\ Spending(c)
    BY DEF CreditInv, CreditTypeOK
  <2>2. Left(c) \in Nat /\ approvals[c] * Cardinality(Requests) \in Nat
    BY <2>1, Counts, Products DEF Left
  <2>3. CASE c \in crossed
    BY <2>1, <2>2, <2>3 DEF Spending
  <2>4. CASE c \notin crossed
    BY <2>1, <2>4 DEF Spending
  <2> QED
    BY <2>3, <2>4
<1> QED
  BY CreditStarts, CreditSteps, <1>1, PTL DEF CreditSpec, creditVars

-----------------------------------------------------------------------------
(* The workflow                                                            *)

\* The tables are well formed, and the part the behaviour follows as it should be.
WorkflowInv ==
    /\ part \in Parts
    /\ TypeOK
    /\ part = "submission" => SubmissionInv
    /\ part = "readiness" => ReadinessRows
    /\ part = "contribution" => ContributionInv
    /\ part = "credit" => CreditInv

\* What every table holds says nothing of requests.
LEMMA RowsStay ==
  ASSUME TypeOK
  PROVE  /\ UNCHANGED submissionRows => SubmissionTypeOK'
         /\ UNCHANGED readinessRows => ReadinessTypeOK'
         /\ UNCHANGED contributionRows => ContributionTypeOK'
         /\ UNCHANGED creditRows => CreditTypeOK'
<1>1. UNCHANGED submissionRows => SubmissionTypeOK'
  BY DEF TypeOK, SubmissionTypeOK, submissionRows
<1>2. UNCHANGED readinessRows => ReadinessTypeOK'
  BY DEF TypeOK, ReadinessTypeOK, readinessRows
<1>3. UNCHANGED contributionRows => ContributionTypeOK'
  BY DEF TypeOK, ContributionTypeOK, contributionRows
<1>4. UNCHANGED creditRows => CreditTypeOK'
  BY DEF TypeOK, CreditTypeOK, creditRows
<1> QED
  BY <1>1, <1>2, <1>3, <1>4

\* The workflow keeps its tables well formed: an evaluation hangs on a submission, and
\* an approved profile was shown to somebody, for any number of requests.
THEOREM TypeCorrect == Spec => []TypeOK
<1>1. Init => WorkflowInv
  <2> SUFFICES ASSUME Init PROVE WorkflowInv
    OBVIOUS
  <2>0. ReadinessRows
    BY ReadinessRowsStart DEF Init
  <2>1. SubmissionInv /\ ReadinessRows /\ ContributionInv /\ CreditInv /\ part \in Parts
    BY <2>0, SubmissionStarts, ContributionStarts, CreditStarts DEF Init
  <2>2. TypeOK
    BY <2>1 DEF TypeOK, SubmissionInv, ReadinessRows, ContributionInv, CreditInv
  <2> QED
    BY <2>1, <2>2 DEF WorkflowInv
<1>2. WorkflowInv /\ [Next]_vars => WorkflowInv'
  <2> SUFFICES ASSUME WorkflowInv, [Next]_vars PROVE WorkflowInv'
    OBVIOUS
  <2>0. TypeOK /\ part' = part /\ part' \in Parts
    BY DEF WorkflowInv, Next, vars
  <2>1. CASE /\ part = "submission" /\ SubmissionNext
             /\ UNCHANGED readinessRows /\ UNCHANGED contributionRows /\ UNCHANGED creditRows
    <3>1. SubmissionInv'
      BY <2>1, SubmissionSteps DEF WorkflowInv
    <3>2. TypeOK'
      BY <2>0, <2>1, <3>1, RowsStay DEF TypeOK, SubmissionInv
    <3> QED
      BY <2>0, <2>1, <3>1, <3>2 DEF WorkflowInv
  <2>2. CASE /\ part = "readiness" /\ ReadinessNext
             /\ UNCHANGED submissionRows /\ UNCHANGED contributionRows /\ UNCHANGED creditRows
    <3>1. ReadinessRows'
      BY <2>2, ReadinessRowsStay DEF WorkflowInv
    <3>2. TypeOK'
      BY <2>0, <2>2, <3>1, RowsStay DEF TypeOK, ReadinessRows
    <3> QED
      BY <2>0, <2>2, <3>1, <3>2 DEF WorkflowInv
  <2>3. CASE /\ part = "contribution" /\ ContributionNext
             /\ UNCHANGED submissionRows /\ UNCHANGED readinessRows /\ UNCHANGED creditRows
    <3>1. ContributionInv'
      BY <2>3, ContributionSteps DEF WorkflowInv
    <3>2. TypeOK'
      BY <2>0, <2>3, <3>1, RowsStay DEF TypeOK, ContributionInv
    <3> QED
      BY <2>0, <2>3, <3>1, <3>2 DEF WorkflowInv
  <2>4. CASE /\ part = "credit" /\ CreditNext
             /\ UNCHANGED submissionRows /\ UNCHANGED readinessRows /\ UNCHANGED contributionRows
    <3>1. CreditInv'
      BY <2>4, CreditSteps DEF WorkflowInv
    <3>2. TypeOK'
      BY <2>0, <2>4, <3>1, RowsStay DEF TypeOK, CreditInv
    <3> QED
      BY <2>0, <2>4, <3>1, <3>2 DEF WorkflowInv
  <2>5. CASE UNCHANGED vars
    <3>1. /\ UNCHANGED submissionVars /\ UNCHANGED readinessVars
          /\ UNCHANGED contributionVars /\ UNCHANGED creditVars
      BY <2>5 DEF vars, submissionVars, readinessVars, contributionVars, creditVars
    <3>2. /\ UNCHANGED submissionRows /\ UNCHANGED readinessRows
          /\ UNCHANGED contributionRows /\ UNCHANGED creditRows
      BY <2>5 DEF vars
    <3>3. TypeOK'
      BY <2>0, <3>2, RowsStay DEF TypeOK
    <3> QED
      BY <2>0, <3>1, <3>3, SubmissionSteps, ReadinessRowsStay, ContributionSteps, CreditSteps
         DEF WorkflowInv
  <2> QED
    BY <2>1, <2>2, <2>3, <2>4, <2>5 DEF Next
<1>3. WorkflowInv => TypeOK
  BY DEF WorkflowInv
<1> QED
  BY <1>1, <1>2, <1>3, PTL DEF Spec
=============================================================================
