------------------------- MODULE Coursework_proofs -------------------------
(***************************************************************************)
(* Proofs about what happens in a class: projects, attendance, content,    *)
(* enrollment, the next node, accounts and quizzes, for any number of      *)
(* requests in flight and every value of the constants.                    *)
(*                                                                         *)
(* Every property is about rows that requests read in one step and write   *)
(* in a later one, so none is inductive.  Each invariant adds              *)
(*   SessionOK    two requests on one row have crossed there (Session.tla) *)
(*   ...Requests  what a request in flight has read, as far as the row may *)
(*                have moved since, and what it is going to write          *)
(* and what the component's property rests on: in Projects the one grade   *)
(* and the one comment a submission has, in Attendance the one record of a *)
(* learner, in Content the published texts under the item's number, in     *)
(* Enrollment the graph of every version and who edits it, in Adaptive     *)
(* that whatever can be unlocked has been, as long as no completions met.  *)
(***************************************************************************)
EXTENDS MCCoursework, FiniteSetTheorems, TLAPS

-----------------------------------------------------------------------------
(* Numbers and finite graphs                                               *)

\* Natural numbers have a least one among them.
LEMMA Least ==
  ASSUME NEW S \in SUBSET Nat, S # {}
  PROVE  \E k \in S : \A m \in S : k <= m
<1> DEFINE T == {0 .. k : k \in S}
           Below == StrictSubsetOrdering(Nat)
<1>1. T \subseteq FiniteSubsetsOf(Nat) /\ T # {}
  <2>1. ASSUME NEW k \in S PROVE 0 .. k \in FiniteSubsetsOf(Nat)
    <3>1. 0 .. k \in SUBSET Nat
      OBVIOUS
    <3>2. IsFiniteSet(0 .. k)
      BY FS_Interval
    <3> QED
      BY <3>1, <3>2 DEF FiniteSubsetsOf
  <2> QED
    BY <2>1
<1>2. PICK x \in T : \A y \in T : ~(<<y, x>> \in Below)
  <2>1. IsWellFoundedOn(Below, FiniteSubsetsOf(Nat))
    BY FS_StrictSubsetOrderingWellFounded
  <2> HIDE DEF T, Below
  <2> QED
    BY <1>1, <2>1, WFMin
<1>3. PICK k \in S : x = 0 .. k
  OBVIOUS
<1>4. ASSUME NEW m \in S, ~(k <= m) PROVE FALSE
  <2>1. 0 .. m \in T
    OBVIOUS
  <2>2. k \in 0 .. k /\ k \notin 0 .. m /\ 0 .. m \subseteq 0 .. k /\ 0 .. k \subseteq Nat
    BY <1>4
  <2>3. <<0 .. m, 0 .. k>> \in Below
    BY <2>2 DEF StrictSubsetOrdering
  <2> QED
    BY <1>2, <1>3, <2>1, <2>3
<1> QED
  BY <1>4

\* Numbers up to n have a greatest one among them.
LEMMA Greatest ==
  ASSUME NEW n \in Nat, NEW S \in SUBSET (1 .. n), S # {}
  PROVE  \E k \in S : \A m \in S : m <= k
<1> DEFINE T == {n - k : k \in S}
<1>1. T \in SUBSET Nat /\ T # {}
  <2>1. \A k \in S : k \in Nat /\ k <= n
    OBVIOUS
  <2>2. \A k \in S : n - k \in Nat
    BY <2>1
  <2> QED
    BY <2>2
<1>2. PICK x \in T : \A y \in T : x <= y
  <2> HIDE DEF T
  <2> QED
    BY <1>1, Least
<1>3. PICK k \in S : x = n - k
  OBVIOUS
<1>4. ASSUME NEW m \in S PROVE m <= k
  <2>1. n - m \in T
    OBVIOUS
  <2>2. n - k <= n - m
    BY <1>2, <1>3, <2>1
  <2> QED
    BY <2>2
<1> QED
  BY <1>4

\* A finite graph without cycles has a node to begin with in every set of nodes.
LEMMA SourceExists ==
  ASSUME IsFiniteSet(Labels), NEW E, AcyclicPairs(E), NEW S \in SUBSET Labels, S # {}
  PROVE  \E x \in S : \A y \in S : <<y, x>> \notin E
<1> DEFINE Anc(x) == {y \in S : Reaches(E, y, x)}
           T == {Anc(x) : x \in S}
           Below == StrictSubsetOrdering(S)
<1>1. IsFiniteSet(S)
  BY FS_Subset
<1>2. T \subseteq FiniteSubsetsOf(S) /\ T # {}
  <2>1. ASSUME NEW x \in S PROVE Anc(x) \in FiniteSubsetsOf(S)
    <3>1. Anc(x) \in SUBSET S
      OBVIOUS
    <3>2. IsFiniteSet(Anc(x))
      BY <1>1, <3>1, FS_Subset
    <3> QED
      BY <3>1, <3>2 DEF FiniteSubsetsOf
  <2> QED
    BY <2>1
<1>3. PICK A \in T : \A B \in T : ~(<<B, A>> \in Below)
  <2>1. IsWellFoundedOn(Below, FiniteSubsetsOf(S))
    BY FS_StrictSubsetOrderingWellFounded
  <2> HIDE DEF T, Below
  <2> QED
    BY <1>2, <2>1, WFMin
<1>4. PICK x \in S : A = Anc(x)
  OBVIOUS
<1>5. ASSUME NEW y \in S, <<y, x>> \in E PROVE FALSE
  <2>1. Anc(y) \subseteq Anc(x)
    BY <1>5, ReachesNext
  <2>2. x \in Anc(x)
    BY ReachesSelf
  <2>3. x \notin Anc(y)
    BY <1>5, NoLoop
  <2>4. <<Anc(y), Anc(x)>> \in Below
    <3>1. Anc(y) \in SUBSET S /\ Anc(x) \in SUBSET S /\ Anc(y) # Anc(x)
      BY <2>2, <2>3
    <3> HIDE DEF Anc
    <3> QED
      BY <2>1, <3>1 DEF StrictSubsetOrdering
  <2> QED
    BY <1>3, <1>4, <2>4
<1> QED
  BY <1>5

-----------------------------------------------------------------------------
(* Projects                                                                *)

projectVars == <<session, projectRows>>

AtMostOne(S) == \A x, y \in S : x = y

FeedbackOn(i) == {f \in feedback : f.grade.of = i}

Handing == {q \in Requests : req[q] # None /\ req[q].op = "submit"}

\* What a request may be going to write.
Editing(r) ==
    \/ r.op = "create" /\ r.key = "project" /\ r.set \in ProjectRow
    \/ r.op = "update" /\ r.key = "project" /\ r.set \in ProjectRow /\ r.loaded \in ProjectRow
    \/ r.op = "delete" /\ r.key = "project"
    \/ r.op = "rubric" /\ r.key = "rubric"

HandingIn(r) ==
    /\ r.op = "submit" /\ r.key = "submit"
    /\ r.place \in Handins
    /\ r.set \in HandinRow /\ r.set.status = "submitted"

Grading(r) ==
    /\ r.op = "grade" /\ r.key \in Handins
    /\ r.row \in HandinRow
    /\ r.rows \subseteq GradeRow /\ r.rows # {} /\ \A g \in r.rows : g.of = r.key
    /\ IF r.found = {} THEN AtMostOne(r.rows) ELSE r.rows = r.found

ProjectShape(r) == Editing(r) \/ HandingIn(r) \/ Grading(r)

\* The place of a submission to come is free; a grading has read a grade that is
\* still there, and all there is where nobody crossed it.
ProjectFresh(r) ==
    /\ r.op = "rubric" /\ "rubric" \notin crossed /\ r.first => rubric = {}
    /\ r.op = "submit" => handin[r.place] = None
    /\ r.op = "grade" /\ handin[r.key] # None =>
          /\ r.row.status = "graded" => handin[r.key].status = "graded"
          /\ r.key \notin crossed =>
                /\ r.found = GradesOf(r.key)
                /\ r.heard = {f \in feedback : f.grade \in r.found}

\* Nobody else is on the place of a submission to come.
Apart(r, o) ==
    r.op = "submit" => o.key # r.place /\ (o.op = "submit" => o.place # r.place)

ProjectRequests ==
    /\ \A q \in Requests : req[q] # None => ProjectShape(req[q]) /\ ProjectFresh(req[q])
    /\ \A q, o \in Requests : q # o /\ req[q] # None /\ req[o] # None => Apart(req[q], req[o])

\* Submissions there are or will be: one more than the limit for each other request.
Room ==
    0 \notin limits =>
        \E m \in limits \cup {0} :
            Cardinality(Handed) + Cardinality(Handing) <=
                m + (IF "submit" \in crossed THEN Cardinality(Requests) - 1 ELSE 0)

LimitKnown ==
    /\ limits \subseteq Limits
    /\ project # None => project.limit \in limits

OneEach ==
    /\ "rubric" \notin crossed => AtMostOne(rubric)
    /\ \A i \in Handed :
          /\ handin[i].status = "graded" <=> GradesOf(i) # {}
          /\ i \notin crossed => AtMostOne(GradesOf(i)) /\ AtMostOne(FeedbackOn(i))

ProjectsInv ==
    /\ SessionOK
    /\ ProjectsTypeOK
    /\ ProjectRequests
    /\ LimitKnown
    /\ Room
    /\ OneEach

-----------------------------------------------------------------------------
\* The sets the limit counts.
LEMMA FiniteCounts ==
  /\ IsFiniteSet(Requests) /\ IsFiniteSet(Handed) /\ IsFiniteSet(Handing)
  /\ Cardinality(Requests) \in Nat /\ Cardinality(Handed) \in Nat /\ Cardinality(Handing) \in Nat
  /\ Cardinality(Handing) <= Cardinality(Requests)
  /\ \A q \in Requests : req[q] = None => Cardinality(Handing) <= Cardinality(Requests) - 1
<1>1. IsFiniteSet(Requests) /\ IsFiniteSet(Handed) /\ IsFiniteSet(Handing)
  <2>1. Handed \in SUBSET Handins /\ Handing \in SUBSET Requests
    BY DEF Handed, Handing
  <2> QED
    BY <2>1, ProjectsAssumption, FS_Subset
<1>2. /\ Cardinality(Requests) \in Nat /\ Cardinality(Handed) \in Nat
      /\ Cardinality(Handing) \in Nat
  BY <1>1, FS_CardinalityType
<1>3. Cardinality(Handing) <= Cardinality(Requests)
  BY <1>1, FS_Subset DEF Handing
<1>4. ASSUME NEW q \in Requests, req[q] = None
      PROVE  Cardinality(Handing) <= Cardinality(Requests) - 1
  <2>1. Handing \in SUBSET (Requests \ {q})
    BY <1>4 DEF Handing
  <2>2. IsFiniteSet(Requests \ {q}) /\ Cardinality(Requests \ {q}) = Cardinality(Requests) - 1
    BY <1>1, FS_RemoveElement
  <2> QED
    BY <2>1, <2>2, FS_Subset
<1> QED
  BY <1>1, <1>2, <1>3, <1>4

\* Room stays while no more submissions are there or to come.
LEMMA RoomStays ==
  ASSUME Room, limits \subseteq limits', limits' \subseteq Nat,
         "submit" \in crossed => "submit" \in crossed',
         "submit" \in crossed' => Requests # {},
         Cardinality(Handed)' + Cardinality(Handing)' <= Cardinality(Handed) + Cardinality(Handing)
  PROVE  Room'
<1>1. \A n : n \in Requests => Cardinality(Requests) >= 1
  BY FiniteCounts, FS_EmptySet
<1>2. /\ Cardinality(Handed)' \in Nat /\ Cardinality(Handing)' \in Nat
      /\ Cardinality(Handed) \in Nat /\ Cardinality(Handing) \in Nat
      /\ Cardinality(Requests) \in Nat
  <2>1. Handed' \in SUBSET Handins /\ Handing' \in SUBSET Requests
    BY DEF Handed, Handing
  <2>2. IsFiniteSet(Handed') /\ IsFiniteSet(Handing')
    BY <2>1, ProjectsAssumption, FS_Subset
  <2>3. Cardinality(Handed') \in Nat /\ Cardinality(Handing') \in Nat
    BY <2>2, FS_CardinalityType
  <2> QED
    BY <2>3, FiniteCounts
<1> SUFFICES ASSUME 0 \notin limits'
             PROVE  \E m \in limits' \cup {0} :
                       Cardinality(Handed)' + Cardinality(Handing)' <=
                          m + (IF "submit" \in crossed' THEN Cardinality(Requests) - 1 ELSE 0)
  BY DEF Room
<1>3. PICK m \in limits \cup {0} :
        Cardinality(Handed) + Cardinality(Handing) <=
            m + (IF "submit" \in crossed THEN Cardinality(Requests) - 1 ELSE 0)
  BY DEF Room
<1>4. m \in limits' \cup {0} /\ m \in Nat
  BY <1>3
<1>5. Cardinality(Handed)' + Cardinality(Handing)' <=
        m + (IF "submit" \in crossed' THEN Cardinality(Requests) - 1 ELSE 0)
  <2>1. "submit" \in crossed' => Cardinality(Requests) - 1 >= 0
    BY <1>1, <1>2
  <2> QED
    BY <1>2, <1>3, <1>4, <2>1
<1> QED
  BY <1>4, <1>5

\* A set with one element at most counts one at most.
LEMMA AtMostOneCounts == ASSUME NEW S, AtMostOne(S) PROVE Cardinality(S) <= 1
<1>1. CASE S = {}
  BY <1>1, FS_EmptySet
<1>2. CASE S # {}
  <2>1. PICK x : S = {x}
    BY <1>2 DEF AtMostOne
  <2>2. Cardinality({x}) = 1
    BY FS_Singleton
  <2> QED
    BY <2>1, <2>2
<1> QED
  BY <1>1, <1>2

\* There is no project at the start.
LEMMA ProjectsStarts == ProjectsInit => ProjectsInv
<1> SUFFICES ASSUME ProjectsInit PROVE ProjectsInv
  OBVIOUS
<1>1. Handed = {} /\ Handing = {} /\ crossed = {} /\ limits = {}
  BY DEF ProjectsInit, SessionInit, Handed, Handing
<1>2. Room
  <2>1. Cardinality(Handed) + Cardinality(Handing) <= 0 + 0
    BY <1>1, FS_EmptySet
  <2> QED
    BY <1>1, <2>1 DEF Room
<1>3. SessionOK
  BY SessionStarts DEF ProjectsInit
<1>4. ProjectsTypeOK /\ ProjectRequests /\ LimitKnown
  BY DEF ProjectsInit, SessionInit, ProjectsTypeOK, ProjectRequests, LimitKnown
<1>5. OneEach
  BY <1>1 DEF ProjectsInit, OneEach, AtMostOne
<1> QED
  BY <1>2, <1>3, <1>4, <1>5 DEF ProjectsInv

\* A request that has read what it needs begins.
LEMMA ProjectsBegins ==
  ASSUME ProjectsInv, NEW q \in Requests, NEW r, Begin(q, r), UNCHANGED projectRows,
         ProjectShape(r), ProjectFresh(r),
         \A o \in Requests : req[o] # None => Apart(r, req[o]) /\ Apart(req[o], r),
         r.op = "submit" /\ 0 \notin limits =>
            \E m \in limits : Cardinality(Handed) + 1 <= m
  PROVE  ProjectsInv'
<1>1. /\ SessionOK'
      /\ crossed \subseteq crossed'
      /\ req[q] = None
      /\ req'[q] = r
      /\ \A o \in Requests \ {q} : req'[o] = req[o]
  BY BeginKeepsAlone DEF ProjectsInv, Begin
<1>2. UNCHANGED <<project, handin, rubric, grade, feedback, limits>>
  BY DEF projectRows
<1>3. Handed' = Handed /\ \A i : GradesOf(i)' = GradesOf(i) /\ FeedbackOn(i)' = FeedbackOn(i)
  BY <1>2 DEF Handed, GradesOf, FeedbackOn
<1>4. ProjectRequests'
  <2>1. ASSUME NEW o \in Requests, req'[o] # None
        PROVE  ProjectShape(req[o])' /\ ProjectFresh(req[o])'
    <3>1. PICK s : s = req'[o] /\ ProjectShape(s) /\ ProjectFresh(s)
      BY <1>1, <2>1 DEF ProjectsInv, ProjectRequests
    <3>2. ProjectShape(req[o])'
      BY <3>1 DEF ProjectShape, Editing, HandingIn, Grading
    <3>3. ProjectFresh(req[o])'
      BY <1>1, <1>2, <3>1 DEF ProjectFresh, GradesOf
    <3> QED
      BY <3>2, <3>3
  <2>2. ASSUME NEW a \in Requests, NEW b \in Requests, a # b, req'[a] # None, req'[b] # None
        PROVE  Apart(req[a], req[b])'
    <3>1. Apart(req'[a], req'[b])
      BY <1>1, <2>2 DEF ProjectsInv, ProjectRequests
    <3> QED
      BY <3>1 DEF Apart
  <2> QED
    BY <2>1, <2>2 DEF ProjectRequests
<1>5. Room'
  <2>1. CASE r.op # "submit" \/ r = None
    <3>1. Handing' = Handing
      BY <1>1, <2>1 DEF Handing
    <3>2. "submit" \in crossed' => Requests # {}
      OBVIOUS
    <3>3. Cardinality(Handed)' = Cardinality(Handed) /\ Cardinality(Handing)' = Cardinality(Handing)
      BY <1>3, <3>1
    <3>4. Cardinality(Handed)' + Cardinality(Handing)' <= Cardinality(Handed) + Cardinality(Handing)
      BY <3>3, FiniteCounts
    <3>5. limits' \subseteq Nat
      BY <1>2, ProjectsAssumption DEF ProjectsInv, LimitKnown
    <3> QED
      BY <1>1, <1>2, <3>4, <3>5, RoomStays DEF ProjectsInv
  <2>2. CASE r.op = "submit" /\ r # None
    <3> SUFFICES ASSUME 0 \notin limits
                 PROVE  \E m \in limits \cup {0} :
                           Cardinality(Handed) + Cardinality(Handing)' <=
                              m + (IF "submit" \in crossed' THEN Cardinality(Requests) - 1 ELSE 0)
      BY <1>2, <1>3 DEF Room
    <3>1. PICK m \in limits : Cardinality(Handed) + 1 <= m
      BY <2>2
    <3>2. m \in Nat
      BY ProjectsAssumption DEF ProjectsInv, LimitKnown
    <3>3. Handing' = Handing \cup {q} /\ q \notin Handing
      BY <1>1, <2>2 DEF Handing
    <3>4. Cardinality(Handing)' = Cardinality(Handing) + 1
      BY <3>3, FiniteCounts, FS_AddElement
    <3>5. Cardinality(Handing) <= Cardinality(Requests) - 1
      BY <1>1, FiniteCounts
    <3>6. CASE Handing = {}
      <4>1. Cardinality(Handing) = 0
        BY <3>6, FS_EmptySet
      <4> QED
        BY <3>1, <3>2, <3>4, <3>5, <4>1, FiniteCounts
    <3>7. CASE Handing # {}
      <4>1. PICK o \in Requests \ {q} : req'[o] # None /\ req'[o].key = "submit"
        BY <1>1, <3>7 DEF Handing, ProjectsInv, ProjectRequests, ProjectShape, Editing,
           HandingIn, Grading
      <4>2. req'[q].key = "submit"
        BY <1>1, <2>2 DEF ProjectShape, Editing, HandingIn, Grading
      <4>3. req'[q] # None
        BY <1>1, <2>2
      <4>4. "submit" \in crossed'
        BY <1>1, <4>1, <4>2, <4>3 DEF SessionOK, Alone
      <4> QED
        BY <3>1, <3>2, <3>4, <3>5, <4>4, FiniteCounts
    <3> QED
      BY <3>6, <3>7
  <2> QED
    BY <2>1, <2>2
<1>6. (ProjectsTypeOK /\ LimitKnown)'
  BY <1>2 DEF ProjectsInv, ProjectsTypeOK, LimitKnown
<1>7. OneEach'
  BY <1>1, <1>2, <1>3 DEF ProjectsInv, OneEach
<1> QED
  BY <1>1, <1>4, <1>5, <1>6, <1>7 DEF ProjectsInv

\* A commit or a rollback of a request that hands nothing in leaves the others
\* as they were, and the tables as the request says.
LEMMA ProjectsEnds ==
  ASSUME ProjectsInv, NEW q \in Requests, End(q)
  PROVE  /\ SessionOK'
         /\ crossed' = crossed
         /\ req[q] # None /\ req'[q] = None
         /\ \A o \in Requests \ {q} : req'[o] = req[o]
         /\ ProjectShape(req[q]) /\ ProjectFresh(req[q])
         /\ \A o \in Requests : req'[o] # None =>
               /\ req'[o] = req[o] /\ ProjectShape(req[o]) /\ ProjectFresh(req[o])
               /\ Apart(req[q], req[o]) /\ Apart(req[o], req[q])
               /\ req[o].key = req[q].key => req[q].key \in crossed
         /\ \A a, b \in Requests : a # b /\ req'[a] # None /\ req'[b] # None =>
               Apart(req[a], req[b])'
         /\ Handing' = Handing \ {q}
<1>1. /\ SessionOK'
      /\ crossed' = crossed
      /\ req[q] # None /\ req'[q] = None
      /\ \A o \in Requests \ {q} : req'[o] = req[o]
  BY EndKeepsAlone DEF ProjectsInv
<1>2. \A o \in Requests : req'[o] # None =>
         /\ req'[o] = req[o] /\ ProjectShape(req[o]) /\ ProjectFresh(req[o])
         /\ Apart(req[q], req[o]) /\ Apart(req[o], req[q])
  BY <1>1 DEF ProjectsInv, ProjectRequests
<1>3. \A o \in Requests : req'[o] # None /\ req[o].key = req[q].key => req[q].key \in crossed
  BY <1>1, OthersCrossed DEF ProjectsInv
<1>4. ASSUME NEW a \in Requests, NEW b \in Requests, a # b, req'[a] # None, req'[b] # None
      PROVE  Apart(req[a], req[b])'
  <2>1. Apart(req'[a], req'[b])
    BY <1>1, <1>4 DEF ProjectsInv, ProjectRequests
  <2> QED
    BY <2>1 DEF Apart
<1>5. Handing' = Handing \ {q}
  BY <1>1 DEF Handing
<1>6. ProjectShape(req[q]) /\ ProjectFresh(req[q])
  BY <1>1 DEF ProjectsInv, ProjectRequests
<1> QED
  BY <1>1, <1>2, <1>3, <1>4, <1>5, <1>6

\* A rollback.
LEMMA ProjectsAborts ==
  ASSUME ProjectsInv, NEW q \in Requests, End(q), UNCHANGED projectRows
  PROVE  ProjectsInv'
<1>1. UNCHANGED <<project, handin, rubric, grade, feedback, limits>>
  BY DEF projectRows
<1>2. /\ Handed' = Handed
      /\ \A i : GradesOf(i)' = GradesOf(i) /\ FeedbackOn(i)' = FeedbackOn(i)
  BY <1>1 DEF Handed, GradesOf, FeedbackOn
<1>3. ProjectRequests'
  <2>1. ASSUME NEW o \in Requests, req'[o] # None
        PROVE  ProjectShape(req[o])' /\ ProjectFresh(req[o])'
    <3>1. PICK s : s = req'[o] /\ ProjectShape(s) /\ ProjectFresh(s)
      BY <2>1, ProjectsEnds
    <3>2. ProjectShape(req[o])'
      BY <3>1 DEF ProjectShape, Editing, HandingIn, Grading
    <3>3. ProjectFresh(req[o])'
      BY <1>1, <3>1, ProjectsEnds DEF ProjectFresh, GradesOf
    <3> QED
      BY <3>2, <3>3
  <2> QED
    BY <2>1, ProjectsEnds DEF ProjectRequests
<1>4. Room'
  <2>1. Cardinality(Handed)' + Cardinality(Handing)' <= Cardinality(Handed) + Cardinality(Handing)
    <3>1. Handing' = Handing \ {q}
      BY ProjectsEnds
    <3>2. Cardinality(Handing') <= Cardinality(Handing) /\ Cardinality(Handing') \in Nat
      BY <3>1, FiniteCounts, FS_RemoveElement, FS_Subset, FS_CardinalityType
    <3> QED
      BY <1>2, <3>2, FiniteCounts
  <2>2. limits' \subseteq Nat
    BY <1>1, ProjectsAssumption DEF ProjectsInv, LimitKnown
  <2> QED
    BY <1>1, <2>1, <2>2, RoomStays, ProjectsEnds DEF ProjectsInv
<1>5. (ProjectsTypeOK /\ LimitKnown)'
  BY <1>1 DEF ProjectsInv, ProjectsTypeOK, LimitKnown
<1>6. OneEach'
  BY <1>1, <1>2, ProjectsEnds DEF ProjectsInv, OneEach
<1> QED
  BY <1>3, <1>4, <1>5, <1>6, ProjectsEnds DEF ProjectsInv

\* A project made, edited or deleted, or a rubric set.
LEMMA ProjectCommits ==
  ASSUME ProjectsInv, NEW q \in Requests, CommitProject(q)
  PROVE  ProjectsInv'
<1>1. PICK r : r = req[q]
  OBVIOUS
<1>2. End(q)
  BY DEF CommitProject
<1>3. /\ r # None /\ Editing(r) /\ ProjectFresh(r)
      /\ r.op = "create" <=> project = None
  BY <1>1, <1>2, ProjectsEnds DEF CommitProject, ProjectShape, HandingIn, Grading
\* Whatever is written, submissions stay or go together with all that hangs on them.
<1>4. ASSUME ProjectsTypeOK', LimitKnown', limits \subseteq limits', OneEach',
             \/ UNCHANGED <<handin, grade, feedback>>
             \/ handin' = [i \in Handins |-> None],
             "rubric" \notin crossed => rubric' = rubric \/ rubric' = {} \/ r.key = "rubric"
      PROVE  ProjectsInv'
  <2>1. ProjectRequests'
    <3>1. ASSUME NEW o \in Requests, req'[o] # None
          PROVE  ProjectShape(req[o])' /\ ProjectFresh(req[o])'
      <4>1. PICK s : s = req'[o] /\ ProjectShape(s) /\ ProjectFresh(s)
                     /\ (s.key = r.key => r.key \in crossed)
        BY <1>1, <1>2, <3>1, ProjectsEnds
      <4>2. ProjectShape(req[o])'
        BY <4>1 DEF ProjectShape, Editing, HandingIn, Grading
      <4>3. s.op = "rubric" => s.key = "rubric"
        BY <4>1 DEF ProjectShape, Editing, HandingIn, Grading
      <4>4. s.op = "rubric" /\ "rubric" \notin crossed /\ s.first => rubric' = {}
        BY <1>4, <4>1, <4>3 DEF ProjectFresh
      <4>5. s.op = "submit" => handin'[s.place] = None
        BY <1>4, <4>1 DEF ProjectFresh, ProjectShape, Editing, HandingIn, Grading
      <4>6. s.op = "grade" => s.key \in Handins
        BY <4>1 DEF ProjectShape, Editing, HandingIn, Grading
      <4>7. s.op = "grade" /\ handin'[s.key] # None =>
              /\ s.row.status = "graded" => handin'[s.key].status = "graded"
              /\ s.key \notin crossed =>
                    /\ s.found = GradesOf(s.key)'
                    /\ s.heard = {f \in feedback' : f.grade \in s.found}
        BY <1>4, <4>1, <4>6 DEF ProjectFresh, GradesOf
      <4>8. crossed' = crossed
        BY <1>2, ProjectsEnds
      <4> QED
        BY <4>1, <4>2, <4>4, <4>5, <4>7, <4>8 DEF ProjectFresh, GradesOf
    <3> QED
      BY <1>2, <3>1, ProjectsEnds DEF ProjectRequests
  <2>2. Room'
    <3>1. Handing' = Handing \ {q} /\ Handed' \in SUBSET Handed
      BY <1>2, <1>4, ProjectsEnds DEF Handed
    <3>2. /\ Cardinality(Handing') <= Cardinality(Handing) /\ Cardinality(Handing') \in Nat
          /\ Cardinality(Handed') <= Cardinality(Handed) /\ Cardinality(Handed') \in Nat
      BY <3>1, FiniteCounts, FS_RemoveElement, FS_Subset, FS_CardinalityType
    <3>3. Cardinality(Handed)' + Cardinality(Handing)' <= Cardinality(Handed) + Cardinality(Handing)
      BY <3>2, FiniteCounts
    <3>4. limits' \subseteq Nat
      BY <1>4, ProjectsAssumption DEF LimitKnown
    <3> QED
      BY <1>2, <1>4, <3>3, <3>4, RoomStays, ProjectsEnds DEF ProjectsInv
  <2> QED
    BY <1>2, <1>4, <2>1, <2>2, ProjectsEnds DEF ProjectsInv
<1>5. CASE r.op \in {"create", "update"}
  <2>1. /\ project' = IF project = None THEN r.set ELSE Flush(project, r.loaded, r.set)
        /\ limits' = limits \cup {project'.limit}
        /\ UNCHANGED <<handin, rubric, grade, feedback>>
    BY <1>1, <1>5 DEF CommitProject
  <2>2. r.set \in ProjectRow /\ (r.op = "update" => r.loaded \in ProjectRow)
    BY <1>3, <1>5 DEF Editing
  <2>3. project' \in ProjectRow
    <3>1. CASE project = None
      BY <2>1, <2>2, <3>1
    <3>2. CASE project # None
      <4>1. project \in ProjectRow
        BY <3>2 DEF ProjectsInv, ProjectsTypeOK
      <4>2. Flush(project, r.loaded, r.set) =
              [limit |-> IF r.set.limit # r.loaded.limit THEN r.set.limit ELSE project.limit]
        BY <4>1 DEF Flush, ProjectRow
      <4> QED
        BY <2>1, <2>2, <3>2, <4>1, <4>2 DEF ProjectRow
    <3> QED
      BY <3>1, <3>2
  <2>4. project' # None /\ project'.limit \in Limits
    BY <2>3, ProjectRowAssumption DEF ProjectRow
  <2>5. ProjectsTypeOK' /\ LimitKnown'
    BY <2>1, <2>3, <2>4 DEF ProjectsInv, ProjectsTypeOK, LimitKnown
  <2>6. OneEach'
    BY <1>2, <2>1, ProjectsEnds DEF ProjectsInv, OneEach, Handed, GradesOf, FeedbackOn
  <2> QED
    BY <1>4, <2>1, <2>5, <2>6
<1>6. CASE r.op = "rubric"
  <2>1. /\ rubric' = IF r.first THEN rubric \cup {q} ELSE rubric
        /\ UNCHANGED <<project, handin, grade, feedback, limits>>
    BY <1>1, <1>6 DEF CommitProject
  <2>2. project # None /\ r.key = "rubric"
    BY <1>3, <1>6 DEF Editing
  <2>3. ProjectsTypeOK' /\ LimitKnown'
    BY <2>1, <2>2 DEF ProjectsInv, ProjectsTypeOK, LimitKnown
  <2>4. "rubric" \notin crossed => AtMostOne(rubric')
    BY <1>3, <1>6, <2>1 DEF ProjectsInv, OneEach, AtMostOne, ProjectFresh
  <2>5. OneEach'
    BY <1>2, <2>1, <2>4, ProjectsEnds DEF ProjectsInv, OneEach, Handed, GradesOf, FeedbackOn
  <2> QED
    BY <1>4, <2>1, <2>2, <2>3, <2>5
<1>7. CASE r.op = "delete"
  <2>1. /\ project' = None
        /\ handin' = [i \in Handins |-> None]
        /\ rubric' = {} /\ grade' = {} /\ feedback' = {}
        /\ UNCHANGED limits
    BY <1>1, <1>7 DEF CommitProject
  <2>2. ProjectsTypeOK' /\ LimitKnown'
    BY <2>1 DEF ProjectsInv, ProjectsTypeOK, LimitKnown
  <2>3. OneEach'
    BY <2>1 DEF OneEach, Handed, AtMostOne
  <2> QED
    BY <1>4, <2>1, <2>2, <2>3
<1> QED
  BY <1>3, <1>5, <1>6, <1>7 DEF Editing

\* A submission takes its place.
LEMMA SubmitCommits ==
  ASSUME ProjectsInv, NEW q \in Requests, CommitSubmit(q)
  PROVE  ProjectsInv'
<1>1. PICK r : r = req[q]
  OBVIOUS
<1>2. /\ End(q) /\ r.op = "submit" /\ project # None
      /\ handin' = [handin EXCEPT ![r.place] = r.set]
      /\ UNCHANGED <<project, rubric, grade, feedback, limits>>
  BY <1>1 DEF CommitSubmit
<1>3. HandingIn(r) /\ handin[r.place] = None /\ r # None
  BY <1>1, <1>2, ProjectsEnds DEF ProjectShape, ProjectFresh, Editing, Grading
<1>4. r.set # None /\ handin \in [Handins -> HandinRow \cup {None}]
  BY <1>3, ProjectRowAssumption DEF HandingIn, ProjectsInv, ProjectsTypeOK
<1>5. /\ handin' \in [Handins -> HandinRow \cup {None}]
      /\ handin'[r.place] = r.set
      /\ \A i \in Handins \ {r.place} : handin'[i] = handin[i]
  BY <1>2, <1>3, <1>4 DEF HandingIn
<1>6. GradesOf(r.place) = {} /\ FeedbackOn(r.place) = {}
  BY <1>3 DEF ProjectsInv, ProjectsTypeOK, GradesOf, FeedbackOn
<1>7. ProjectsTypeOK'
  BY <1>2, <1>3, <1>5 DEF ProjectsInv, ProjectsTypeOK, HandingIn, GradeRow
<1>8. LimitKnown'
  BY <1>2 DEF ProjectsInv, LimitKnown
<1>9. ProjectRequests'
  <2>1. ASSUME NEW o \in Requests, req'[o] # None
        PROVE  ProjectShape(req[o])' /\ ProjectFresh(req[o])'
    <3>1. PICK s : s = req'[o] /\ ProjectShape(s) /\ ProjectFresh(s) /\ Apart(r, s)
      BY <1>1, <1>2, <2>1, ProjectsEnds
    <3>2. ProjectShape(req[o])'
      BY <3>1 DEF ProjectShape, Editing, HandingIn, Grading
    <3>3. s.op = "submit" => s.place \in Handins \ {r.place}
      BY <1>2, <3>1 DEF Apart, ProjectShape, Editing, HandingIn, Grading
    <3>4. s.op = "grade" => s.key \in Handins \ {r.place}
      BY <1>2, <3>1 DEF Apart, ProjectShape, Editing, HandingIn, Grading
    <3>5. ProjectFresh(req[o])'
      BY <1>2, <1>5, <3>1, <3>3, <3>4, ProjectsEnds DEF ProjectFresh, GradesOf
    <3> QED
      BY <3>2, <3>5
  <2> QED
    BY <1>2, <2>1, ProjectsEnds DEF ProjectRequests
<1>10. Room'
  <2>1. Handing' = Handing \ {q} /\ q \in Handing
    BY <1>1, <1>2, <1>3, ProjectsEnds DEF Handing
  <2>2. Handed' = Handed \cup {r.place}
    BY <1>3, <1>4, <1>5 DEF Handed, HandingIn
  <2>3. Cardinality(Handing') = Cardinality(Handing) - 1
    BY <2>1, FiniteCounts, FS_RemoveElement
  <2>4. Cardinality(Handed') = Cardinality(Handed) + 1
    BY <1>3, <2>2, FiniteCounts, FS_AddElement DEF Handed
  <2>5. Cardinality(Handed)' + Cardinality(Handing)' <= Cardinality(Handed) + Cardinality(Handing)
    BY <2>3, <2>4, FiniteCounts
  <2>6. limits' \subseteq Nat
    BY <1>2, ProjectsAssumption DEF ProjectsInv, LimitKnown
  <2> QED
    BY <1>2, <2>5, <2>6, RoomStays, ProjectsEnds DEF ProjectsInv
<1>11. OneEach'
  <2>1. \A i : GradesOf(i)' = GradesOf(i) /\ FeedbackOn(i)' = FeedbackOn(i)
    BY <1>2 DEF GradesOf, FeedbackOn
  <2>2. ASSUME NEW i \in Handed'
        PROVE  /\ handin'[i].status = "graded" <=> GradesOf(i) # {}
               /\ i \notin crossed => AtMostOne(GradesOf(i)) /\ AtMostOne(FeedbackOn(i))
    <3>1. CASE i = r.place
      BY <1>3, <1>5, <1>6, <3>1 DEF HandingIn, AtMostOne
    <3>2. CASE i # r.place
      BY <1>5, <2>2, <3>2 DEF Handed, ProjectsInv, OneEach
    <3> QED
      BY <3>1, <3>2
  <2>3. "rubric" \notin crossed => AtMostOne(rubric)
    BY DEF ProjectsInv, OneEach
  <2> QED
    BY <1>2, <2>1, <2>2, <2>3, ProjectsEnds DEF OneEach
<1> QED
  BY <1>2, <1>7, <1>8, <1>9, <1>10, <1>11, ProjectsEnds DEF ProjectsInv

\* A submission is graded: by the grade it had, or by a new one.
LEMMA GradeCommits ==
  ASSUME ProjectsInv, NEW q \in Requests, CommitGrade(q)
  PROVE  ProjectsInv'
<1>1. PICK r : r = req[q]
  OBVIOUS
<1>2. /\ End(q) /\ r.op = "grade" /\ handin[r.key] # None
      /\ handin' = [handin EXCEPT ![r.key] =
                      Flush(handin[r.key], r.row, [r.row EXCEPT !.status = "graded"])]
      /\ grade' = grade \cup r.rows
      /\ feedback' = IF r.comment /\ r.heard = {}
                     THEN feedback \cup [grade : r.rows, by : {q}] ELSE feedback
      /\ UNCHANGED <<project, rubric, limits>>
  BY <1>1 DEF CommitGrade
<1>3. Grading(r) /\ ProjectFresh(r)
  BY <1>1, <1>2, ProjectsEnds DEF ProjectShape, Editing, HandingIn
<1>4. PICK i \in Handins : i = r.key
  BY <1>3 DEF Grading
<1>5. handin \in [Handins -> HandinRow \cup {None}] /\ handin[i] \in HandinRow
  BY <1>2, <1>4 DEF ProjectsInv, ProjectsTypeOK
<1>6. /\ handin'[i] \in HandinRow /\ handin'[i].status = "graded"
      /\ \A j \in Handins \ {i} : handin'[j] = handin[j]
      /\ handin' \in [Handins -> HandinRow \cup {None}]
  <2>1. r.row \in HandinRow /\ (r.row.status = "graded" => handin[i].status = "graded")
    BY <1>2, <1>3, <1>4 DEF Grading, ProjectFresh
  <2>2. Flush(handin[i], r.row, [r.row EXCEPT !.status = "graded"]) =
          [attempt |-> handin[i].attempt, status |-> "graded"]
    <3>1. [r.row EXCEPT !.status = "graded"] = [attempt |-> r.row.attempt, status |-> "graded"]
      BY <2>1 DEF HandinRow
    <3>2. DOMAIN handin[i] = {"attempt", "status"}
      BY <1>5 DEF HandinRow
    <3>3. Flush(handin[i], r.row, [attempt |-> r.row.attempt, status |-> "graded"]) =
            [attempt |-> handin[i].attempt,
             status |-> IF "graded" # r.row.status THEN "graded" ELSE handin[i].status]
      BY <3>2 DEF Flush
    <3>4. (IF "graded" # r.row.status THEN "graded" ELSE handin[i].status) = "graded"
      BY <2>1
    <3> QED
      BY <3>1, <3>3, <3>4
  <2>3. PICK after : after = [attempt |-> handin[i].attempt, status |-> "graded"]
    OBVIOUS
  <2>4. after \in HandinRow /\ after.status = "graded"
    BY <1>5, <2>3 DEF HandinRow
  <2>5. handin' = [handin EXCEPT ![i] = after]
    BY <1>2, <1>4, <2>2, <2>3
  <2> QED
    BY <1>5, <2>4, <2>5
<1>7. handin'[i] # None
  BY <1>6, ProjectRowAssumption
<1>8. Handed' = Handed /\ i \in Handed
  BY <1>2, <1>4, <1>6, <1>7 DEF Handed
<1>9. /\ r.rows \subseteq GradeRow /\ r.rows # {} /\ \A g \in r.rows : g.of = i
      /\ r.rows = r.found \/ AtMostOne(r.rows)
  BY <1>3, <1>4 DEF Grading
<1>10. \A f \in feedback' : f \in feedback \/ f.grade \in r.rows
  BY <1>2
<1>11. ProjectsTypeOK'
  <2>1. feedback' \subseteq FeedbackRow
    BY <1>2, <1>9 DEF ProjectsInv, ProjectsTypeOK, FeedbackRow
  <2>2. \A g \in grade' : handin'[g.of] # None
    <3> SUFFICES ASSUME NEW g \in grade' PROVE handin'[g.of] # None
      OBVIOUS
    <3>1. CASE g \in grade
      BY <1>6, <1>7, <3>1 DEF ProjectsInv, ProjectsTypeOK, GradeRow
    <3>2. CASE g \in r.rows
      BY <1>7, <1>9, <3>2
    <3> QED
      BY <1>2, <3>1, <3>2
  <2>3. \A f \in feedback' : \E g \in grade' : g = f.grade
    BY <1>2, <1>10 DEF ProjectsInv, ProjectsTypeOK
  <2>4. project # None
    BY <1>2, <1>4 DEF ProjectsInv, ProjectsTypeOK
  <2> QED
    BY <1>2, <1>6, <1>9, <2>1, <2>2, <2>3, <2>4 DEF ProjectsInv, ProjectsTypeOK
<1>12. LimitKnown'
  BY <1>2 DEF ProjectsInv, LimitKnown
<1>13. /\ \A j \in Handins \ {i} : GradesOf(j)' = GradesOf(j) /\ FeedbackOn(j)' = FeedbackOn(j)
       /\ GradesOf(i)' = GradesOf(i) \cup r.rows
  BY <1>2, <1>9 DEF GradesOf, FeedbackOn
<1>14. ProjectRequests'
  <2>1. ASSUME NEW o \in Requests, req'[o] # None
        PROVE  ProjectShape(req[o])' /\ ProjectFresh(req[o])'
    <3>1. PICK s : s = req'[o] /\ ProjectShape(s) /\ ProjectFresh(s) /\ Apart(s, r)
                   /\ (s.key = i => i \in crossed)
      BY <1>1, <1>2, <1>4, <2>1, ProjectsEnds
    <3>2. ProjectShape(req[o])'
      BY <3>1 DEF ProjectShape, Editing, HandingIn, Grading
    <3>3. s.op = "submit" => handin'[s.place] = None
      BY <1>4, <1>6, <3>1 DEF Apart, ProjectShape, Editing, HandingIn, Grading, ProjectFresh
    <3>4. s.op = "grade" => s.key \in Handins
      BY <3>1 DEF ProjectShape, Editing, HandingIn, Grading
    <3>5. ASSUME s.op = "grade", s.key # i, handin[s.key] # None
          PROVE  /\ s.row.status = "graded" => handin'[s.key].status = "graded"
                 /\ s.key \notin crossed =>
                       /\ s.found = GradesOf(s.key)'
                       /\ s.heard = {f \in feedback' : f.grade \in s.found}
      <4>1. s.row.status = "graded" => handin'[s.key].status = "graded"
        BY <1>6, <3>1, <3>4, <3>5 DEF ProjectFresh
      <4>2. ASSUME s.key \notin crossed
            PROVE  s.found = GradesOf(s.key)' /\ s.heard = {f \in feedback' : f.grade \in s.found}
        <5>1. s.found = GradesOf(s.key) /\ s.heard = {f \in feedback : f.grade \in s.found}
          BY <3>1, <3>5, <4>2 DEF ProjectFresh
        <5>2. \A g \in r.rows : g \notin s.found
          BY <1>9, <3>5, <5>1 DEF GradesOf
        <5>3. feedback \subseteq feedback'
          BY <1>2
        <5>4. {f \in feedback' : f.grade \in s.found} = {f \in feedback : f.grade \in s.found}
          BY <1>10, <5>2, <5>3
        <5> QED
          BY <1>13, <3>4, <3>5, <5>1, <5>4
      <4> QED
        BY <4>1, <4>2
    <3>6. s.op = "grade" /\ handin'[s.key] # None =>
            /\ s.row.status = "graded" => handin'[s.key].status = "graded"
            /\ s.key \notin crossed =>
                  /\ s.found = GradesOf(s.key)'
                  /\ s.heard = {f \in feedback' : f.grade \in s.found}
      BY <1>6, <3>1, <3>4, <3>5
    <3>7. /\ rubric' = rubric /\ crossed' = crossed
          /\ s.op = "rubric" /\ "rubric" \notin crossed /\ s.first => rubric = {}
      BY <1>2, <3>1, ProjectsEnds DEF ProjectFresh
    <3>8. ProjectFresh(req[o])'
      BY <3>1, <3>3, <3>6, <3>7 DEF ProjectFresh, GradesOf
    <3> QED
      BY <3>2, <3>8
  <2> QED
    BY <1>2, <2>1, ProjectsEnds DEF ProjectRequests
<1>15. Room'
  <2>1. Handing' = Handing \ {q}
    BY <1>2, ProjectsEnds
  <2>2. Cardinality(Handing') <= Cardinality(Handing) /\ Cardinality(Handing') \in Nat
    BY <2>1, FiniteCounts, FS_RemoveElement, FS_Subset, FS_CardinalityType
  <2>3. Cardinality(Handed)' + Cardinality(Handing)' <= Cardinality(Handed) + Cardinality(Handing)
    BY <1>8, <2>2, FiniteCounts
  <2>4. limits' \subseteq Nat
    BY <1>2, ProjectsAssumption DEF ProjectsInv, LimitKnown
  <2> QED
    BY <1>2, <2>3, <2>4, RoomStays, ProjectsEnds DEF ProjectsInv
<1>16. OneEach'
  <2>1. ASSUME NEW j \in Handed, j # i
        PROVE  /\ handin'[j].status = "graded" <=> GradesOf(j)' # {}
               /\ j \notin crossed => AtMostOne(GradesOf(j)') /\ AtMostOne(FeedbackOn(j)')
    <3>1. handin'[j] = handin[j] /\ GradesOf(j)' = GradesOf(j) /\ FeedbackOn(j)' = FeedbackOn(j)
      BY <1>6, <1>13, <2>1 DEF Handed
    <3> QED
      BY <2>1, <3>1 DEF ProjectsInv, OneEach
  <2>2. handin'[i].status = "graded" /\ GradesOf(i)' # {}
    BY <1>6, <1>9, <1>13
  <2>3. ASSUME i \notin crossed
        PROVE  AtMostOne(GradesOf(i)') /\ AtMostOne(FeedbackOn(i)')
    <3>1. r.found = GradesOf(i) /\ r.heard = {f \in feedback : f.grade \in r.found}
      BY <1>2, <1>3, <1>4, <2>3 DEF ProjectFresh
    <3>2. AtMostOne(GradesOf(i)) /\ AtMostOne(FeedbackOn(i))
      BY <1>8, <2>3 DEF ProjectsInv, OneEach
    <3>3. AtMostOne(r.rows) /\ GradesOf(i)' = r.rows
      BY <1>3, <1>9, <1>13, <3>1, <3>2 DEF Grading
    <3>4. FeedbackOn(i) = r.heard
      BY <3>1 DEF ProjectsInv, ProjectsTypeOK, FeedbackOn, GradesOf
    <3>5. CASE r.comment /\ r.heard = {}
      <4>1. FeedbackOn(i)' \subseteq [grade : r.rows, by : {q}]
        BY <1>2, <3>4, <3>5 DEF FeedbackOn
      <4>2. AtMostOne([grade : r.rows, by : {q}])
        BY <3>3 DEF AtMostOne
      <4>3. AtMostOne(FeedbackOn(i)')
        BY <4>1, <4>2 DEF AtMostOne
      <4> QED
        BY <3>3, <4>3
    <3>6. CASE ~(r.comment /\ r.heard = {})
      <4>1. FeedbackOn(i)' = FeedbackOn(i)
        BY <1>2, <3>6 DEF FeedbackOn
      <4> QED
        BY <3>2, <3>3, <4>1
    <3> QED
      BY <3>5, <3>6
  <2>4. "rubric" \notin crossed => AtMostOne(rubric)
    BY DEF ProjectsInv, OneEach
  <2>5. crossed' = crossed /\ rubric' = rubric
    BY <1>2, ProjectsEnds
  <2> QED
    BY <1>8, <2>1, <2>2, <2>3, <2>4, <2>5 DEF OneEach
<1> QED
  BY <1>2, <1>11, <1>12, <1>14, <1>15, <1>16, ProjectsEnds DEF ProjectsInv

\* What a request that edits the project, or hands in, or grades has read.
LEMMA ProjectReads ==
  ASSUME ProjectsInv, NEW q \in Requests
  PROVE  /\ \A limit \in Limits : CreateProject(q, limit) \/ UpdateProject(q, limit) => ProjectsInv'
         /\ DeleteProject(q) \/ SetRubric(q) => ProjectsInv'
<1>1. ASSUME NEW r, Begin(q, r), UNCHANGED projectRows, Editing(r),
             r.op = "rubric" => (r.first => rubric = {})
      PROVE  ProjectsInv'
  <2>1. ProjectShape(r) /\ ProjectFresh(r) /\ r.op # "submit"
    BY <1>1 DEF ProjectShape, ProjectFresh, Editing
  <2>2. ASSUME NEW o \in Requests, req[o] # None PROVE Apart(r, req[o]) /\ Apart(req[o], r)
    <3>1. r.key \in {"project", "rubric"}
      BY <1>1 DEF Editing
    <3>2. req[o].op = "submit" => req[o].place \in Handins
      BY <2>2 DEF ProjectsInv, ProjectRequests, ProjectShape, Editing, HandingIn, Grading
    <3>3. req[o].op = "submit" => r.key # req[o].place
      BY <3>1, <3>2, ProjectsAssumption
    <3> QED
      BY <2>1, <3>3 DEF Apart
  <2> QED
    BY <1>1, <2>1, <2>2, ProjectsBegins
<1>2. ASSUME NEW limit \in Limits, CreateProject(q, limit) \/ UpdateProject(q, limit)
      PROVE  ProjectsInv'
  <2>1. PICK op \in {"create", "update"} :
          /\ BeginProject(q, op, [limit |-> limit])
          /\ op = "update" => project # None
    BY <1>2 DEF CreateProject, UpdateProject
  <2>2. PICK r : r = [key |-> "project", op |-> op, loaded |-> project, set |-> [limit |-> limit]]
    OBVIOUS
  <2>3. Begin(q, r) /\ UNCHANGED projectRows
    BY <2>1, <2>2 DEF BeginProject
  <2>4. [limit |-> limit] \in ProjectRow /\ (op = "update" => project \in ProjectRow)
    BY <2>1 DEF ProjectsInv, ProjectsTypeOK, ProjectRow
  <2>5. Editing(r) /\ r.op # "rubric"
    BY <2>1, <2>2, <2>4 DEF Editing
  <2> QED
    BY <1>1, <2>3, <2>5
<1>3. ASSUME DeleteProject(q) PROVE ProjectsInv'
  <2>1. PICK r : r = [key |-> "project", op |-> "delete", loaded |-> project, set |-> None]
    OBVIOUS
  <2>2. Begin(q, r) /\ UNCHANGED projectRows /\ Editing(r) /\ r.op # "rubric"
    BY <1>3, <2>1 DEF DeleteProject, BeginProject, Editing
  <2> QED
    BY <1>1, <2>2
<1>4. ASSUME SetRubric(q) PROVE ProjectsInv'
  <2>1. PICK r : r = [key |-> "rubric", op |-> "rubric", first |-> rubric = {}]
    OBVIOUS
  <2>2. Begin(q, r) /\ UNCHANGED projectRows
    BY <1>4, <2>1 DEF SetRubric
  <2>3. Editing(r) /\ (r.first => rubric = {})
    BY <2>1 DEF Editing
  <2> QED
    BY <1>1, <2>2, <2>3
<1> QED
  BY <1>2, <1>3, <1>4

\* A learner hands in while the limit has room.
LEMMA HandsIn ==
  ASSUME ProjectsInv, NEW q \in Requests, NEW i \in Handins, SubmitProject(q, i)
  PROVE  ProjectsInv'
<1>1. PICK r : r = [key |-> "submit", op |-> "submit", place |-> i, set |-> submit_project(project)]
  OBVIOUS
<1>2. /\ project # None /\ handin[i] = None
      /\ \A o \in Requests : req[o] # None =>
            req[o].key # i /\ (req[o].op = "submit" => req[o].place # i)
      /\ submit_project(project) # None
      /\ Begin(q, r)
      /\ UNCHANGED projectRows
  BY <1>1 DEF SubmitProject, Refused
<1>3. /\ ~LimitReached(project)
      /\ submit_project(project) = [attempt |-> Cardinality(Handed) + 1, status |-> "submitted"]
  BY <1>2 DEF submit_project, Refused
<1>4. HandingIn(r)
  BY <1>1, <1>3, FiniteCounts DEF HandingIn, HandinRow
<1>5. ProjectShape(r) /\ ProjectFresh(r)
  BY <1>1, <1>2, <1>4 DEF ProjectShape, ProjectFresh
<1>6. ASSUME NEW o \in Requests, req[o] # None PROVE Apart(r, req[o]) /\ Apart(req[o], r)
  <2>1. req[o].op = "submit" => req[o].place \in Handins
    BY <1>6 DEF ProjectsInv, ProjectRequests, ProjectShape, Editing, HandingIn, Grading
  <2> QED
    BY <1>1, <1>2, <1>6, <2>1, ProjectsAssumption DEF Apart
<1>7. 0 \notin limits => \E m \in limits : Cardinality(Handed) + 1 <= m
  <2>1. project.limit \in limits /\ project.limit \in Nat
    BY <1>2, ProjectsAssumption DEF ProjectsInv, LimitKnown
  <2> QED
    BY <1>3, <2>1, FiniteCounts DEF LimitReached
<1> QED
  BY <1>2, <1>5, <1>6, <1>7, ProjectsBegins

\* A grading reads the submission with its grade and the feedback on it.
LEMMA Grades ==
  ASSUME ProjectsInv, NEW q \in Requests, NEW i \in Handins, NEW comment \in BOOLEAN,
         GradeSubmission(q, i, comment)
  PROVE  ProjectsInv'
<1>1. PICK r : r = [key |-> i, op |-> "grade", found |-> found_grade(i), row |-> handin[i],
                    rows |-> grade_submission(q, i), comment |-> comment,
                    heard |-> {f \in feedback : f.grade \in found_grade(i)}]
  OBVIOUS
<1>2. handin[i] # None /\ Begin(q, r) /\ UNCHANGED projectRows
  BY <1>1 DEF GradeSubmission
<1>3. handin[i] \in HandinRow
  BY <1>2 DEF ProjectsInv, ProjectsTypeOK
<1>4. /\ r.key = i /\ r.op = "grade" /\ r.row = handin[i] /\ r.found = GradesOf(i)
      /\ r.rows = IF GradesOf(i) = {} THEN {[of |-> i, by |-> q]} ELSE GradesOf(i)
      /\ r.heard = {f \in feedback : f.grade \in r.found}
  BY <1>1 DEF found_grade, grade_submission
<1>5. Grading(r)
  <2>1. GradesOf(i) \subseteq GradeRow /\ \A g \in GradesOf(i) : g.of = i
    BY DEF ProjectsInv, ProjectsTypeOK, GradesOf
  <2>2. [of |-> i, by |-> q] \in GradeRow
    BY DEF GradeRow
  <2>3. CASE GradesOf(i) = {}
    <3>1. r.rows = {[of |-> i, by |-> q]}
      BY <1>4, <2>3
    <3> QED
      BY <1>3, <1>4, <2>2, <2>3, <3>1 DEF Grading, AtMostOne
  <2>4. CASE GradesOf(i) # {}
    BY <1>3, <1>4, <2>1, <2>4 DEF Grading
  <2> QED
    BY <2>3, <2>4
<1>6. ProjectShape(r) /\ ProjectFresh(r)
  BY <1>4, <1>5 DEF ProjectShape, ProjectFresh
<1>7. ASSUME NEW o \in Requests, req[o] # None PROVE Apart(r, req[o]) /\ Apart(req[o], r)
  <2>1. req[o].op = "submit" => handin[req[o].place] = None
    BY <1>7 DEF ProjectsInv, ProjectRequests, ProjectFresh
  <2> QED
    BY <1>2, <1>4, <2>1 DEF Apart
<1>8. r.op # "submit"
  BY <1>4
<1> QED
  BY <1>2, <1>6, <1>7, <1>8, ProjectsBegins

\* Every step of every request keeps the invariant.
LEMMA ProjectsSteps == ProjectsInv /\ [ProjectsNext]_projectVars => ProjectsInv'
<1> SUFFICES ASSUME ProjectsInv, [ProjectsNext]_projectVars PROVE ProjectsInv'
  OBVIOUS
<1>1. ASSUME NEW q \in Requests, EditProject(q)
      PROVE  ProjectsInv'
  <2>1. ASSUME NEW limit \in Limits, CreateProject(q, limit) \/ UpdateProject(q, limit)
        PROVE  ProjectsInv'
    BY <2>1, ProjectReads
  <2>2. CASE DeleteProject(q)
    BY <2>2, ProjectReads
  <2>3. CASE CommitProject(q)
    BY <2>3, ProjectCommits
  <2>4. CASE AbortProjects(q)
    BY <2>4, ProjectsAborts DEF AbortProjects
  <2> QED
    BY <1>1, <2>1, <2>2, <2>3, <2>4 DEF EditProject
<1>2. ASSUME NEW q \in Requests, SetRubric(q)
      PROVE  ProjectsInv'
  BY <1>2, ProjectReads
<1>3. ASSUME NEW q \in Requests, NEW i \in Handins, SubmitProject(q, i)
      PROVE  ProjectsInv'
  BY <1>3, HandsIn
<1>4. ASSUME NEW q \in Requests, NEW i \in Handins, NEW comment \in BOOLEAN,
             GradeSubmission(q, i, comment)
      PROVE  ProjectsInv'
  BY <1>4, Grades
<1>5. ASSUME NEW q \in Requests, CommitSubmit(q)
      PROVE  ProjectsInv'
  BY <1>5, SubmitCommits
<1>6. ASSUME NEW q \in Requests, CommitGrade(q)
      PROVE  ProjectsInv'
  BY <1>6, GradeCommits
<1>7. CASE UNCHANGED projectVars
  <2>1. UNCHANGED <<session, req, crossed, project, handin, rubric, grade, feedback, limits>>
    BY <1>7 DEF projectVars, session, projectRows
  <2>2. SessionOK'
    BY <2>1, StillAlone DEF ProjectsInv
  <2>3. Handed' = Handed /\ Handing' = Handing
        /\ \A i : GradesOf(i)' = GradesOf(i) /\ FeedbackOn(i)' = FeedbackOn(i)
    BY <2>1 DEF Handed, Handing, GradesOf, FeedbackOn
  <2>4. (ProjectsTypeOK /\ LimitKnown /\ Room /\ OneEach)'
    BY <2>1, <2>3 DEF ProjectsInv, ProjectsTypeOK, LimitKnown, Room, OneEach
  <2>5. ProjectRequests'
    <3>1. ASSUME NEW o \in Requests, req'[o] # None
          PROVE  ProjectShape(req[o])' /\ ProjectFresh(req[o])'
      <4>1. PICK s : s = req[o] /\ ProjectShape(s) /\ ProjectFresh(s)
        BY <2>1, <3>1 DEF ProjectsInv, ProjectRequests
      <4>2. ProjectShape(req[o])'
        BY <2>1, <4>1 DEF ProjectShape, Editing, HandingIn, Grading
      <4>3. ProjectFresh(req[o])'
        BY <2>1, <4>1 DEF ProjectFresh, GradesOf
      <4> QED
        BY <4>2, <4>3
    <3>2. ASSUME NEW a \in Requests, NEW b \in Requests, a # b, req'[a] # None, req'[b] # None
          PROVE  Apart(req[a], req[b])'
      BY <2>1, <3>2 DEF ProjectsInv, ProjectRequests, Apart
    <3> QED
      BY <3>1, <3>2 DEF ProjectRequests
  <2> QED
    BY <2>2, <2>4, <2>5 DEF ProjectsInv
<1> QED
  BY <1>1, <1>2, <1>3, <1>4, <1>5, <1>6, <1>7 DEF ProjectsNext, HandInNext, RubricNext

\* The submission limit is exceeded only by requests in flight together, each by
\* one, whatever limits the project is given (projects/service.py:266).
THEOREM SubmissionsAreLimited == ProjectsSpec => []LimitHolds
<1>1. ProjectsInv => LimitHolds
  <2> SUFFICES ASSUME ProjectsInv, 0 \notin limits
               PROVE  \E m \in limits \cup {0} :
                         Cardinality(Handed) <=
                            m + (IF "submit" \in crossed THEN Cardinality(Requests) - 1 ELSE 0)
    BY DEF LimitHolds
  <2>1. PICK m \in limits \cup {0} :
          Cardinality(Handed) + Cardinality(Handing) <=
              m + (IF "submit" \in crossed THEN Cardinality(Requests) - 1 ELSE 0)
    BY DEF ProjectsInv, Room
  <2>2. m \in Nat
    BY <2>1, ProjectsAssumption DEF ProjectsInv, LimitKnown
  <2> QED
    BY <2>1, <2>2, FiniteCounts
<1> QED
  BY ProjectsStarts, ProjectsSteps, <1>1, PTL DEF ProjectsSpec, projectVars

\* A submission is graded if and only if it has a grade, and unless requests met
\* there is one rubric, one grade and one feedback (projects/service.py:204, 467, 488).
THEOREM GradesStayOne == ProjectsSpec => []GradesAgree
<1>1. ProjectsInv => GradesAgree
  <2>1. \A i : {f \in feedback : f.grade.of = i} = FeedbackOn(i)
    BY DEF FeedbackOn
  <2>2. \A S : AtMostOne(S) => Cardinality(S) <= 1
    BY AtMostOneCounts
  <2> SUFFICES ASSUME ProjectsInv PROVE GradesAgree
    OBVIOUS
  <2>3. "rubric" \notin crossed => Cardinality(rubric) <= 1
    BY <2>2 DEF ProjectsInv, OneEach
  <2>4. ASSUME NEW i \in Handed
        PROVE  /\ handin[i].status = "graded" <=> GradesOf(i) # {}
               /\ i \notin crossed => /\ Cardinality(GradesOf(i)) <= 1
                                      /\ Cardinality({f \in feedback : f.grade.of = i}) <= 1
    <3>1. /\ handin[i].status = "graded" <=> GradesOf(i) # {}
          /\ i \notin crossed => AtMostOne(GradesOf(i)) /\ AtMostOne(FeedbackOn(i))
      BY DEF ProjectsInv, OneEach
    <3> QED
      BY <2>1, <2>2, <3>1
  <2> QED
    BY <2>3, <2>4 DEF GradesAgree
<1> QED
  BY ProjectsStarts, ProjectsSteps, <1>1, PTL DEF ProjectsSpec, projectVars

-----------------------------------------------------------------------------
(* Attendance                                                              *)

attendanceVars == <<session, attendanceRows>>

\* What a request has read of the roll and will insert.
Marking(r) ==
    /\ r.key = "roll" /\ planned
    /\ r.batch \in Batches
    /\ DOMAIN r.rows \subseteq Marked(r.batch)
    /\ \A l \in DOMAIN r.rows : r.rows[l] \in RecordRow /\ r.rows[l].learner = l
    /\ r.new \subseteq RecordRow
    /\ \A x \in r.new : x.learner \in Marked(r.batch)

\* The rows it updates are all there are of its learners, and it inserts the others.
MarkingFresh(r) ==
    /\ DOMAIN r.rows = {l \in Marked(r.batch) : \E x \in records : x.learner = l}
    /\ \A l \in DOMAIN r.rows : r.rows[l] \in records
    /\ \E p \in Requests : r.new = Inserted(p, r.batch, records)

AttendanceRequests ==
    \A q \in Requests : req[q] # None =>
        \/ req[q].key = "session"
        \/ Marking(req[q]) /\ ("roll" \notin crossed => MarkingFresh(req[q]))

RecordsOf(l) == {x \in records : x.learner = l}

\* A learner has a record if marked, with the last mark, and only one.
OneRecord ==
    "roll" \notin crossed =>
        \A l \in Learners :
            \/ marked[l] = None /\ RecordsOf(l) = {}
            \/ \E q \in Requests : RecordsOf(l) = {[learner |-> l, status |-> marked[l], by |-> q]}

AttendanceInv ==
    /\ SessionOK
    /\ AttendanceTypeOK
    /\ AttendanceRequests
    /\ OneRecord

-----------------------------------------------------------------------------
\* A learner of a batch has a last mark in it.
LEMMA LastMarkIs ==
  ASSUME NEW batch \in Batches, NEW l \in Marked(batch)
  PROVE  LastMark(batch, l) \in Marks /\ LastMark(batch, l) # None /\ l \in Learners
<1>1. PICK n \in Nat : batch \in [1 .. n -> [learner : Learners, status : Marks]]
  <2>1. batch \in Seq([learner : Learners, status : Marks])
    BY AttendanceAssumption
  <2>2. \A S : batch \in Seq(S) => Len(batch) \in Nat /\ batch \in [1 .. Len(batch) -> S]
    OBVIOUS
  <2> QED
    BY <2>1, <2>2
<1> DEFINE S == {k \in DOMAIN batch : batch[k].learner = l}
<1>2. S \in SUBSET (1 .. n) /\ S # {}
  BY <1>1 DEF Marked
<1> HIDE DEF S
<1>3. PICK k \in S : \A m \in S : m <= k
  BY <1>2, Greatest
<1> USE DEF S
<1>4. \E j \in DOMAIN batch :
         /\ batch[j].learner = l
         /\ \A m \in DOMAIN batch : batch[m].learner = l => m <= j
  BY <1>3
<1>5. PICK j \in DOMAIN batch : LastMark(batch, l) = batch[j].status
  BY <1>4 DEF LastMark
<1>6. batch[j].status \in Marks /\ l \in Learners
  BY <1>1 DEF Marked
<1> QED
  BY <1>5, <1>6, AttendanceAssumption

\* Nobody is marked at the start.
LEMMA AttendanceStarts == AttendanceInit => AttendanceInv
  BY SessionStarts DEF AttendanceInit, SessionInit, AttendanceInv, AttendanceTypeOK,
     AttendanceRequests, OneRecord, RecordsOf

\* A request begins: it has read the roll, or plans the session.
LEMMA AttendanceBegins ==
  ASSUME AttendanceInv, NEW q \in Requests, NEW r, Begin(q, r), UNCHANGED attendanceRows,
         r.key = "session" \/ (Marking(r) /\ MarkingFresh(r))
  PROVE  AttendanceInv'
<1>1. /\ SessionOK'
      /\ crossed \subseteq crossed'
      /\ req'[q] = r
      /\ \A o \in Requests \ {q} : req'[o] = req[o]
  BY BeginKeepsAlone DEF AttendanceInv
<1>2. UNCHANGED <<planned, enrolled, records, marked>>
  BY DEF attendanceRows
<1>3. AttendanceRequests'
  <2> SUFFICES ASSUME NEW o \in Requests, req'[o] # None
               PROVE  \/ req'[o].key = "session"
                      \/ Marking(req[o])' /\ ("roll" \notin crossed' => MarkingFresh(req[o])')
    BY DEF AttendanceRequests
  <2>1. PICK s : /\ s = req'[o]
                 /\ \/ s.key = "session"
                    \/ Marking(s) /\ ("roll" \notin crossed' => MarkingFresh(s))
    BY <1>1 DEF AttendanceInv, AttendanceRequests
  <2>2. CASE s.key = "session"
    BY <2>1, <2>2
  <2>3. CASE Marking(s) /\ ("roll" \notin crossed' => MarkingFresh(s))
    BY <1>2, <2>1, <2>3 DEF Marking, MarkingFresh
  <2> QED
    BY <2>1, <2>2, <2>3
<1>4. (AttendanceTypeOK /\ OneRecord)'
  BY <1>1, <1>2 DEF AttendanceInv, AttendanceTypeOK, OneRecord, RecordsOf
<1> QED
  BY <1>1, <1>3, <1>4 DEF AttendanceInv

\* What a record of a batch reads after its commit.
After(r, x) ==
    [x EXCEPT !.status = IF LastMark(r.batch, x.learner) # r.rows[x.learner].status
                         THEN LastMark(r.batch, x.learner) ELSE x.status]

\* Marks are committed: rows read are updated, the others inserted.
LEMMA MarksCommit ==
  ASSUME AttendanceInv, NEW q \in Requests, CommitMarks(q)
  PROVE  AttendanceInv'
<1>1. PICK r : r = req[q]
  OBVIOUS
<1> DEFINE Same(x) == x.learner \in DOMAIN r.rows /\ x.by = r.rows[x.learner].by
           m == marked'
<1>2. /\ SessionOK'
      /\ crossed' = crossed
      /\ req[q] # None /\ req'[q] = None
      /\ \A o \in Requests \ {q} : req'[o] = req[o]
  BY EndKeepsAlone DEF CommitMarks, AttendanceInv
<1>3. /\ r.key = "roll"
      /\ records' = {IF Same(x) THEN Flush(x, r.rows[x.learner],
                                           [r.rows[x.learner] EXCEPT !.status =
                                              LastMark(r.batch, r.rows[x.learner].learner)])
                     ELSE x : x \in records} \cup r.new
      /\ marked' = [l \in Learners |->
                      IF l \in Marked(r.batch) THEN LastMark(r.batch, l) ELSE marked[l]]
      /\ planned' = planned /\ enrolled' = enrolled
  BY <1>1 DEF CommitMarks
<1>4. Marking(r) /\ ("roll" \notin crossed => MarkingFresh(r))
  BY <1>1, <1>2, <1>3 DEF AttendanceInv, AttendanceRequests
<1>5. records \subseteq RecordRow /\ marked \in [Learners -> Marks \cup {None}]
      /\ \A x \in records : marked[x.learner] # None
  BY DEF AttendanceInv, AttendanceTypeOK
<1>6. ASSUME NEW x \in records, Same(x)
      PROVE  /\ Flush(x, r.rows[x.learner], [r.rows[x.learner] EXCEPT !.status =
                         LastMark(r.batch, r.rows[x.learner].learner)]) = After(r, x)
             /\ After(r, x) \in RecordRow /\ After(r, x).learner = x.learner
             /\ After(r, x).by = x.by
             /\ x = r.rows[x.learner] => After(r, x).status = LastMark(r.batch, x.learner)
  <2>1. PICK now : now = r.rows[x.learner]
    OBVIOUS
  <2>2. now \in RecordRow /\ now.learner = x.learner /\ x.learner \in Marked(r.batch)
    BY <1>4, <1>6, <2>1 DEF Marking
  <2>3. PICK new : new = LastMark(r.batch, x.learner)
    OBVIOUS
  <2>4. new \in Marks
    BY <1>4, <2>2, <2>3, LastMarkIs DEF Marking
  <2>5. [now EXCEPT !.status = new] = [learner |-> now.learner, status |-> new, by |-> now.by]
    BY <2>2 DEF RecordRow
  <2>6. DOMAIN x = {"learner", "status", "by"}
    BY <1>5 DEF RecordRow
  <2>7. Flush(x, now, [learner |-> now.learner, status |-> new, by |-> now.by]) =
          [learner |-> x.learner, status |-> IF new # now.status THEN new ELSE x.status,
           by |-> x.by]
    BY <2>6 DEF Flush
  <2>8. After(r, x) = [learner |-> x.learner, status |-> IF new # now.status THEN new ELSE x.status,
                       by |-> x.by]
    BY <1>5, <2>1, <2>3 DEF After, RecordRow
  <2>9. x.learner \in Learners /\ x.status \in Marks /\ x.by \in Requests
    BY <1>5 DEF RecordRow
  <2>10. (IF new # now.status THEN new ELSE x.status) \in Marks
    BY <2>4, <2>9
  <2>11. After(r, x) \in RecordRow
    BY <2>8, <2>9, <2>10 DEF RecordRow
  <2> QED
    BY <2>1, <2>2, <2>3, <2>5, <2>7, <2>8, <2>11
<1>7. records' = {IF Same(x) THEN After(r, x) ELSE x : x \in records} \cup r.new
  <2> DEFINE Written(x) == Flush(x, r.rows[x.learner], [r.rows[x.learner] EXCEPT !.status =
                                   LastMark(r.batch, r.rows[x.learner].learner)])
  <2>1. \A x \in records : Same(x) => Written(x) = After(r, x)
    BY <1>6
  <2>2. records' = {IF Same(x) THEN Written(x) ELSE x : x \in records} \cup r.new
    BY <1>3
  <2> HIDE DEF Same, Written
  <2> QED
    BY <2>1, <2>2
<1>8. \A l \in Learners : marked'[l] = IF l \in Marked(r.batch) THEN LastMark(r.batch, l)
                                      ELSE marked[l]
  BY <1>3
<1>9. \A l \in Marked(r.batch) : l \in Learners /\ marked'[l] \in Marks /\ marked'[l] # None
  BY <1>4, <1>8, LastMarkIs DEF Marking
<1>10. AttendanceTypeOK'
  <2>1. records' \subseteq RecordRow
    <3>1. r.new \subseteq RecordRow
      BY <1>4 DEF Marking
    <3>2. \A x \in records : (IF Same(x) THEN After(r, x) ELSE x) \in RecordRow
      BY <1>5, <1>6
    <3> HIDE DEF Same
    <3> QED
      BY <1>7, <3>1, <3>2
  <2>2. marked' \in [Learners -> Marks \cup {None}]
    BY <1>3, <1>5, <1>8, <1>9
  <2>3. \A x \in records' : marked'[x.learner] # None
    <3> SUFFICES ASSUME NEW x \in records' PROVE marked'[x.learner] # None
      OBVIOUS
    <3>1. CASE x \in r.new
      BY <1>4, <1>9, <3>1 DEF Marking
    <3>2. ASSUME NEW y \in records, x.learner = y.learner PROVE marked'[x.learner] # None
      BY <1>5, <1>8, <1>9, <3>2 DEF RecordRow
    <3> QED
      BY <1>6, <1>7, <3>1, <3>2
  <2>4. planned
    BY <1>4 DEF Marking
  <2> QED
    BY <1>3, <2>1, <2>2, <2>3, <2>4 DEF AttendanceInv, AttendanceTypeOK
<1>11. \A o \in Requests : req'[o] # None =>
          \/ req[o].key = "session"
          \/ req[o].key = "roll" /\ "roll" \in crossed
  BY <1>1, <1>2, <1>3, OthersCrossed DEF AttendanceInv, AttendanceRequests, Marking
<1>12. AttendanceRequests'
  <2> SUFFICES ASSUME NEW o \in Requests, req'[o] # None
               PROVE  \/ req'[o].key = "session"
                      \/ Marking(req[o])' /\ ("roll" \notin crossed' => MarkingFresh(req[o])')
    BY DEF AttendanceRequests
  <2>1. PICK s : /\ s = req'[o] /\ s = req[o]
                 /\ \/ s.key = "session"
                    \/ Marking(s)
    BY <1>2 DEF AttendanceInv, AttendanceRequests
  <2>2. CASE s.key = "session"
    BY <2>1, <2>2
  <2>3. CASE Marking(s)
    <3>1. Marking(req[o])'
      BY <1>3, <2>1, <2>3 DEF Marking
    <3> QED
      BY <1>2, <1>11, <2>1, <3>1
  <2> QED
    BY <2>1, <2>2, <2>3
<1>13. OneRecord'
  <2> SUFFICES ASSUME "roll" \notin crossed, NEW l \in Learners
               PROVE  \/ marked'[l] = None /\ RecordsOf(l)' = {}
                      \/ \E p \in Requests :
                            RecordsOf(l)' = {[learner |-> l, status |-> marked'[l], by |-> p]}
    BY <1>2 DEF OneRecord
  <2>1. \/ marked[l] = None /\ RecordsOf(l) = {}
        \/ \E p \in Requests : RecordsOf(l) = {[learner |-> l, status |-> marked[l], by |-> p]}
    BY DEF AttendanceInv, OneRecord
  <2>2. /\ DOMAIN r.rows = {k \in Marked(r.batch) : \E x \in records : x.learner = k}
        /\ \A k \in DOMAIN r.rows : r.rows[k] \in records /\ r.rows[k].learner = k
    BY <1>4 DEF Marking, MarkingFresh
  <2>3. PICK p \in Requests : r.new = Inserted(p, r.batch, records)
    BY <1>4 DEF MarkingFresh
  <2>4. RecordsOf(l)' = {IF Same(x) THEN After(r, x) ELSE x : x \in RecordsOf(l)}
                          \cup {x \in r.new : x.learner = l}
    <3>1. \A x \in records : (IF Same(x) THEN After(r, x) ELSE x).learner = x.learner
      BY <1>6
    <3> HIDE DEF Same
    <3> QED
      BY <1>7, <3>1 DEF RecordsOf
  <2>5. CASE l \notin Marked(r.batch)
    <3>1. {x \in r.new : x.learner = l} = {}
      BY <1>4, <2>5 DEF Marking
    <3>2. \A x \in RecordsOf(l) : ~Same(x)
      BY <2>2, <2>5 DEF RecordsOf
    <3>3. RecordsOf(l)' = RecordsOf(l)
      BY <2>4, <3>1, <3>2
    <3> QED
      BY <1>8, <2>1, <2>5, <3>3
  <2>6. CASE l \in Marked(r.batch) /\ RecordsOf(l) = {}
    <3>1. \A x \in records : x.learner # l
      BY <2>6 DEF RecordsOf
    <3>2. {x \in r.new : x.learner = l} =
            {[learner |-> l, status |-> LastMark(r.batch, l), by |-> p]}
      BY <2>3, <2>6, <3>1 DEF Inserted
    <3> QED
      BY <1>8, <2>4, <2>6, <3>2
  <2>7. CASE l \in Marked(r.batch) /\ RecordsOf(l) # {}
    <3>1. PICK o \in Requests : RecordsOf(l) = {[learner |-> l, status |-> marked[l], by |-> o]}
      BY <2>1, <2>7
    <3>2. PICK x \in records : x = [learner |-> l, status |-> marked[l], by |-> o]
      BY <3>1 DEF RecordsOf
    <3>3. l \in DOMAIN r.rows
      BY <2>2, <2>7, <3>2
    <3>4. r.rows[l] = x
      BY <2>2, <3>1, <3>2, <3>3 DEF RecordsOf
    <3>5. Same(x) /\ x.learner = l
      BY <3>2, <3>3, <3>4
    <3>6. After(r, x) \in RecordRow /\ After(r, x).learner = l /\ After(r, x).by = o
          /\ After(r, x).status = LastMark(r.batch, l)
      <4>1. x = r.rows[x.learner] /\ x.by = o
        BY <3>2, <3>4, <3>5
      <4> HIDE DEF Same
      <4> QED
        BY <1>6, <3>5, <4>1
    <3>7. After(r, x) = [learner |-> l, status |-> LastMark(r.batch, l), by |-> o]
      BY <3>6 DEF RecordRow
    <3>8. {y \in r.new : y.learner = l} = {}
      BY <2>3, <3>2, <3>5 DEF Inserted
    <3>9. RecordsOf(l)' = {After(r, x)}
      BY <2>4, <3>1, <3>2, <3>5, <3>8
    <3> QED
      BY <1>8, <2>7, <3>7, <3>9
  <2> QED
    BY <2>5, <2>6, <2>7
<1> QED
  BY <1>2, <1>10, <1>12, <1>13 DEF AttendanceInv

\* Every step of every request, and of the class, keeps the invariant.
LEMMA AttendanceSteps == AttendanceInv /\ [AttendanceNext]_attendanceVars => AttendanceInv'
<1> SUFFICES ASSUME AttendanceInv, [AttendanceNext]_attendanceVars PROVE AttendanceInv'
  OBVIOUS
<1>1. ASSUME NEW q \in Requests, CreateSession(q)
      PROVE  AttendanceInv'
  <2>1. PICK r : r = [key |-> "session"]
    OBVIOUS
  <2> QED
    BY <1>1, <2>1, AttendanceBegins DEF CreateSession
<1>2. ASSUME NEW q \in Requests, NEW batch \in Batches, MarkRecords(q, batch)
      PROVE  AttendanceInv'
  <2>1. PICK rows \in Updated(batch, records) :
          Begin(q, [key |-> "roll", batch |-> batch, rows |-> rows,
                    new |-> Inserted(q, batch, records)])
    BY <1>2 DEF MarkRecords
  <2>2. PICK r : r = [key |-> "roll", batch |-> batch, rows |-> rows,
                      new |-> Inserted(q, batch, records)]
    OBVIOUS
  <2>3. planned /\ UNCHANGED attendanceRows
    BY <1>2 DEF MarkRecords
  <2>4. /\ DOMAIN rows = {l \in Marked(batch) : \E x \in records : x.learner = l}
        /\ \A l \in DOMAIN rows : rows[l] \in records /\ rows[l].learner = l
    BY <2>1 DEF Updated
  <2>5. \A x \in Inserted(q, batch, records) : x \in RecordRow /\ x.learner \in Marked(batch)
    BY LastMarkIs DEF Inserted, RecordRow
  <2>6. records \subseteq RecordRow
    BY DEF AttendanceInv, AttendanceTypeOK
  <2>7. Marking(r)
    BY <2>2, <2>3, <2>4, <2>5, <2>6 DEF Marking
  <2>8. MarkingFresh(r)
    BY <2>2, <2>4 DEF MarkingFresh
  <2> QED
    BY <2>1, <2>2, <2>3, <2>7, <2>8, AttendanceBegins
<1>3. ASSUME NEW q \in Requests, CommitMarks(q)
      PROVE  AttendanceInv'
  BY <1>3, MarksCommit
\* The session is planned, the class changes, or nothing does.
<1>4. ASSUME SessionOK', crossed' = crossed, UNCHANGED <<records, marked>>,
             planned => planned', planned' \in BOOLEAN, enrolled' \subseteq Learners,
             \A o \in Requests : req'[o] = req[o] \/ req'[o] = None
      PROVE  AttendanceInv'
  <2>1. AttendanceRequests'
    <3> SUFFICES ASSUME NEW o \in Requests, req'[o] # None
                 PROVE  \/ req'[o].key = "session"
                        \/ Marking(req[o])' /\ ("roll" \notin crossed' => MarkingFresh(req[o])')
      BY DEF AttendanceRequests
    <3>1. PICK s : /\ s = req'[o]
                   /\ \/ s.key = "session"
                      \/ Marking(s) /\ ("roll" \notin crossed => MarkingFresh(s))
      BY <1>4 DEF AttendanceInv, AttendanceRequests
    <3>2. CASE s.key = "session"
      BY <3>1, <3>2
    <3>3. CASE Marking(s) /\ ("roll" \notin crossed => MarkingFresh(s))
      BY <1>4, <3>1, <3>3 DEF Marking, MarkingFresh
    <3> QED
      BY <3>1, <3>2, <3>3
  <2>2. (AttendanceTypeOK /\ OneRecord)'
    BY <1>4 DEF AttendanceInv, AttendanceTypeOK, OneRecord, RecordsOf
  <2> QED
    BY <1>4, <2>1, <2>2 DEF AttendanceInv
<1>5. planned \in BOOLEAN /\ enrolled \subseteq Learners
  BY DEF AttendanceInv, AttendanceTypeOK
<1>6. ASSUME NEW q \in Requests, CommitSession(q) \/ AbortAttendance(q)
      PROVE  AttendanceInv'
  <2>1. End(q) /\ UNCHANGED <<enrolled, records, marked>>
        /\ (planned' = planned \/ planned' = TRUE)
    BY <1>6 DEF CommitSession, AbortAttendance, attendanceRows
  <2>2. /\ SessionOK' /\ crossed' = crossed
        /\ \A o \in Requests : req'[o] = req[o] \/ req'[o] = None
    BY <2>1, EndKeepsAlone DEF AttendanceInv
  <2>3. planned' \in BOOLEAN /\ (planned => planned')
    <3>1. CASE CommitSession(q)
      BY <3>1 DEF CommitSession
    <3>2. CASE AbortAttendance(q)
      BY <1>5, <3>2 DEF AbortAttendance, attendanceRows
    <3> QED
      BY <1>6, <3>1, <3>2
  <2> QED
    BY <1>4, <1>5, <2>1, <2>2, <2>3
<1>7. ASSUME NEW l \in Learners, ChangeClass(l)
      PROVE  AttendanceInv'
  <2>1. UNCHANGED <<session, req, crossed, planned, records, marked>> /\ enrolled' \subseteq Learners
    BY <1>5, <1>7 DEF ChangeClass, session
  <2>2. SessionOK'
    BY <2>1, StillAlone DEF AttendanceInv
  <2> QED
    BY <1>4, <1>5, <2>1, <2>2
<1>8. CASE UNCHANGED attendanceVars
  <2>1. UNCHANGED <<session, req, crossed, planned, enrolled, records, marked>>
    BY <1>8 DEF attendanceVars, session, attendanceRows
  <2>2. SessionOK'
    BY <2>1, StillAlone DEF AttendanceInv
  <2> QED
    BY <1>4, <1>5, <2>1, <2>2
<1> QED
  BY <1>1, <1>2, <1>3, <1>6, <1>7, <1>8 DEF AttendanceNext

\* The roll shows for each learner one record with the mark given last, unless two
\* requests marked the session at once (attendance/service.py:246).
THEOREM RollIsTheLast == AttendanceSpec => []RollShowsLast
<1>1. AttendanceInv => RollShowsLast
  <2> SUFFICES ASSUME AttendanceInv, "roll" \notin crossed, NEW l \in Learners
               PROVE  {[status |-> r.status, by |-> r.by] : r \in {x \in records : x.learner = l}} \in
                         (IF marked[l] = None THEN {{}}
                          ELSE {{[status |-> marked[l], by |-> q]} : q \in Requests})
    BY DEF RollShowsLast
  <2>1. RecordsOf(l) = {x \in records : x.learner = l}
    BY DEF RecordsOf
  <2>2. CASE marked[l] = None /\ RecordsOf(l) = {}
    BY <2>1, <2>2
  <2>3. ASSUME NEW q \in Requests,
               RecordsOf(l) = {[learner |-> l, status |-> marked[l], by |-> q]}
        PROVE  {[status |-> r.status, by |-> r.by] : r \in RecordsOf(l)} \in
                  (IF marked[l] = None THEN {{}}
                   ELSE {{[status |-> marked[l], by |-> p]} : p \in Requests})
    <3>1. PICK x : x = [learner |-> l, status |-> marked[l], by |-> q]
      OBVIOUS
    <3>2. x \in records /\ x.learner = l /\ x.status = marked[l] /\ x.by = q
      BY <2>3, <3>1 DEF RecordsOf
    <3>3. marked[l] # None
      BY <3>2 DEF AttendanceInv, AttendanceTypeOK
    <3>4. {[status |-> r.status, by |-> r.by] : r \in {x}} = {[status |-> marked[l], by |-> q]}
      BY <3>2
    <3> QED
      BY <2>3, <3>1, <3>3, <3>4
  <2> QED
    BY <2>1, <2>2, <2>3 DEF AttendanceInv, OneRecord
<1> QED
  BY AttendanceStarts, AttendanceSteps, <1>1, PTL DEF AttendanceSpec, attendanceVars

-----------------------------------------------------------------------------
(* Content                                                                 *)

contentVars == <<session, contentRows>>

\* An edit or an approval of a row: a text that was approved keeps its version
\* only with its text and its approval.
Follows(text, next) ==
    /\ next.version >= text.version
    /\ text.status = "approved" /\ next.version = text.version =>
          next.status = "approved" /\ next.body = text.body

\* What a request may be going to write.
ContentShape(r) ==
    \/ /\ r.key = "item"
       /\ r.loaded \in ItemRow \cup {None}
       /\ r.set \in ItemRow
       /\ IF r.loaded = None THEN r.set.status = "draft" ELSE Follows(r.loaded, r.set)
    \/ /\ r.key \in Assets
       /\ r.set \in AssetRow
       /\ r.set = "uploaded" => r.key \in stored

ContentShapes == \A q \in Requests : req[q] # None => ContentShape(req[q])

\* No text was ever published under a number above the item's, and under the
\* item's number only the text it has, while it is approved.
Told ==
    /\ item = None => published = {}
    /\ \A x \in published :
          /\ x.version <= item.version
          /\ x.version = item.version => item.status = "approved" /\ x.body = item.body

\* On an item that requests never crossed, a request has loaded what is there.
ItemFresh ==
    "item" \notin crossed =>
        /\ \A q \in Requests : req[q] # None /\ req[q].key = "item" => req[q].loaded = item
        /\ Told
        /\ VersionNamesOneText

ContentInv ==
    /\ SessionOK
    /\ ContentTypeOK
    /\ ContentShapes
    /\ ItemFresh
    /\ UploadedIsStored

-----------------------------------------------------------------------------
\* The UPDATE of an item is an item, and what the request set if nothing moved.
LEMMA ItemFlush ==
  ASSUME NEW now \in ItemRow, NEW loaded \in ItemRow, NEW set \in ItemRow
  PROVE  /\ Flush(now, loaded, set) \in ItemRow
         /\ now = loaded => Flush(now, loaded, set) = set
<1>1. DOMAIN now = {"version", "status", "body"}
  BY DEF ItemRow
<1>2. Flush(now, loaded, set) =
        [version |-> IF set.version # loaded.version THEN set.version ELSE now.version,
         status  |-> IF set.status # loaded.status THEN set.status ELSE now.status,
         body    |-> IF set.body # loaded.body THEN set.body ELSE now.body]
  BY <1>1 DEF Flush
<1>3. Flush(now, loaded, set) \in ItemRow
  BY <1>2 DEF ItemRow
<1>4. now = loaded => Flush(now, loaded, set) =
        [version |-> set.version, status |-> set.status, body |-> set.body]
  BY <1>2
<1> QED
  BY <1>3, <1>4 DEF ItemRow

\* Nothing is written, stored or published at the start.
LEMMA ContentStarts == ContentInit => ContentInv
  BY SessionStarts, ContentRowAssumption DEF ContentInit, SessionInit, ContentInv, ContentTypeOK, ContentShapes,
     ItemFresh, Told, VersionNamesOneText, UploadedIsStored, AssetRow

\* A request that has read what it needs begins; its upload may be in the store.
LEMMA ContentBegins ==
  ASSUME ContentInv, NEW q \in Requests, NEW r, Begin(q, r),
         UNCHANGED <<item, asset, published>>,
         stored \subseteq stored', stored' \subseteq Assets, ContentShape(r)',
         r.key = "item" => r.loaded = item
  PROVE  ContentInv'
<1>1. /\ SessionOK'
      /\ crossed \subseteq crossed'
      /\ req'[q] = r
      /\ \A o \in Requests \ {q} : req'[o] = req[o]
  BY BeginKeepsAlone DEF ContentInv
<1>2. ContentShapes'
  <2> SUFFICES ASSUME NEW o \in Requests, req'[o] # None PROVE ContentShape(req[o])'
    BY DEF ContentShapes
  <2>0. CASE o = q
    BY <1>1, <2>0 DEF ContentShape
  <2>1. CASE o # q
    <3>1. ContentShape(req[o]) /\ req'[o] = req[o]
      BY <1>1, <2>1 DEF ContentInv, ContentShapes
    <3> QED
      BY <3>1 DEF ContentShape
  <2> QED
    BY <2>0, <2>1
<1>3. ItemFresh'
  BY <1>1 DEF ContentInv, ItemFresh, Told, VersionNamesOneText
<1>4. (ContentTypeOK /\ UploadedIsStored)'
  BY DEF ContentInv, ContentTypeOK, UploadedIsStored
<1> QED
  BY <1>1, <1>2, <1>3, <1>4 DEF ContentInv

\* The commit of an item.
LEMMA ItemCommits ==
  ASSUME ContentInv, NEW q \in Requests, CommitItem(q)
  PROVE  ContentInv'
<1> DEFINE r == req[q]
           entry == [version |-> item'.version, body |-> item'.body]
<1>1. /\ SessionOK'
      /\ crossed' = crossed
      /\ req[q] # None
      /\ req'[q] = None
      /\ \A o \in Requests \ {q} : req'[o] = req[o]
  BY EndKeepsAlone DEF CommitItem, ContentInv
<1>2. /\ r.key = "item"
      /\ r.loaded = None => item = None
      /\ item' = IF item = None THEN r.set ELSE Flush(item, r.loaded, r.set)
      /\ published' = IF item'.status # "approved" THEN published ELSE published \cup {entry}
      /\ asset' = asset /\ stored' = stored
  BY DEF CommitItem
<1>3. ContentShape(r)
  BY <1>1 DEF ContentInv, ContentShapes
<1>4. /\ r.loaded \in ItemRow \cup {None}
      /\ r.set \in ItemRow
      /\ IF r.loaded = None THEN r.set.status = "draft" ELSE Follows(r.loaded, r.set)
  BY <1>2, <1>3, ContentAssumption DEF ContentShape
<1>5. item' \in ItemRow
  BY <1>2, <1>4, ItemFlush DEF ContentInv, ContentTypeOK
<1>6. entry \in [version : 1 .. MaxItemVersion, body : Bodies]
  BY <1>5 DEF ItemRow
<1>7. ContentTypeOK'
  BY <1>2, <1>5, <1>6 DEF ContentInv, ContentTypeOK
<1>8. (ContentShapes /\ UploadedIsStored)'
  BY <1>1, <1>2 DEF ContentInv, ContentShapes, ContentShape, UploadedIsStored
<1>9. ItemFresh'
  <2> SUFFICES ASSUME "item" \notin crossed PROVE ItemFresh'
    BY <1>1 DEF ItemFresh
  <2>1. r.loaded = item
    BY <1>1, <1>2 DEF ContentInv, ItemFresh
  <2>2. item' = r.set
    BY <1>2, <1>4, <2>1, ItemFlush
  <2>3. \A o \in Requests : req'[o] # None => req'[o].key # "item"
    BY <1>1, <1>2, OthersCrossed DEF ContentInv
  <2>4. Told /\ VersionNamesOneText
    BY DEF ContentInv, ItemFresh
  <2>5. \A x \in published :
          /\ x.version <= item'.version
          /\ x.version = item'.version => item'.status = "approved" /\ x.body = item'.body
    <3>1. CASE item = None
      BY <2>4, <3>1 DEF Told
    <3>2. CASE item # None
      <4>1. Follows(item, item') /\ item \in ItemRow
        BY <1>4, <2>1, <2>2, <3>2
      <4>2. \A x \in published : x.version \in Nat
        BY DEF ContentInv, ContentTypeOK
      <4>3. item.version \in Nat /\ item'.version \in Nat
        BY <1>5, <4>1 DEF ItemRow
      <4> QED
        BY <2>4, <4>1, <4>2, <4>3 DEF Told, Follows
    <3> QED
      BY <3>1, <3>2
  <2> HIDE DEF r
  <2>6. Told'
    <3> SUFFICES ASSUME NEW x \in published'
                 PROVE  /\ x.version <= item'.version
                        /\ x.version = item'.version =>
                              item'.status = "approved" /\ x.body = item'.body
      BY <1>5, ContentRowAssumption DEF Told
    <3>1. CASE x \in published
      BY <2>5, <3>1
    <3>2. CASE x = entry /\ item'.status = "approved"
      BY <1>5, <3>2 DEF ItemRow
    <3> QED
      BY <1>2, <3>1, <3>2
  <2>7. VersionNamesOneText'
    <3> SUFFICES ASSUME NEW x \in published', NEW y \in published', x.version = y.version
                 PROVE  x = y
      BY DEF VersionNamesOneText
    <3>1. x \in [version : 1 .. MaxItemVersion, body : Bodies]
          /\ y \in [version : 1 .. MaxItemVersion, body : Bodies]
      BY <1>7 DEF ContentTypeOK
    <3>2. CASE x \in published /\ y \in published
      BY <2>4, <3>2 DEF VersionNamesOneText
    <3>3. CASE x = entry \/ y = entry
      <4>1. x.version = item'.version /\ y.version = item'.version
        BY <3>3
      <4>2. x.body = item'.body /\ y.body = item'.body
        BY <2>6, <4>1 DEF Told
      <4> QED
        BY <3>1, <4>1, <4>2
    <3> QED
      BY <1>2, <3>2, <3>3
  <2> QED
    BY <2>3, <2>6, <2>7 DEF ItemFresh
<1> QED
  BY <1>1, <1>7, <1>8, <1>9 DEF ContentInv

\* Every step of every request, and of the client, keeps the invariant.
LEMMA ContentSteps == ContentInv /\ [ContentNext]_contentVars => ContentInv'
<1> SUFFICES ASSUME ContentInv, [ContentNext]_contentVars PROVE ContentInv'
  OBVIOUS
<1>0. item \in ItemRow \cup {None} /\ stored \subseteq Assets
  BY DEF ContentInv, ContentTypeOK
<1>1. ASSUME NEW q \in Requests, NEW text, BeginItem(q, text), text \in ItemRow,
             IF item = None THEN text.status = "draft" ELSE Follows(item, text)
      PROVE  ContentInv'
  <2>0. PICK r : r = [key |-> "item", loaded |-> item, set |-> text]
    OBVIOUS
  <2>1. Begin(q, r) /\ UNCHANGED <<item, asset, published, stored>>
    BY <1>1, <2>0 DEF BeginItem, contentRows
  <2>2. ContentShape(r) /\ r.loaded = item
    BY <1>0, <1>1, <2>0 DEF ContentShape
  <2>3. ContentShape(r)'
    BY <2>1, <2>2 DEF ContentShape
  <2> QED
    BY <1>0, <2>1, <2>2, <2>3, ContentBegins
<1>2. ASSUME NEW q \in Requests, NEW body \in Bodies, NEW v \in 1 .. MaxItemVersion,
             CreateItem(q, body, v)
      PROVE  ContentInv'
  <2> DEFINE text == create_content_item(body, v)
  <2>1. text \in ItemRow /\ text.status = "draft" /\ item = None /\ BeginItem(q, text)
    BY <1>2 DEF CreateItem, create_content_item, ItemRow
  <2> HIDE DEF text
  <2> QED
    BY <1>1, <2>1
<1>3. ASSUME NEW q \in Requests, NEW body \in Bodies, UpdateItem(q, body)
      PROVE  ContentInv'
  <2> DEFINE text == update_content_item(item, body)
  <2>1. item \in ItemRow /\ item # None /\ BeginItem(q, text) /\ text.version <= MaxItemVersion
    BY <1>0, <1>3 DEF UpdateItem, BeginItem
  <2>2. text \in ItemRow /\ Follows(item, text)
    <3>1. CASE item.status = "approved"
      <4>1. text = [version |-> item.version + 1, status |-> "draft", body |-> body]
        BY <3>1 DEF update_content_item
      <4> QED
        BY <2>1, <4>1, ContentAssumption DEF ItemRow, Follows
    <3>2. CASE item.status # "approved"
      BY <2>1, <3>2, ContentAssumption DEF update_content_item, ItemRow, Follows
    <3> QED
      BY <3>1, <3>2
  <2> HIDE DEF text
  <2> QED
    BY <1>1, <2>1, <2>2
<1>4. ASSUME NEW q \in Requests, ApproveItem(q)
      PROVE  ContentInv'
  <2> DEFINE text == set_approval(item, TRUE)
  <2>1. item \in ItemRow /\ item # None /\ BeginItem(q, text)
    BY <1>0, <1>4 DEF ApproveItem
  <2>2. text \in ItemRow /\ Follows(item, text)
    BY <2>1, ContentAssumption DEF set_approval, ItemRow, Follows
  <2> HIDE DEF text
  <2> QED
    BY <1>1, <2>1, <2>2
<1>5. ASSUME NEW q \in Requests, CommitItem(q)
      PROVE  ContentInv'
  BY <1>5, ItemCommits
<1>6. ASSUME NEW q \in Requests, NEW a \in Assets, UploadMedia(q, a) \/ PresignMedia(q, a)
      PROVE  ContentInv'
  <2>1. PICK set \in AssetRow :
          /\ Begin(q, [key |-> a, set |-> set])
          /\ set = "uploaded" => stored' = stored \cup {a}
          /\ UNCHANGED <<item, asset, published>>
          /\ stored \subseteq stored' /\ stored' \subseteq Assets
    BY <1>0, <1>6 DEF UploadMedia, PresignMedia, contentRows, AssetRow
  <2> DEFINE r == [key |-> a, set |-> set]
  <2>2. r.key = a /\ r.set = set /\ r.key # "item"
    BY ContentAssumption
  <2> HIDE DEF r
  <2>3. ContentShape(r)'
    BY <2>1, <2>2 DEF ContentShape
  <2> QED
    BY <2>1, <2>2, <2>3, ContentBegins DEF r
<1>7. ASSUME NEW q \in Requests, CommitMedia(q)
      PROVE  ContentInv'
  <2>1. /\ SessionOK'
        /\ crossed' = crossed
        /\ req[q] # None
        /\ req'[q] = None
        /\ \A o \in Requests \ {q} : req'[o] = req[o]
    BY <1>7, EndKeepsAlone DEF CommitMedia, ContentInv
  <2>2. /\ req[q].key \in Assets
        /\ asset' = [asset EXCEPT ![req[q].key] = req[q].set]
        /\ UNCHANGED <<item, stored, published>>
    BY <1>7 DEF CommitMedia
  <2>3. req[q].set \in AssetRow /\ (req[q].set = "uploaded" => req[q].key \in stored)
    BY <2>1, <2>2, ContentAssumption DEF ContentInv, ContentShapes, ContentShape
  <2>4. (ContentTypeOK /\ UploadedIsStored)'
    BY <2>2, <2>3 DEF ContentInv, ContentTypeOK, UploadedIsStored
  <2>5. (ContentShapes /\ ItemFresh)'
    BY <2>1, <2>2 DEF ContentInv, ContentShapes, ContentShape, ItemFresh, Told,
       VersionNamesOneText
  <2> QED
    BY <2>1, <2>4, <2>5 DEF ContentInv
<1>8. ASSUME NEW q \in Requests, AbortContent(q)
      PROVE  ContentInv'
  <2>1. /\ SessionOK'
        /\ crossed' = crossed
        /\ req'[q] = None
        /\ \A o \in Requests \ {q} : req'[o] = req[o]
    BY <1>8, EndKeepsAlone DEF AbortContent, ContentInv
  <2>2. UNCHANGED <<item, asset, stored, published>>
    BY <1>8 DEF AbortContent, contentRows
  <2> QED
    BY <2>1, <2>2 DEF ContentInv, ContentTypeOK, ContentShapes, ContentShape, ItemFresh, Told,
       VersionNamesOneText, UploadedIsStored
<1>9. ASSUME NEW a \in Assets, ClientPut(a)
      PROVE  ContentInv'
  <2>1. UNCHANGED <<session, req, crossed, item, asset, published>> /\ stored' = stored \cup {a}
    BY <1>9 DEF ClientPut, session
  <2>2. SessionOK'
    BY <2>1, StillAlone DEF ContentInv
  <2> QED
    BY <2>1, <2>2 DEF ContentInv, ContentTypeOK, ContentShapes, ContentShape, ItemFresh, Told,
       VersionNamesOneText, UploadedIsStored
<1>10. CASE UNCHANGED contentVars
  <2>1. UNCHANGED <<session, req, crossed, item, asset, published, stored>>
    BY <1>10 DEF contentVars, session, contentRows
  <2>2. SessionOK'
    BY <2>1, StillAlone DEF ContentInv
  <2> QED
    BY <2>1, <2>2 DEF ContentInv, ContentTypeOK, ContentShapes, ContentShape, ItemFresh, Told,
       VersionNamesOneText, UploadedIsStored
<1> QED
  BY <1>2, <1>3, <1>4, <1>5, <1>6, <1>7, <1>8, <1>9, <1>10 DEF ContentNext

\* The version of an approved item names one text for good, unless two requests
\* crossed on the item (content/service.py:174).
THEOREM ApprovedTextIsKept == ContentSpec => []VersionNamesOneText
<1>1. ContentInv => VersionNamesOneText
  BY DEF ContentInv, ItemFresh, VersionNamesOneText
<1> QED
  BY ContentStarts, ContentSteps, <1>1, PTL DEF ContentSpec, contentVars

\* An asset with a size has its bytes in the store, whatever requests fail
\* half-way (content/service.py:222).
THEOREM BytesAreThere == ContentSpec => []UploadedIsStored
<1>1. ContentInv => UploadedIsStored
  BY DEF ContentInv
<1> QED
  BY ContentStarts, ContentSteps, <1>1, PTL DEF ContentSpec, contentVars

-----------------------------------------------------------------------------
(* Enrollment                                                              *)

enrollmentVars == <<session, enrollmentRows>>

\* The locking dependencies of a version link its nodes.  Where edits have not met
\* they close no cycle, and a version is not published without nodes.
GraphOK(v) ==
    edition[v] # None =>
        /\ Joins(edition[v].locks, edition[v].nodes)
        /\ v \notin disturbed =>
              /\ AcyclicPairs(Pairs(edition[v].locks))
              /\ edition[v].state = "published" => edition[v].nodes # {}

GraphsOK == \A v \in Editions : GraphOK(v)

\* What an edit is about to write; where it is alone, what it checked still holds.
EditOK(r) ==
    /\ r.v \in Editions /\ r.nodes \in SUBSET Labels /\ r.locks \in SUBSET Locks
    /\ r.op # "create_version" => edition[r.v] # None
    /\ r.op = "create_version" /\ r.nodes # {} =>
          r.v - 1 \in Editions /\ edition[r.v - 1] # None
    /\ r.v \notin disturbed =>
          /\ r.op \in {"create_node", "delete_node", "create_dependency", "publish"} =>
                edition[r.v].state = "draft"
          /\ r.op = "publish" => edition[r.v].nodes # {}
          /\ r.op = "create_dependency" =>
                \E d \in Locks : /\ r.locks = {d}
                                 /\ ~CreatesCycle(Pairs(edition[r.v].locks), d.source, d.target)

\* Two edits of one version are on a version that is disturbed.
EditsOK ==
    \A q \in Requests : IsEdit(q) =>
        /\ EditOK(req[q])
        /\ req[q].v \notin disturbed =>
              \A o \in Requests \ {q} : IsEdit(o) => req[o].v # req[q].v

\* What an enroll request has read so far: of a version that was published and
\* that nothing disturbs, every node, and one of them that waits for none.
EnrollOK(r) ==
    /\ class # None
    /\ r.settled \in BOOLEAN /\ r.nodes \in SUBSET Labels /\ r.waits \in SUBSET Labels
    /\ r.phase # "searching" =>
          /\ r.pin \in Editions /\ edition[r.pin] # None
          /\ r.settled /\ r.pin \notin disturbed =>
                /\ edition[r.pin].state = "published"
                /\ r.phase \in {"nodes", "ready"} => r.nodes = edition[r.pin].nodes
                /\ r.phase = "ready" => r.nodes \ r.waits # {}
    /\ r.phase = "ready" => r.waits \subseteq r.nodes

EnrollsOK == \A q \in Requests : IsEnroll(q) => EnrollOK(req[q])

EnrollmentOK ==
    enrollment # None =>
        /\ enrollment.locked \cup enrollment.open \subseteq edition[enrollment.pin].nodes
        /\ enrollment.settled /\ enrollment.pin \notin disturbed =>
              /\ edition[enrollment.pin].state = "published"
              /\ enrollment.locked \cup enrollment.open = edition[enrollment.pin].nodes
              /\ enrollment.open # {}

EnrollmentInv ==
    /\ SessionOK
    /\ EnrollmentTypeOK
    /\ GraphsOK
    /\ EditsOK
    /\ EnrollsOK
    /\ EnrollmentOK

-----------------------------------------------------------------------------
\* The course starts without versions, the class without a learner.
LEMMA EnrollmentStarts == EnrollmentInit => EnrollmentInv
<1> SUFFICES ASSUME EnrollmentInit PROVE EnrollmentInv
  OBVIOUS
<1>1. \A q \in Requests : req[q] = None
  BY DEF EnrollmentInit, SessionInit
<1>2. EnrollmentTypeOK /\ GraphsOK /\ EnrollmentOK
  BY DEF EnrollmentInit, EnrollmentTypeOK, GraphsOK, GraphOK, EnrollmentOK
<1>3. EditsOK /\ EnrollsOK
  BY <1>1 DEF EditsOK, EnrollsOK, IsEdit, IsEnroll
<1> QED
  BY <1>2, <1>3, SessionStarts DEF EnrollmentInit, EnrollmentInv

\* An enroll request reads on, or a request ends that writes no version.
LEMMA RequestsMove ==
  ASSUME EnrollmentInv, SessionOK', NEW q \in Requests, UNCHANGED <<edition, disturbed>>,
         \A o \in Requests \ {q} : req'[o] = req[o],
         req'[q] = None \/ (IsEnroll(q) /\ EnrollOK(req[q]))',
         class # None => class' # None
  PROVE  GraphsOK' /\ EditsOK' /\ EnrollsOK'
<1>1. GraphsOK'
  BY DEF EnrollmentInv, GraphsOK, GraphOK
<1>2. \A o \in Requests : IsEdit(o)' => o # q /\ IsEdit(o) /\ req'[o] = req[o]
  BY EnrollmentAssumption DEF IsEdit, IsEnroll
<1>3. \A r : EditOK(r) => EditOK(r)'
  BY DEF EditOK
<1>4. EditsOK'
  <2> SUFFICES ASSUME NEW p \in Requests, IsEdit(p)'
               PROVE  /\ EditOK(req[p])'
                      /\ (req[p].v \notin disturbed)' =>
                            \A o \in Requests \ {p} : IsEdit(o)' => (req[o].v # req[p].v)'
    BY DEF EditsOK
  <2>1. PICK r : r = req[p] /\ r = req'[p] /\ EditOK(r) /\ IsEdit(p)
    BY <1>2 DEF EnrollmentInv, EditsOK
  <2>2. EditOK(r)'
    BY <1>3, <2>1
  <2>3. ASSUME NEW o \in Requests \ {p}, IsEdit(o)', r.v \notin disturbed
        PROVE  req'[o].v # r.v
    <3>1. IsEdit(o) /\ req'[o] = req[o]
      BY <1>2, <2>3
    <3> QED
      BY <2>1, <2>3, <3>1 DEF EnrollmentInv, EditsOK
  <2> QED
    BY <2>1, <2>2, <2>3
<1>5. EnrollsOK'
  <2> SUFFICES ASSUME NEW p \in Requests, IsEnroll(p)' PROVE EnrollOK(req[p])'
    BY DEF EnrollsOK
  <2>1. CASE p = q
    BY <2>1 DEF IsEnroll
  <2>2. CASE p # q
    <3>1. PICK r : r = req[p] /\ r = req'[p] /\ EnrollOK(r)
      BY <2>2 DEF IsEnroll, EnrollmentInv, EnrollsOK
    <3> QED
      BY <3>1 DEF EnrollOK
  <2> QED
    BY <2>1, <2>2
<1> QED
  BY <1>1, <1>4, <1>5

\* Rows that do not change are as right as they were.
LEMMA EnrollmentKept ==
  ASSUME EnrollmentInv, UNCHANGED <<edition, class, enrollment>>,
         disturbed \subseteq disturbed', disturbed' \subseteq Editions
  PROVE  EnrollmentTypeOK' /\ EnrollmentOK' /\ GraphsOK'
<1>1. EnrollmentTypeOK'
  BY DEF EnrollmentInv, EnrollmentTypeOK
<1>2. EnrollmentOK'
  BY DEF EnrollmentInv, EnrollmentOK
<1>3. GraphsOK'
  BY DEF EnrollmentInv, GraphsOK, GraphOK
<1> QED
  BY <1>1, <1>2, <1>3

\* An enroll request reads one statement further.
LEMMA EnrollReads ==
  ASSUME EnrollmentInv, NEW q \in Requests, NEW r, Begin(q, r) \/ Continue(q, r),
         r.key = "enrollment", EnrollOK(r), UNCHANGED enrollmentRows
  PROVE  EnrollmentInv'
<1>1. /\ SessionOK' /\ req'[q] = r /\ req'[q].key = "enrollment"
      /\ \A o \in Requests \ {q} : req'[o] = req[o]
  BY BeginKeepsAlone, ContinueKeepsAlone DEF EnrollmentInv
<1>2. UNCHANGED <<edition, class, enrollment, disturbed>>
  BY DEF enrollmentRows
<1>3. EnrollOK(r)'
  BY <1>2 DEF EnrollOK
<1>4. GraphsOK' /\ EditsOK' /\ EnrollsOK'
  <2>1. req'[q] = None \/ (IsEnroll(q) /\ EnrollOK(req[q]))'
    BY <1>1, <1>3 DEF IsEnroll
  <2> QED
    BY <1>1, <1>2, <2>1, RequestsMove
<1>5. EnrollmentTypeOK' /\ EnrollmentOK'
  BY <1>2, EnrollmentKept DEF EnrollmentInv, EnrollmentTypeOK
<1> QED
  BY <1>1, <1>4, <1>5 DEF EnrollmentInv

\* An edit has read and checked.
LEMMA EditBegins ==
  ASSUME EnrollmentInv, NEW q \in Requests, NEW r, BeginEdit(q, r), r.key = q, EditOK(r)
  PROVE  EnrollmentInv'
<1>1. /\ Begin(q, r) /\ UNCHANGED <<edition, class, enrollment>>
      /\ disturbed' = disturbed \cup {r.v : o \in {x \in Requests : IsEdit(x) /\ req[x].v = r.v}}
  BY DEF BeginEdit
<1>2. /\ SessionOK' /\ req'[q] = r /\ req[q] = None
      /\ \A o \in Requests \ {q} : req'[o] = req[o]
  BY <1>1, BeginKeepsAlone DEF EnrollmentInv, Begin
<1>3. /\ disturbed \subseteq disturbed' /\ disturbed' \subseteq Editions
      /\ \A v : v \in disturbed' /\ v \notin disturbed => v = r.v
      /\ \A o \in Requests : IsEdit(o) /\ req[o].v = r.v => r.v \in disturbed'
  BY <1>1 DEF EnrollmentInv, EnrollmentTypeOK, EditOK
<1>4. EnrollmentTypeOK' /\ EnrollmentOK' /\ GraphsOK'
  BY <1>1, <1>3, EnrollmentKept
<1>5. \A s : EditOK(s) => EditOK(s)'
  BY <1>1, <1>3 DEF EditOK
<1>6. \A o \in Requests : IsEdit(o)' => o = q \/ (IsEdit(o) /\ req'[o] = req[o])
  BY <1>2 DEF IsEdit
<1>7. EditsOK'
  <2> SUFFICES ASSUME NEW p \in Requests, IsEdit(p)'
               PROVE  /\ EditOK(req[p])'
                      /\ (req[p].v \notin disturbed)' =>
                            \A o \in Requests \ {p} : IsEdit(o)' => (req[o].v # req[p].v)'
    BY DEF EditsOK
  <2>1. PICK s : s = req'[p] /\ EditOK(s)
    BY <1>2, <1>6 DEF EnrollmentInv, EditsOK
  <2>2. EditOK(s)'
    BY <1>5, <2>1
  <2>3. ASSUME NEW o \in Requests \ {p}, IsEdit(o)', s.v \notin disturbed'
        PROVE  req'[o].v # s.v
    <3>1. CASE p = q
      BY <1>2, <1>3, <1>6, <2>1, <2>3, <3>1
    <3>2. CASE o = q
      BY <1>2, <1>3, <1>6, <2>1, <2>3, <3>2
    <3>3. CASE p # q /\ o # q
      <4>1. IsEdit(p) /\ IsEdit(o) /\ req[p] = s /\ req'[o] = req[o] /\ s.v \notin disturbed
        BY <1>3, <1>6, <2>1, <2>3, <3>3
      <4> QED
        BY <4>1 DEF EnrollmentInv, EditsOK
    <3> QED
      BY <3>1, <3>2, <3>3
  <2> QED
    BY <2>1, <2>2, <2>3
<1>8. EnrollsOK'
  <2> SUFFICES ASSUME NEW p \in Requests, IsEnroll(p)' PROVE EnrollOK(req[p])'
    BY DEF EnrollsOK
  <2>1. p # q
    BY <1>2, EnrollmentAssumption DEF IsEnroll
  <2>2. PICK s : s = req[p] /\ s = req'[p] /\ EnrollOK(s)
    BY <1>2, <2>1 DEF IsEnroll, EnrollmentInv, EnrollsOK
  <2> QED
    BY <1>1, <1>3, <2>2 DEF EnrollOK
<1> QED
  BY <1>2, <1>4, <1>7, <1>8 DEF EnrollmentInv

\* A version is written.  Where it is not disturbed, what is published keeps its
\* nodes; whoever else is about to write it still may; and the rows of a learner who
\* relies on it stay.
LEMMA EditionMoves ==
  ASSUME EnrollmentInv, SessionOK', NEW v \in Editions, NEW e \in EditionRow,
         edition' = [edition EXCEPT ![v] = e], UNCHANGED class,
         \A o \in Requests : req'[o] = req[o] \/ req'[o] = None,
         disturbed \subseteq disturbed', disturbed' \subseteq disturbed \cup {v},
         Joins(e.locks, e.nodes),
         v \notin disturbed' =>
            /\ AcyclicPairs(Pairs(e.locks))
            /\ e.state = "published" => e.nodes # {}
            /\ edition[v] # None /\ edition[v].state = "published" =>
                  e.state = "published" /\ e.nodes = edition[v].nodes,
         \A o \in Requests :
            IsEdit(o)' /\ req'[o].v = v /\ v \notin disturbed' => EditOK(req[o])',
         enrollment' # None =>
            /\ enrollment # None /\ enrollment' \in EnrollmentRow
            /\ enrollment'.pin = enrollment.pin /\ enrollment'.settled = enrollment.settled
            /\ enrollment'.locked \cap enrollment'.open = {}
            /\ enrollment'.locked \cup enrollment'.open \subseteq edition'[enrollment.pin].nodes
            /\ enrollment.settled /\ enrollment.pin \notin disturbed' => enrollment' = enrollment
  PROVE  EnrollmentInv'
<1>1. /\ edition \in [Editions -> EditionRow \cup {None}]
      /\ edition'[v] = e /\ e # None
      /\ \A w \in Editions \ {v} : edition'[w] = edition[w]
      /\ edition' \in [Editions -> EditionRow \cup {None}]
      /\ disturbed' \subseteq Editions
  BY EnrollmentRowAssumption DEF EnrollmentInv, EnrollmentTypeOK
<1>2. \A w \in Editions : edition[w] # None => edition'[w] # None
  BY <1>1
<1>3. GraphsOK'
  <2> SUFFICES ASSUME NEW w \in Editions PROVE GraphOK(w)'
    BY DEF GraphsOK
  <2>1. CASE w = v
    BY <1>1, <2>1 DEF GraphOK
  <2>2. CASE w # v
    BY <1>1, <2>2 DEF GraphOK, EnrollmentInv, GraphsOK
  <2> QED
    BY <2>1, <2>2
<1>4. \A o \in Requests : IsEdit(o)' => IsEdit(o) /\ req'[o] = req[o]
  BY DEF IsEdit
<1>5. EditsOK'
  <2> SUFFICES ASSUME NEW p \in Requests, IsEdit(p)'
               PROVE  /\ EditOK(req[p])'
                      /\ (req[p].v \notin disturbed)' =>
                            \A o \in Requests \ {p} : IsEdit(o)' => (req[o].v # req[p].v)'
    BY DEF EditsOK
  <2>1. PICK s : s = req'[p] /\ s = req[p] /\ EditOK(s) /\ IsEdit(p)
    BY <1>4 DEF EnrollmentInv, EditsOK
  <2>2. EditOK(s)'
    <3>1. CASE s.v = v /\ v \notin disturbed'
      BY <2>1, <3>1
    <3>2. CASE s.v = v /\ v \in disturbed'
      BY <1>1, <1>2, <2>1, <3>2 DEF EditOK
    <3>3. CASE s.v # v
      <4>1. edition'[s.v] = edition[s.v] /\ (s.v \notin disturbed' => s.v \notin disturbed)
        BY <1>1, <2>1, <3>3 DEF EditOK
      <4> QED
        BY <1>2, <2>1, <4>1 DEF EditOK
    <3> QED
      BY <3>1, <3>2, <3>3
  <2>3. ASSUME NEW o \in Requests \ {p}, IsEdit(o)', s.v \notin disturbed'
        PROVE  req'[o].v # s.v
    <3>1. IsEdit(o) /\ req'[o] = req[o]
      BY <1>4, <2>3
    <3> QED
      BY <2>1, <2>3, <3>1 DEF EnrollmentInv, EditsOK
  <2> QED
    BY <2>1, <2>2, <2>3
<1>6. EnrollsOK'
  <2> SUFFICES ASSUME NEW p \in Requests, IsEnroll(p)' PROVE EnrollOK(req[p])'
    BY DEF EnrollsOK
  <2>1. PICK s : s = req'[p] /\ EnrollOK(s)
    BY DEF IsEnroll, EnrollmentInv, EnrollsOK
  <2>2. CASE s.phase # "searching" /\ s.pin = v
    BY <1>1, <2>1, <2>2 DEF EnrollOK
  <2>3. CASE s.phase # "searching" /\ s.pin # v
    BY <1>1, <2>1, <2>3 DEF EnrollOK
  <2>4. CASE s.phase = "searching"
    BY <2>1, <2>4 DEF EnrollOK
  <2> QED
    BY <2>1, <2>2, <2>3, <2>4
<1>7. EnrollmentOK'
  <2> SUFFICES ASSUME enrollment' # None, (enrollment.settled /\ enrollment.pin \notin disturbed)'
               PROVE  /\ edition'[enrollment'.pin].state = "published"
                      /\ enrollment'.locked \cup enrollment'.open = edition'[enrollment'.pin].nodes
                      /\ enrollment'.open # {}
    BY DEF EnrollmentOK
  <2>1. PICK r : r = enrollment /\ r = enrollment' /\ r \in EnrollmentRow
    OBVIOUS
  <2>2. r.pin \in Editions /\ r.pin \notin disturbed /\ r.settled
    BY <2>1 DEF EnrollmentRow
  <2>3. /\ edition[r.pin] # None /\ edition[r.pin].state = "published"
        /\ r.locked \cup r.open = edition[r.pin].nodes /\ r.open # {}
    BY <2>1, <2>2 DEF EnrollmentInv, EnrollmentOK, EnrollmentTypeOK
  <2>4. CASE r.pin = v
    BY <1>1, <2>1, <2>2, <2>3, <2>4
  <2>5. CASE r.pin # v
    BY <1>1, <2>1, <2>2, <2>3, <2>5
  <2> QED
    BY <2>4, <2>5
<1>8. EnrollmentTypeOK'
  <2>1. ASSUME enrollment' # None
        PROVE  class' # None /\ edition'[enrollment'.pin] # None
    <3>1. class # None /\ edition[enrollment.pin] # None /\ enrollment.pin \in Editions
      BY <2>1 DEF EnrollmentInv, EnrollmentTypeOK, EnrollmentRow
    <3> QED
      BY <1>2, <2>1, <3>1
  <2> QED
    BY <1>1, <2>1 DEF EnrollmentInv, EnrollmentTypeOK
<1> QED
  BY <1>3, <1>5, <1>6, <1>7, <1>8 DEF EnrollmentInv

\* An edit ends: it was about to write a version nobody else is about to write,
\* unless that version is disturbed.
LEMMA EditEnds ==
  ASSUME EnrollmentInv, NEW q \in Requests, IsEdit(q), NEW e, EndEdit(q, e)
  PROVE  /\ SessionOK' /\ EditOK(req[q])
         /\ edition' = [edition EXCEPT ![req[q].v] = e] /\ UNCHANGED class
         /\ \A o \in Requests : req'[o] = req[o] \/ req'[o] = None
         /\ \A o \in Requests : IsEdit(o)' /\ req'[o].v = req[q].v => req[q].v \in disturbed
<1>1. /\ SessionOK' /\ req'[q] = None
      /\ \A o \in Requests \ {q} : req'[o] = req[o]
      /\ edition' = [edition EXCEPT ![req[q].v] = e] /\ UNCHANGED class
  BY EndKeepsAlone DEF EnrollmentInv, EndEdit
<1>2. ASSUME NEW o \in Requests, IsEdit(o)', req'[o].v = req[q].v
      PROVE  req[q].v \in disturbed
  <2>1. o # q /\ IsEdit(o) /\ req[o].v = req[q].v
    BY <1>1, <1>2 DEF IsEdit
  <2> QED
    BY <2>1 DEF EnrollmentInv, EditsOK
<1> QED
  BY <1>1, <1>2 DEF EnrollmentInv, EditsOK

\* Columns of a version are set; the others keep their values.
LEMMA EditionSet ==
  ASSUME NEW f \in EditionRow, NEW x, NEW y
  PROVE  /\ [f EXCEPT !.nodes = x] = [state |-> f.state, nodes |-> x, locks |-> f.locks]
         /\ [f EXCEPT !.locks = y] = [state |-> f.state, nodes |-> f.nodes, locks |-> y]
         /\ [f EXCEPT !.nodes = x, !.locks = y] = [state |-> f.state, nodes |-> x, locks |-> y]
<1>1. [f EXCEPT !.nodes = x] = [state |-> f.state, nodes |-> x, locks |-> f.locks]
  BY DEF EditionRow
<1>2. [f EXCEPT !.locks = y] = [state |-> f.state, nodes |-> f.nodes, locks |-> y]
  BY DEF EditionRow
<1>3. [f EXCEPT !.nodes = x, !.locks = y] = [[f EXCEPT !.nodes = x] EXCEPT !.locks = y]
  OBVIOUS
<1>4. PICK g : g = [state |-> f.state, nodes |-> x, locks |-> f.locks]
  OBVIOUS
<1>5. [g EXCEPT !.locks = y] = [state |-> f.state, nodes |-> x, locks |-> y]
  BY <1>4
<1> QED
  BY <1>1, <1>2, <1>3, <1>4, <1>5

\* The progress rows of an enrollment are set.
LEMMA EnrollmentSet ==
  ASSUME NEW of \in EnrollmentRow, NEW x, NEW y
  PROVE  [of EXCEPT !.locked = x, !.open = y] =
           [pin |-> of.pin, locked |-> x, open |-> y, settled |-> of.settled]
<1>1. [of EXCEPT !.locked = x, !.open = y] = [[of EXCEPT !.locked = x] EXCEPT !.open = y]
  OBVIOUS
<1>2. PICK g : g = [pin |-> of.pin, locked |-> x, open |-> of.open, settled |-> of.settled]
  OBVIOUS
<1>3. [of EXCEPT !.locked = x] = g
  BY <1>2 DEF EnrollmentRow
<1>4. [g EXCEPT !.open = y] =
        [pin |-> of.pin, locked |-> x, open |-> y, settled |-> of.settled]
  BY <1>2
<1> QED
  BY <1>1, <1>3, <1>4

\* A version is written in place, and its nodes do not become fewer.
LEMMA VersionEdited ==
  ASSUME EnrollmentInv, NEW q \in Requests, IsEdit(q), NEW e, EndEdit(q, e),
         edition[req[q].v] # None, e \in EditionRow,
         edition[req[q].v].nodes \subseteq e.nodes, Joins(e.locks, e.nodes),
         disturbed \subseteq disturbed', disturbed' \subseteq disturbed \cup {req[q].v},
         UNCHANGED enrollment,
         req[q].v \notin disturbed' =>
            /\ AcyclicPairs(Pairs(e.locks))
            /\ e.state = "published" => e.nodes # {}
            /\ edition[req[q].v].state = "published" =>
                  e.state = "published" /\ e.nodes = edition[req[q].v].nodes
  PROVE  EnrollmentInv'
<1>1. PICK v : v = req[q].v
  OBVIOUS
<1>2. /\ SessionOK' /\ v \in Editions
      /\ edition' = [edition EXCEPT ![v] = e] /\ UNCHANGED class
      /\ \A o \in Requests : req'[o] = req[o] \/ req'[o] = None
      /\ \A o \in Requests : IsEdit(o)' /\ req'[o].v = v => v \in disturbed
  BY <1>1, EditEnds DEF EditOK
<1>3. ASSUME enrollment' # None
      PROVE  /\ enrollment \in EnrollmentRow
             /\ enrollment.locked \cap enrollment.open = {}
             /\ enrollment.locked \cup enrollment.open \subseteq edition'[enrollment.pin].nodes
  <2>1. /\ enrollment \in EnrollmentRow /\ enrollment.pin \in Editions
        /\ enrollment.locked \cap enrollment.open = {}
        /\ enrollment.locked \cup enrollment.open \subseteq edition[enrollment.pin].nodes
    BY <1>3 DEF EnrollmentInv, EnrollmentTypeOK, EnrollmentOK, EnrollmentRow
  <2>2. edition \in [Editions -> EditionRow \cup {None}]
    BY DEF EnrollmentInv, EnrollmentTypeOK
  <2>3. edition[enrollment.pin].nodes \subseteq edition'[enrollment.pin].nodes
    BY <1>1, <1>2, <2>1, <2>2
  <2> QED
    BY <2>1, <2>3
<1> QED
  BY <1>1, <1>2, <1>3, EditionMoves

\* A node is deleted, with its dependencies and progress rows.
LEMMA NodeDeleted ==
  ASSUME EnrollmentInv, NEW q \in Requests, CommitDeleteNode(q)
  PROVE  EnrollmentInv'
<1>1. PICK v, gone : v = req[q].v /\ gone = req[q].nodes
  OBVIOUS
<1>2. PICK f : f = edition[v]
  OBVIOUS
<1>3. PICK x, y : x = f.nodes \ gone /\ y = {d \in f.locks : {d.source, d.target} \cap gone = {}}
  OBVIOUS
<1>4. PICK e : e = [state |-> f.state, nodes |-> x, locks |-> y]
  OBVIOUS
<1>5. /\ IsEdit(q) /\ req[q].op = "delete_node"
      /\ EndEdit(q, [f EXCEPT !.nodes = x, !.locks = y])
      /\ enrollment' = IF enrollment = None \/ enrollment.pin # v THEN enrollment
                       ELSE [enrollment EXCEPT !.locked = @ \ gone, !.open = @ \ gone]
      /\ UNCHANGED disturbed
  BY <1>1, <1>2, <1>3 DEF CommitDeleteNode, Does
<1>6. EditOK(req[q])
  BY <1>5 DEF EnrollmentInv, EditsOK
<1>7. /\ v \in Editions /\ f # None /\ f \in EditionRow
      /\ v \notin disturbed => f.state = "draft"
  BY <1>1, <1>2, <1>5, <1>6 DEF EditOK, EnrollmentInv, EnrollmentTypeOK
<1>8. EndEdit(q, e)
  <2>1. f \in EditionRow
    BY <1>7
  <2>2. [f EXCEPT !.nodes = x, !.locks = y] = [state |-> f.state, nodes |-> x, locks |-> y]
    BY <2>1, EditionSet, Zenon
  <2>3. [f EXCEPT !.nodes = x, !.locks = y] = e
    BY <1>4, <2>2
  <2> QED
    BY <1>5, <2>3
<1>9. /\ SessionOK'
      /\ edition' = [edition EXCEPT ![v] = e] /\ UNCHANGED class
      /\ \A o \in Requests : req'[o] = req[o] \/ req'[o] = None
      /\ \A o \in Requests : IsEdit(o)' /\ req'[o].v = v => v \in disturbed
  BY <1>1, <1>5, <1>8, EditEnds
<1>10. Joins(f.locks, f.nodes) /\ (v \notin disturbed => AcyclicPairs(Pairs(f.locks)))
  BY <1>2, <1>7 DEF EnrollmentInv, GraphsOK, GraphOK
<1>11. /\ e \in EditionRow /\ Joins(e.locks, e.nodes) /\ e.state = f.state
       /\ Pairs(e.locks) \subseteq Pairs(f.locks)
  <2>1. e.state = f.state /\ e.nodes = x /\ e.locks = y
    BY <1>4
  <2>2. e \in EditionRow
    BY <1>3, <1>4, <1>7 DEF EditionRow
  <2>3. Joins(y, x)
    BY <1>3, <1>10 DEF Joins
  <2>4. Pairs(y) \subseteq Pairs(f.locks)
    BY <1>3 DEF Pairs
  <2> QED
    BY <2>1, <2>2, <2>3, <2>4
<1>12. v \notin disturbed => AcyclicPairs(Pairs(e.locks))
  BY <1>10, <1>11, FewerPairsAcyclic
<1>13. ASSUME enrollment' # None
       PROVE  /\ enrollment # None /\ enrollment' \in EnrollmentRow
              /\ enrollment'.pin = enrollment.pin /\ enrollment'.settled = enrollment.settled
              /\ enrollment'.locked \cap enrollment'.open = {}
              /\ enrollment'.locked \cup enrollment'.open \subseteq edition'[enrollment.pin].nodes
              /\ enrollment.settled /\ enrollment.pin \notin disturbed => enrollment' = enrollment
  <2>1. enrollment # None
    BY <1>5, <1>13
  <2>2. PICK of : /\ of = enrollment /\ of \in EnrollmentRow /\ of.locked \cap of.open = {}
                  /\ of.locked \cup of.open \subseteq edition[of.pin].nodes
                  /\ of.settled /\ of.pin \notin disturbed => edition[of.pin].state = "published"
    BY <2>1 DEF EnrollmentInv, EnrollmentTypeOK, EnrollmentOK
  <2>3. edition \in [Editions -> EditionRow \cup {None}] /\ of.pin \in Editions
    BY <2>2 DEF EnrollmentInv, EnrollmentTypeOK, EnrollmentRow
  <2>4. CASE of.pin # v
    <3>1. enrollment' = of /\ edition'[of.pin] = edition[of.pin]
      BY <1>5, <1>9, <2>2, <2>3, <2>4
    <3> QED
      BY <2>1, <2>2, <3>1
  <2>5. CASE of.pin = v
    <3>1. PICK next : next = [pin |-> of.pin, locked |-> of.locked \ gone,
                              open |-> of.open \ gone, settled |-> of.settled]
      OBVIOUS
    <3>2. enrollment' = next
      <4>1. enrollment' = [of EXCEPT !.locked = of.locked \ gone, !.open = of.open \ gone]
        BY <1>5, <2>1, <2>2, <2>5
      <4>2. of \in EnrollmentRow
        BY <2>2
      <4> QED
        BY <3>1, <4>1, <4>2, EnrollmentSet
    <3>3. ~(of.settled /\ of.pin \notin disturbed)
      BY <1>2, <1>7, <2>2, <2>5
    <3>4. edition'[of.pin].nodes = f.nodes \ gone
      BY <1>3, <1>4, <1>7, <1>9, <2>3, <2>5
    <3>5. next \in EnrollmentRow /\ next.locked \cap next.open = {}
      BY <2>2, <3>1 DEF EnrollmentRow
    <3>6. next.locked \cup next.open \subseteq f.nodes \ gone
      BY <1>2, <2>2, <2>5, <3>1
    <3> QED
      BY <2>1, <2>2, <3>1, <3>2, <3>3, <3>4, <3>5, <3>6
  <2> QED
    BY <2>4, <2>5
<1> QED
  BY <1>2, <1>5, <1>7, <1>9, <1>11, <1>12, <1>13, EditionMoves

\* A new version is empty, or a clone of the one before it with the dependencies
\* among the nodes that were read.
LEMMA VersionCreated ==
  ASSUME EnrollmentInv, NEW q \in Requests, CommitVersion(q)
  PROVE  EnrollmentInv'
<1>1. PICK v, nodes : v = req[q].v /\ nodes = req[q].nodes
  OBVIOUS
<1>2. PICK locks : locks = IF nodes = {} THEN {}
                           ELSE {d \in edition[v - 1].locks : {d.source, d.target} \subseteq nodes}
  OBVIOUS
<1>3. PICK e : e = [state |-> "draft", nodes |-> nodes, locks |-> locks]
  OBVIOUS
<1>4. /\ IsEdit(q) /\ req[q].op = "create_version" /\ EndEdit(q, e) /\ edition[v] = None
      /\ disturbed' = IF v - 1 \in disturbed THEN disturbed \cup {v} ELSE disturbed
      /\ UNCHANGED enrollment
  BY <1>1, <1>2, <1>3 DEF CommitVersion, Does
<1>5. /\ SessionOK' /\ EditOK(req[q]) /\ v \in Editions
      /\ edition' = [edition EXCEPT ![v] = e] /\ UNCHANGED class
      /\ \A o \in Requests : req'[o] = req[o] \/ req'[o] = None
      /\ \A o \in Requests : IsEdit(o)' /\ req'[o].v = v => v \in disturbed
  BY <1>1, <1>4, EditEnds DEF EditOK
<1>6. /\ nodes \in SUBSET Labels
      /\ nodes # {} => v - 1 \in Editions /\ edition[v - 1] # None
  BY <1>1, <1>4, <1>5 DEF EditOK
<1>7. /\ locks \in SUBSET Locks /\ Joins(locks, nodes)
      /\ v \notin disturbed' => AcyclicPairs(Pairs(locks))
  <2>1. CASE nodes = {}
    <3>1. locks = {} /\ Pairs(locks) = {}
      BY <1>2, <2>1 DEF Pairs
    <3> QED
      BY <3>1, NoPairsAcyclic DEF Joins
  <2>2. CASE nodes # {}
    <3>1. PICK f : /\ f = edition[v - 1] /\ f \in EditionRow
                   /\ v - 1 \notin disturbed => AcyclicPairs(Pairs(f.locks))
      BY <1>6, <2>2 DEF EnrollmentInv, EnrollmentTypeOK, GraphsOK, GraphOK
    <3>2. locks = {d \in f.locks : {d.source, d.target} \subseteq nodes}
      BY <1>2, <2>2, <3>1
    <3>3. f.locks \in SUBSET Locks
      BY <3>1 DEF EditionRow
    <3>4. Pairs(locks) \subseteq Pairs(f.locks)
      BY <3>2 DEF Pairs
    <3>5. v \notin disturbed' => v - 1 \notin disturbed
      BY <1>4
    <3> QED
      BY <3>1, <3>2, <3>3, <3>4, <3>5, FewerPairsAcyclic DEF Joins
  <2> QED
    BY <2>1, <2>2
<1>8. e \in EditionRow /\ e.state = "draft" /\ e.nodes = nodes /\ e.locks = locks
  BY <1>3, <1>6, <1>7 DEF EditionRow
<1>9. disturbed \subseteq disturbed' /\ disturbed' \subseteq disturbed \cup {v}
  BY <1>4
<1>10. ASSUME enrollment' # None
       PROVE  /\ enrollment \in EnrollmentRow
              /\ enrollment.locked \cap enrollment.open = {}
              /\ enrollment.locked \cup enrollment.open \subseteq edition'[enrollment.pin].nodes
  <2>1. /\ enrollment \in EnrollmentRow /\ enrollment.pin \in Editions
        /\ edition[enrollment.pin] # None
        /\ enrollment.locked \cap enrollment.open = {}
        /\ enrollment.locked \cup enrollment.open \subseteq edition[enrollment.pin].nodes
    BY <1>4, <1>10 DEF EnrollmentInv, EnrollmentTypeOK, EnrollmentOK, EnrollmentRow
  <2>2. edition'[enrollment.pin] = edition[enrollment.pin]
    BY <1>4, <1>5, <2>1 DEF EnrollmentInv, EnrollmentTypeOK
  <2> QED
    BY <2>1, <2>2
<1> QED
  BY <1>4, <1>5, <1>7, <1>8, <1>9, <1>10, EditionMoves

\* A dependency is deleted: what edits in flight have checked still holds.
LEMMA DependencyDeleted ==
  ASSUME EnrollmentInv, NEW v \in Editions, NEW d \in Locks, DeleteDependency(v, d)
  PROVE  EnrollmentInv'
<1>1. PICK f : f = edition[v]
  OBVIOUS
<1>2. PICK e : e = [state |-> f.state, nodes |-> f.nodes, locks |-> f.locks \ {d}]
  OBVIOUS
<1>3. f # None /\ f \in EditionRow /\ edition \in [Editions -> EditionRow \cup {None}]
  BY <1>1 DEF DeleteDependency, EnrollmentInv, EnrollmentTypeOK
<1>4. edition' = [edition EXCEPT ![v] = e] /\ UNCHANGED <<session, class, enrollment, disturbed>>
  <2>1. /\ edition' = [edition EXCEPT ![v] = [f EXCEPT !.locks = f.locks \ {d}]]
        /\ UNCHANGED <<session, class, enrollment, disturbed>>
    BY <1>1, <1>3 DEF DeleteDependency
  <2>2. [f EXCEPT !.locks = f.locks \ {d}] =
          [state |-> f.state, nodes |-> f.nodes, locks |-> f.locks \ {d}]
    BY <1>3, EditionSet, Zenon
  <2> QED
    BY <1>2, <2>1, <2>2
<1>5. /\ Joins(f.locks, f.nodes)
      /\ v \notin disturbed => /\ AcyclicPairs(Pairs(f.locks))
                               /\ f.state = "published" => f.nodes # {}
  BY <1>1, <1>3 DEF EnrollmentInv, GraphsOK, GraphOK
<1>6. /\ e \in EditionRow /\ e.state = f.state /\ e.nodes = f.nodes
      /\ Joins(e.locks, e.nodes) /\ Pairs(e.locks) \subseteq Pairs(f.locks)
  BY <1>2, <1>3, <1>5 DEF EditionRow, Joins, Pairs
<1>7. v \notin disturbed => AcyclicPairs(Pairs(e.locks))
  BY <1>5, <1>6, FewerPairsAcyclic
<1>8. SessionOK' /\ req' = req
  BY <1>4, StillAlone DEF EnrollmentInv, session
<1>9. ASSUME NEW o \in Requests, IsEdit(o)', req'[o].v = v PROVE EditOK(req[o])'
  <2>1. PICK r : r = req[o] /\ r = req'[o] /\ EditOK(r) /\ r.v = v
    BY <1>8, <1>9 DEF IsEdit, EnrollmentInv, EditsOK
  <2>2. \A w \in Editions : edition[w] # None => edition'[w] # None
    BY <1>3, <1>4, <1>6, EnrollmentRowAssumption
  <2>3. edition'[v] = e /\ edition[v] = f
    BY <1>1, <1>3, <1>4
  <2>4. ASSUME NEW x \in Locks, ~CreatesCycle(Pairs(f.locks), x.source, x.target)
        PROVE  ~CreatesCycle(Pairs(e.locks), x.source, x.target)
    BY <1>6, <2>4 DEF CreatesCycle, Reaches, Closed
  <2>5. EditOK(r)'
    <3>1. ASSUME r.v \notin disturbed, r.op = "create_dependency"
          PROVE  \E x \in Locks : /\ r.locks = {x}
                                  /\ ~CreatesCycle(Pairs(e.locks), x.source, x.target)
      <4>1. PICK x \in Locks : r.locks = {x} /\ ~CreatesCycle(Pairs(f.locks), x.source, x.target)
        BY <2>1, <2>3, <3>1 DEF EditOK
      <4> QED
        BY <2>4, <4>1
    <3> QED
      BY <1>4, <1>6, <2>1, <2>2, <2>3, <3>1 DEF EditOK
  <2> QED
    BY <2>1, <2>5
<1>10. ASSUME enrollment' # None
       PROVE  /\ enrollment \in EnrollmentRow
              /\ enrollment.locked \cap enrollment.open = {}
              /\ enrollment.locked \cup enrollment.open \subseteq edition'[enrollment.pin].nodes
  <2>1. /\ enrollment \in EnrollmentRow /\ enrollment.pin \in Editions
        /\ enrollment.locked \cap enrollment.open = {}
        /\ enrollment.locked \cup enrollment.open \subseteq edition[enrollment.pin].nodes
    BY <1>4, <1>10 DEF EnrollmentInv, EnrollmentTypeOK, EnrollmentOK, EnrollmentRow
  <2>2. edition'[enrollment.pin].nodes = edition[enrollment.pin].nodes
    BY <1>1, <1>3, <1>4, <1>6, <2>1
  <2> QED
    BY <2>1, <2>2
<1>11. /\ e \in EditionRow /\ Joins(e.locks, e.nodes)
       /\ v \notin disturbed' =>
             /\ AcyclicPairs(Pairs(e.locks))
             /\ e.state = "published" => e.nodes # {}
             /\ edition[v] # None /\ edition[v].state = "published" =>
                   e.state = "published" /\ e.nodes = edition[v].nodes
  BY <1>1, <1>4, <1>5, <1>6, <1>7
<1>12. disturbed \subseteq disturbed' /\ disturbed' \subseteq disturbed \cup {v}
  BY <1>4
<1>13. enrollment' = enrollment /\ class' = class /\ edition' = [edition EXCEPT ![v] = e]
  BY <1>4
<1> QED
  BY <1>8, <1>9, <1>10, <1>11, <1>12, <1>13, EditionMoves

\* The greatest of the versions there are is one of them.
LEMMA LatestExists ==
  ASSUME NEW S \in SUBSET Exists, S # {}
  PROVE  Latest(S) \in S
<1>1. S \in SUBSET (1 .. MaxEdition)
  BY DEF Exists, Editions
<1>2. \E k \in S : \A m \in S : m <= k
  BY <1>1, EnrollmentAssumption, Greatest
<1> QED
  BY <1>2 DEF Latest

\* A version there is can be pinned.
LEMMA PinnedOK ==
  ASSUME class # None, NEW v \in Editions, edition[v] # None
  PROVE  EnrollOK(Pinned(v)) /\ Pinned(v).key = "enrollment"
<1>1. (edition[v].state = "published") \in BOOLEAN
  OBVIOUS
<1>2. PICK b \in BOOLEAN : b = (edition[v].state = "published")
  BY <1>1
<1>3. Pinned(v) = [key |-> "enrollment", phase |-> "pinned", pin |-> v, settled |-> b,
                   nodes |-> {}, waits |-> {}]
  BY <1>2 DEF Pinned
<1>4. PICK r : r = Pinned(v)
  OBVIOUS
<1>5. /\ r.key = "enrollment" /\ r.phase = "pinned" /\ r.pin = v /\ r.settled = b
      /\ r.nodes = {} /\ r.waits = {}
  BY <1>3, <1>4
<1> QED
  BY <1>2, <1>4, <1>5 DEF EnrollOK

\* The nodes are read, and then the dependencies that lead to them.
LEMMA NodesAreRead ==
  ASSUME EnrollmentInv, NEW q \in Requests, ReadNodes(q) \/ ReadLocks(q)
  PROVE  EnrollmentInv'
<1>1. PICK s : s = req[q]
  OBVIOUS
<1>2. IsEnroll(q) /\ EnrollOK(s) /\ s.key = "enrollment"
  BY <1>1 DEF ReadNodes, ReadLocks, Reads, IsEnroll, EnrollmentInv, EnrollsOK
<1>3. CASE ReadNodes(q)
  <2>1. PICK r : r = [s EXCEPT !.phase = "nodes", !.nodes = edition[s.pin].nodes]
    OBVIOUS
  <2>2. Continue(q, r) /\ UNCHANGED enrollmentRows /\ s.phase = "pinned"
    BY <1>1, <1>3, <2>1 DEF ReadNodes, Reads, version_nodes
  <2>3. edition[s.pin] \in EditionRow
    BY <1>2, <2>2 DEF EnrollOK, EnrollmentInv, EnrollmentTypeOK
  <2>4. edition[s.pin].nodes \in SUBSET Labels
    BY <2>3 DEF EditionRow
  <2>5. /\ r.key = s.key /\ r.phase = "nodes" /\ r.pin = s.pin /\ r.settled = s.settled
        /\ r.nodes = edition[s.pin].nodes /\ r.waits = s.waits
    BY <1>2, <2>1, <2>2 DEF Continue
  <2>6. EnrollOK(r)
    BY <1>2, <2>2, <2>4, <2>5 DEF EnrollOK
  <2> QED
    BY <1>2, <2>2, <2>5, <2>6, EnrollReads
<1>4. CASE ReadLocks(q)
  <2>1. PICK v, waits : v = s.pin /\ waits = locked_nodes(v, s.nodes)
    OBVIOUS
  <2>2. PICK r : r = [s EXCEPT !.phase = "ready", !.waits = waits]
    OBVIOUS
  <2>3. Continue(q, r) /\ UNCHANGED enrollmentRows /\ s.phase = "nodes"
    BY <1>1, <1>4, <2>1, <2>2 DEF ReadLocks, Reads
  <2>4. waits = {n \in s.nodes : \E d \in edition[v].locks : d.target = n}
    BY <2>1 DEF locked_nodes
  <2>5. /\ r.key = s.key /\ r.phase = "ready" /\ r.pin = v /\ r.settled = s.settled
        /\ r.nodes = s.nodes /\ r.waits = waits
    BY <2>1, <2>2, <2>3 DEF Continue
  <2>6. ASSUME s.settled, v \notin disturbed PROVE s.nodes \ waits # {}
    <3>1. PICK e : e = edition[v]
      OBVIOUS
    <3>2. v \in Editions /\ e # None /\ e.state = "published" /\ s.nodes = e.nodes
      BY <1>2, <2>1, <2>3, <2>6, <3>1 DEF EnrollOK
    <3>3. /\ Joins(e.locks, e.nodes) /\ AcyclicPairs(Pairs(e.locks)) /\ e.nodes # {}
          /\ e \in EditionRow
      BY <2>6, <3>1, <3>2 DEF EnrollmentInv, EnrollmentTypeOK, GraphsOK, GraphOK
    <3>4. e.nodes \in SUBSET Labels
      BY <3>3 DEF EditionRow
    <3>5. PICK x \in e.nodes : \A y \in e.nodes : <<y, x>> \notin Pairs(e.locks)
      BY <3>3, <3>4, SourceExists, EnrollmentAssumption
    <3>6. x \notin waits
      BY <2>4, <3>1, <3>3, <3>5 DEF Joins, Pairs
    <3> QED
      BY <3>2, <3>5, <3>6
  <2>7. EnrollOK(r)
    BY <1>2, <2>1, <2>3, <2>4, <2>5, <2>6 DEF EnrollOK
  <2> QED
    BY <1>2, <2>3, <2>5, <2>7, EnrollReads
<1> QED
  BY <1>3, <1>4

\* An enrollment is inserted with its rows, all of nodes that are there.
LEMMA EnrollCommits ==
  ASSUME EnrollmentInv, NEW q \in Requests, CommitEnroll(q)
  PROVE  EnrollmentInv'
<1>1. PICK s : s = req[q]
  OBVIOUS
<1>2. /\ End(q) /\ s.key = "enrollment" /\ s.phase = "ready"
      /\ s.nodes \subseteq edition[s.pin].nodes
      /\ enrollment' = initialize_progress(s)
      /\ UNCHANGED <<edition, class, disturbed>>
  BY <1>1 DEF CommitEnroll
<1>3. /\ SessionOK' /\ req'[q] = None /\ req[q] # None
      /\ \A o \in Requests \ {q} : req'[o] = req[o]
  BY <1>2, EndKeepsAlone DEF EnrollmentInv
<1>4. EnrollOK(s)
  BY <1>1, <1>2, <1>3 DEF IsEnroll, EnrollmentInv, EnrollsOK
<1>5. GraphsOK' /\ EditsOK' /\ EnrollsOK'
  BY <1>2, <1>3, RequestsMove
<1>6. PICK of : of = [pin |-> s.pin, locked |-> s.waits, open |-> s.nodes \ s.waits,
                      settled |-> s.settled]
  OBVIOUS
<1>7. enrollment' = of
  BY <1>2, <1>6 DEF initialize_progress
<1>8. /\ of.pin = s.pin /\ of.locked = s.waits /\ of.open = s.nodes \ s.waits
      /\ of.settled = s.settled
  BY <1>6
<1>9. of \in EnrollmentRow /\ of.locked \cup of.open = s.nodes /\ of.locked \cap of.open = {}
  BY <1>2, <1>4, <1>6, <1>8 DEF EnrollOK, EnrollmentRow
<1>10. EnrollmentOK'
  BY <1>2, <1>4, <1>7, <1>8, <1>9 DEF EnrollmentOK, EnrollOK
<1>11. EnrollmentTypeOK'
  BY <1>2, <1>4, <1>7, <1>8, <1>9 DEF EnrollmentInv, EnrollmentTypeOK, EnrollOK
<1> QED
  BY <1>3, <1>5, <1>10, <1>11 DEF EnrollmentInv

\* What edits read and check before they begin.
LEMMA EditReads ==
  ASSUME EnrollmentInv, NEW q \in Requests, NEW v \in Editions,
         \/ \E clone \in BOOLEAN : CreateVersion(q, v, clone)
         \/ CreateNode(q, v)
         \/ \E n \in Labels : DeleteNode(q, v, n)
         \/ \E d \in Locks : CreateDependency(q, v, d)
         \/ Publish(q, v)
         \/ PromoteNodes(q, v)
         \/ \E relations \in SUBSET Locks : PromoteRelations(q, v, relations)
  PROVE  EnrollmentInv'
<1>1. ASSUME NEW clone \in BOOLEAN, CreateVersion(q, v, clone) PROVE EnrollmentInv'
  <2>1. PICK nodes : nodes = IF clone THEN edition[v - 1].nodes ELSE {}
    OBVIOUS
  <2>2. BeginEdit(q, Edit(q, "create_version", v, nodes, {}))
    BY <1>1, <2>1 DEF CreateVersion
  <2>3. clone => /\ v - 1 \in Editions /\ edition[v - 1] # None
                 /\ edition[v - 1].nodes \in SUBSET Labels
    <3>1. clone => v - 1 \in Editions /\ v - 1 < v
      BY <1>1, EnrollmentAssumption DEF CreateVersion, Editions
    <3>2. clone => edition[v - 1] # None
      BY <1>1, <3>1 DEF CreateVersion
    <3> QED
      BY <3>1, <3>2 DEF EnrollmentInv, EnrollmentTypeOK, EditionRow
  <2>4. nodes \in SUBSET Labels /\ (nodes # {} => clone)
    BY <2>1, <2>3
  <2>5. PICK r : r = Edit(q, "create_version", v, nodes, {})
    OBVIOUS
  <2>6. EditOK(r) /\ r.key = q
    BY <2>3, <2>4, <2>5 DEF EditOK, Edit
  <2> QED
    BY <2>2, <2>5, <2>6, EditBegins
<1>2. ASSUME CreateNode(q, v) PROVE EnrollmentInv'
  <2>1. /\ BeginEdit(q, Edit(q, "create_node", v, {}, {}))
        /\ edition[v] # None /\ edition[v].state = "draft"
    BY <1>2 DEF CreateNode, Draft
  <2>2. PICK r : r = Edit(q, "create_node", v, {}, {})
    OBVIOUS
  <2>3. EditOK(r) /\ r.key = q
    BY <2>1, <2>2 DEF EditOK, Edit
  <2> QED
    BY <2>1, <2>2, <2>3, EditBegins
<1>3. ASSUME NEW n \in Labels, DeleteNode(q, v, n) PROVE EnrollmentInv'
  <2>1. /\ BeginEdit(q, Edit(q, "delete_node", v, {n}, {}))
        /\ edition[v] # None /\ edition[v].state = "draft"
    BY <1>3 DEF DeleteNode, Draft
  <2>2. PICK r : r = Edit(q, "delete_node", v, {n}, {})
    OBVIOUS
  <2>3. EditOK(r) /\ r.key = q
    BY <2>1, <2>2 DEF EditOK, Edit
  <2> QED
    BY <2>1, <2>2, <2>3, EditBegins
<1>4. ASSUME NEW d \in Locks, CreateDependency(q, v, d) PROVE EnrollmentInv'
  <2>1. /\ BeginEdit(q, Edit(q, "create_dependency", v, {}, {d}))
        /\ edition[v] # None /\ edition[v].state = "draft"
        /\ ~CreatesCycle(Pairs(edition[v].locks), d.source, d.target)
    BY <1>4 DEF CreateDependency, Draft
  <2>2. PICK r : r = Edit(q, "create_dependency", v, {}, {d})
    OBVIOUS
  <2>3. EditOK(r) /\ r.key = q
    BY <2>1, <2>2 DEF EditOK, Edit
  <2> QED
    BY <2>1, <2>2, <2>3, EditBegins
<1>5. ASSUME Publish(q, v) PROVE EnrollmentInv'
  <2>1. /\ BeginEdit(q, Edit(q, "publish", v, {}, {}))
        /\ edition[v] # None /\ edition[v].state = "draft" /\ edition[v].nodes # {}
    BY <1>5 DEF Publish, Draft
  <2>2. PICK r : r = Edit(q, "publish", v, {}, {})
    OBVIOUS
  <2>3. EditOK(r) /\ r.key = q
    BY <2>1, <2>2 DEF EditOK, Edit
  <2> QED
    BY <2>1, <2>2, <2>3, EditBegins
<1>6. ASSUME PromoteNodes(q, v) PROVE EnrollmentInv'
  <2>1. BeginEdit(q, Edit(q, "promote_nodes", v, {}, {})) /\ edition[v] # None
    BY <1>6 DEF PromoteNodes
  <2>2. PICK r : r = Edit(q, "promote_nodes", v, {}, {})
    OBVIOUS
  <2>3. EditOK(r) /\ r.key = q
    BY <2>1, <2>2 DEF EditOK, Edit
  <2> QED
    BY <2>1, <2>2, <2>3, EditBegins
<1>7. ASSUME NEW relations \in SUBSET Locks, PromoteRelations(q, v, relations)
      PROVE  EnrollmentInv'
  <2>1. BeginEdit(q, Edit(q, "promote_relations", v, {}, relations)) /\ edition[v] # None
    BY <1>7 DEF PromoteRelations
  <2>2. PICK r : r = Edit(q, "promote_relations", v, {}, relations)
    OBVIOUS
  <2>3. EditOK(r) /\ r.key = q
    BY <2>1, <2>2 DEF EditOK, Edit
  <2> QED
    BY <2>1, <2>2, <2>3, EditBegins
<1> QED
  BY <1>1, <1>2, <1>3, <1>4, <1>5, <1>6, <1>7

\* What an edit in place finds when it writes.
LEMMA EditFinds ==
  ASSUME EnrollmentInv, NEW q \in Requests, IsEdit(q), req[q].op # "create_version",
         NEW v, v = req[q].v, NEW f, f = edition[v]
  PROVE  /\ v \in Editions /\ f # None /\ f \in EditionRow /\ Joins(f.locks, f.nodes)
         /\ req[q].locks \in SUBSET Locks
         /\ v \notin disturbed => /\ AcyclicPairs(Pairs(f.locks))
                                  /\ f.state = "published" => f.nodes # {}
<1>1. /\ v \in Editions /\ f # None /\ req[q].locks \in SUBSET Locks
  BY DEF EnrollmentInv, EditsOK, EditOK
<1> QED
  BY <1>1 DEF EnrollmentInv, EnrollmentTypeOK, GraphsOK, GraphOK

\* A node, or those of a promotion, are inserted.
LEMMA NodesInserted ==
  ASSUME EnrollmentInv, NEW q \in Requests, CommitNode(q) \/ CommitPromotedNodes(q)
  PROVE  EnrollmentInv'
<1>1. PICK v : v = req[q].v
  OBVIOUS
<1>2. PICK f : f = edition[v]
  OBVIOUS
<1>3. /\ IsEdit(q) /\ req[q].op \in {"create_node", "promote_nodes"}
      /\ req[q].op = "promote_nodes" => Noted(v)
      /\ req[q].op = "create_node" => disturbed' = disturbed
      /\ UNCHANGED enrollment
  BY <1>1 DEF CommitNode, CommitPromotedNodes, Does
<1>4. PICK new \in SUBSET Labels : EndEdit(q, [f EXCEPT !.nodes = f.nodes \cup new])
  <2>1. CASE CommitNode(q)
    <3>1. PICK n \in FreshLabels(v) : EndEdit(q, [f EXCEPT !.nodes = f.nodes \cup {n}])
      BY <1>1, <1>2, <2>1 DEF CommitNode
    <3>2. {n} \in SUBSET Labels
      BY DEF FreshLabels
    <3> QED
      BY <3>1, <3>2
  <2>2. CASE CommitPromotedNodes(q)
    <3>1. PICK new \in SUBSET FreshLabels(v) :
             EndEdit(q, [f EXCEPT !.nodes = f.nodes \cup new])
      BY <1>1, <1>2, <2>2 DEF CommitPromotedNodes
    <3>2. new \in SUBSET Labels
      BY DEF FreshLabels
    <3> QED
      BY <3>1, <3>2
  <2> QED
    BY <2>1, <2>2
<1>5. /\ v \in Editions /\ f # None /\ f \in EditionRow /\ Joins(f.locks, f.nodes)
      /\ v \notin disturbed => AcyclicPairs(Pairs(f.locks))
  BY <1>1, <1>2, <1>3, EditFinds
<1>6. PICK e : e = [state |-> f.state, nodes |-> f.nodes \cup new, locks |-> f.locks]
  OBVIOUS
<1>7. EndEdit(q, e)
  <2>1. f \in EditionRow
    BY <1>5
  <2>2. [f EXCEPT !.nodes = f.nodes \cup new] =
          [state |-> f.state, nodes |-> f.nodes \cup new, locks |-> f.locks]
    BY <2>1, EditionSet, Zenon
  <2>3. [f EXCEPT !.nodes = f.nodes \cup new] = e
    BY <1>6, <2>2
  <2> QED
    BY <1>4, <2>3
<1>8. /\ e.state = f.state /\ e.nodes = f.nodes \cup new /\ e.locks = f.locks
      /\ e \in EditionRow /\ Joins(e.locks, e.nodes)
  BY <1>5, <1>6 DEF EditionRow, Joins
<1>9. /\ disturbed \subseteq disturbed' /\ disturbed' \subseteq disturbed \cup {v}
      /\ v \notin disturbed' => f.state = "draft"
  <2>1. CASE req[q].op = "create_node"
    <3>1. v \notin disturbed => f.state = "draft"
      BY <1>1, <1>2, <1>3, <2>1 DEF EnrollmentInv, EditsOK, EditOK
    <3> QED
      BY <1>3, <2>1, <3>1
  <2>2. CASE req[q].op = "promote_nodes"
    BY <1>2, <1>3, <1>5, <2>2 DEF Noted, EditionRow
  <2> QED
    BY <1>3, <2>1, <2>2
<1>10. v \notin disturbed' =>
         /\ AcyclicPairs(Pairs(e.locks))
         /\ e.state = "published" => e.nodes # {}
         /\ edition[v].state = "published" => e.state = "published" /\ e.nodes = edition[v].nodes
  BY <1>2, <1>5, <1>8, <1>9
<1>11. edition[v] # None /\ edition[v].nodes \subseteq e.nodes
  BY <1>2, <1>5, <1>8
<1> QED
  BY <1>1, <1>3, <1>7, <1>8, <1>9, <1>10, <1>11, VersionEdited

\* A dependency, or those of a promotion, are inserted.
LEMMA LocksInserted ==
  ASSUME EnrollmentInv, NEW q \in Requests, CommitDependency(q) \/ CommitPromotedRelations(q)
  PROVE  EnrollmentInv'
<1>1. PICK v, locks : v = req[q].v /\ locks = req[q].locks
  OBVIOUS
<1>2. PICK f : f = edition[v]
  OBVIOUS
<1>3. /\ IsEdit(q) /\ req[q].op \in {"create_dependency", "promote_relations"}
      /\ req[q].op = "promote_relations" => Noted(v)
      /\ req[q].op = "create_dependency" => disturbed' = disturbed
      /\ EndEdit(q, [f EXCEPT !.locks = f.locks \cup locks]) /\ Joins(locks, f.nodes)
      /\ UNCHANGED enrollment
  BY <1>1, <1>2 DEF CommitDependency, CommitPromotedRelations, Does
<1>4. /\ v \in Editions /\ f # None /\ f \in EditionRow /\ Joins(f.locks, f.nodes)
      /\ locks \in SUBSET Locks
      /\ v \notin disturbed => /\ AcyclicPairs(Pairs(f.locks))
                               /\ f.state = "published" => f.nodes # {}
  BY <1>1, <1>2, <1>3, EditFinds
<1>5. PICK e : e = [state |-> f.state, nodes |-> f.nodes, locks |-> f.locks \cup locks]
  OBVIOUS
<1>6. EndEdit(q, e)
  <2>1. f \in EditionRow
    BY <1>4
  <2>2. [f EXCEPT !.locks = f.locks \cup locks] =
          [state |-> f.state, nodes |-> f.nodes, locks |-> f.locks \cup locks]
    BY <2>1, EditionSet, Zenon
  <2>3. [f EXCEPT !.locks = f.locks \cup locks] = e
    BY <1>5, <2>2
  <2> QED
    BY <1>3, <2>3
<1>7. /\ e.state = f.state /\ e.nodes = f.nodes /\ e.locks = f.locks \cup locks
      /\ e \in EditionRow /\ Joins(e.locks, e.nodes)
  BY <1>3, <1>4, <1>5 DEF EditionRow, Joins
<1>8. edition'[v] = e
  <2>1. edition' = [edition EXCEPT ![v] = e]
    BY <1>1, <1>6 DEF EndEdit
  <2> QED
    BY <1>4, <2>1 DEF EnrollmentInv, EnrollmentTypeOK
<1>9. /\ disturbed \subseteq disturbed' /\ disturbed' \subseteq disturbed \cup {v}
      /\ v \notin disturbed' => AcyclicPairs(Pairs(e.locks))
  <2>1. CASE req[q].op = "create_dependency"
    <3>1. ASSUME v \notin disturbed PROVE AcyclicPairs(Pairs(e.locks))
      <4>1. PICK d \in Locks : /\ locks = {d}
                               /\ ~CreatesCycle(Pairs(f.locks), d.source, d.target)
        BY <1>1, <1>2, <1>3, <2>1, <3>1 DEF EnrollmentInv, EditsOK, EditOK
      <4>2. Pairs(e.locks) = Pairs(f.locks) \cup {<<d.source, d.target>>}
        BY <1>7, <4>1 DEF Pairs
      <4>3. d.source \in Labels /\ d.target \in Labels
        BY DEF Locks
      <4> QED
        BY <1>4, <3>1, <4>1, <4>2, <4>3, CheckedPairAcyclic
    <3> QED
      BY <1>3, <2>1, <3>1
  <2>2. CASE req[q].op = "promote_relations"
    BY <1>3, <1>8, <2>2 DEF Noted
  <2> QED
    BY <1>3, <2>1, <2>2
<1>10. v \notin disturbed' =>
         /\ AcyclicPairs(Pairs(e.locks))
         /\ e.state = "published" => e.nodes # {}
         /\ edition[v].state = "published" => e.state = "published" /\ e.nodes = edition[v].nodes
  BY <1>2, <1>4, <1>7, <1>9
<1>11. edition[v] # None /\ edition[v].nodes \subseteq e.nodes
  BY <1>2, <1>4, <1>7
<1> QED
  BY <1>1, <1>3, <1>6, <1>7, <1>9, <1>10, <1>11, VersionEdited

\* A version is published.
LEMMA VersionPublished ==
  ASSUME EnrollmentInv, NEW q \in Requests, CommitPublish(q)
  PROVE  EnrollmentInv'
<1>1. PICK v : v = req[q].v
  OBVIOUS
<1>2. PICK f : f = edition[v]
  OBVIOUS
<1>3. /\ IsEdit(q) /\ req[q].op = "publish" /\ UNCHANGED <<enrollment, disturbed>>
      /\ EndEdit(q, [f EXCEPT !.state = "published"])
  BY <1>1, <1>2 DEF CommitPublish, Does
<1>4. /\ v \in Editions /\ f # None /\ f \in EditionRow /\ Joins(f.locks, f.nodes)
      /\ v \notin disturbed => AcyclicPairs(Pairs(f.locks))
  BY <1>1, <1>2, <1>3, EditFinds
<1>5. v \notin disturbed => f.state = "draft" /\ f.nodes # {}
  BY <1>1, <1>2, <1>3 DEF EnrollmentInv, EditsOK, EditOK
<1>6. PICK e : e = [state |-> "published", nodes |-> f.nodes, locks |-> f.locks]
  OBVIOUS
<1>7. [f EXCEPT !.state = "published"] = e
  BY <1>4, <1>6 DEF EditionRow
<1>8. EndEdit(q, e)
  BY <1>3, <1>7
<1>9. /\ e.state = "published" /\ e.nodes = f.nodes /\ e.locks = f.locks
      /\ e \in EditionRow /\ Joins(e.locks, e.nodes)
  BY <1>4, <1>6 DEF EditionRow
<1>10. v \notin disturbed' =>
         /\ AcyclicPairs(Pairs(e.locks))
         /\ e.state = "published" => e.nodes # {}
         /\ edition[v].state = "published" => e.state = "published" /\ e.nodes = edition[v].nodes
  BY <1>2, <1>3, <1>4, <1>5, <1>9
<1>11. edition[v] # None /\ edition[v].nodes \subseteq e.nodes
  BY <1>2, <1>4, <1>9
<1>12. disturbed \subseteq disturbed' /\ disturbed' \subseteq disturbed \cup {v} /\ UNCHANGED enrollment
  BY <1>3
<1> QED
  BY <1>1, <1>3, <1>8, <1>9, <1>10, <1>11, <1>12, VersionEdited

\* Every step of every request and every edit keeps the invariant.
LEMMA EnrollmentSteps == EnrollmentInv /\ [EnrollmentNext]_enrollmentVars => EnrollmentInv'
<1> SUFFICES ASSUME EnrollmentInv, [EnrollmentNext]_enrollmentVars PROVE EnrollmentInv'
  OBVIOUS
<1>1. ASSUME NEW q \in Requests, NEW pin \in Editions \cup {None}, Enroll(q, pin)
      PROVE  EnrollmentInv'
  <2>0. class # None /\ UNCHANGED enrollmentRows
    BY <1>1 DEF Enroll
  <2>1. ASSUME NEW v \in Editions, edition[v] # None, Begin(q, Pinned(v)) PROVE EnrollmentInv'
    BY <2>0, <2>1, PinnedOK, EnrollReads
  <2>2. ASSUME Begin(q, Searching) PROVE EnrollmentInv'
    <3>1. PICK r : r = Searching
      OBVIOUS
    <3>2. /\ r.key = "enrollment" /\ r.phase = "searching" /\ r.settled = FALSE
          /\ r.nodes = {} /\ r.waits = {}
      BY <3>1 DEF Searching
    <3>3. EnrollOK(r)
      BY <2>0, <3>2 DEF EnrollOK
    <3> QED
      BY <2>0, <2>2, <3>1, <3>2, <3>3, EnrollReads
  <2>3. CASE pin # None /\ edition[pin] # None /\ Begin(q, Pinned(pin))
    BY <2>1, <2>3
  <2>4. CASE Published # {} /\ Begin(q, Pinned(Latest(Published)))
    <3>1. Published \in SUBSET Exists
      BY DEF Published
    <3>2. Latest(Published) \in Exists
      BY <2>4, <3>1, LatestExists
    <3> QED
      BY <2>1, <2>4, <3>2 DEF Exists
  <2> QED
    BY <1>1, <2>2, <2>3, <2>4 DEF Enroll
<1>2. ASSUME NEW q \in Requests, ReadLatest(q) PROVE EnrollmentInv'
  <2>1. /\ Exists # {} /\ IsEnroll(q) /\ Continue(q, Pinned(Latest(Exists)))
        /\ UNCHANGED enrollmentRows
    BY <1>2 DEF ReadLatest, Reads
  <2>2. class # None
    BY <2>1 DEF EnrollmentInv, EnrollsOK, EnrollOK
  <2>3. Latest(Exists) \in Exists
    BY <2>1, LatestExists
  <2>4. Latest(Exists) \in Editions /\ edition[Latest(Exists)] # None
    BY <2>3 DEF Exists
  <2> QED
    BY <2>1, <2>2, <2>4, PinnedOK, EnrollReads
<1>3. ASSUME NEW q \in Requests, AbortEnrollment(q) PROVE EnrollmentInv'
  <2>1. End(q) /\ UNCHANGED <<edition, class, enrollment, disturbed>>
    BY <1>3 DEF AbortEnrollment, enrollmentRows
  <2>2. /\ SessionOK' /\ req'[q] = None
        /\ \A o \in Requests \ {q} : req'[o] = req[o]
    BY <2>1, EndKeepsAlone DEF EnrollmentInv
  <2>3. GraphsOK' /\ EditsOK' /\ EnrollsOK'
    BY <2>1, <2>2, RequestsMove
  <2>4. EnrollmentTypeOK' /\ EnrollmentOK'
    BY <2>1 DEF EnrollmentInv, EnrollmentTypeOK, EnrollmentOK
  <2> QED
    BY <2>2, <2>3, <2>4 DEF EnrollmentInv
<1>4. ASSUME UNCHANGED <<session, edition, enrollment, disturbed>>, class' \in ClassRow \cup {None},
             class # None => class' # None
      PROVE  EnrollmentInv'
  <2>1. SessionOK' /\ req' = req
    BY <1>4, StillAlone DEF EnrollmentInv, session
  <2>2. EnrollmentTypeOK' /\ EnrollmentOK' /\ GraphsOK'
    BY <1>4 DEF EnrollmentInv, EnrollmentTypeOK, EnrollmentOK, GraphsOK, GraphOK
  <2>3. EditsOK'
    BY <1>4, <2>1 DEF EnrollmentInv, EditsOK, EditOK, IsEdit
  <2>4. EnrollsOK'
    <3> SUFFICES ASSUME NEW p \in Requests, IsEnroll(p)' PROVE EnrollOK(req[p])'
      BY DEF EnrollsOK
    <3>1. PICK s : s = req'[p] /\ EnrollOK(s)
      BY <2>1 DEF IsEnroll, EnrollmentInv, EnrollsOK
    <3> QED
      BY <1>4, <3>1 DEF EnrollOK
  <2> QED
    BY <2>1, <2>2, <2>3, <2>4 DEF EnrollmentInv
<1>5. ASSUME NEW t \in Teachers, CreateClass(t) \/ UpdateClass(t) PROVE EnrollmentInv'
  <2>1. UNCHANGED <<session, edition, enrollment, disturbed>>
    BY <1>5 DEF CreateClass, UpdateClass
  <2>2. class' \in ClassRow
    BY <1>5 DEF CreateClass, UpdateClass, ClassRow, EnrollmentInv, EnrollmentTypeOK
  <2>3. class' # None
    BY <2>2, EnrollmentRowAssumption
  <2> QED
    BY <1>4, <2>1, <2>2, <2>3
<1>6. CASE UNCHANGED enrollmentVars
  <2>1. UNCHANGED <<session, edition, enrollment, disturbed, class>>
    BY <1>6 DEF enrollmentVars, enrollmentRows
  <2>2. class' \in ClassRow \cup {None}
    BY <2>1 DEF EnrollmentInv, EnrollmentTypeOK
  <2> QED
    BY <1>4, <2>1, <2>2
<1>7. ASSUME NEW q \in Requests, EditNext(q) PROVE EnrollmentInv'
  <2>1. CASE \E v \in Editions :
               \/ \E clone \in BOOLEAN : CreateVersion(q, v, clone)
               \/ CreateNode(q, v)
               \/ \E n \in Labels : DeleteNode(q, v, n)
               \/ \E d \in Locks : CreateDependency(q, v, d)
               \/ Publish(q, v)
               \/ PromoteNodes(q, v)
               \/ \E relations \in SUBSET Locks : PromoteRelations(q, v, relations)
    <3>1. PICK v \in Editions :
               \/ \E clone \in BOOLEAN : CreateVersion(q, v, clone)
               \/ CreateNode(q, v)
               \/ \E n \in Labels : DeleteNode(q, v, n)
               \/ \E d \in Locks : CreateDependency(q, v, d)
               \/ Publish(q, v)
               \/ PromoteNodes(q, v)
               \/ \E relations \in SUBSET Locks : PromoteRelations(q, v, relations)
      BY <2>1
    <3> QED
      BY <3>1, EditReads
  <2> QED
    BY <1>7, <2>1, VersionCreated, NodeDeleted, NodesInserted, LocksInserted, VersionPublished
       DEF EditNext
<1> QED
  BY <1>1, <1>2, <1>3, <1>5, <1>6, <1>7, NodesAreRead, EnrollCommits, DependencyDeleted
     DEF EnrollmentNext

\* An enrollment in a version that was published when it was pinned has a row for
\* each of its nodes and for no other, and one to start with, between the reads of the
\* request and after, as long as no two edits met on the version and no promotion reached
\* it after publication or closed a cycle in it (enrollment/service.py:283-295).
THEOREM PinStaysWhole == EnrollmentSpec => []PinIsWhole
<1>1. EnrollmentInv => PinIsWhole
  BY DEF EnrollmentInv, EnrollmentOK, PinIsWhole
<1> QED
  BY EnrollmentStarts, EnrollmentSteps, <1>1, PTL DEF EnrollmentSpec, enrollmentVars

-----------------------------------------------------------------------------
(* The next node                                                           *)

adaptiveVars == <<session, adaptiveRows>>

Answer == [node : Nodes \cup {None}, source : {"engine", "teacher_override"},
           complete : BOOLEAN]

\* An answer, given or about to be given, that can be followed.
AnswerOK(a) ==
    /\ a \in Answer
    /\ a.source = "teacher_override" => override # None
    /\ a.node # None /\ a.source = "engine" => row[a.node].state # "locked"
    /\ a.complete /\ ~met => AllDone

\* What a request is going to write.
AdaptiveShape(r) ==
    \/ r.key = "next" /\ AnswerOK(r.answer)
    \/ r.key = "override" /\ r.node \in Nodes /\ r.at \in 1 .. MaxOverrides

AdaptiveRequests == \A q \in Requests : req[q] # None => AdaptiveShape(req[q])

States == [n \in Nodes |-> row[n].state]

\* Whatever can be unlocked has been.
NoneWaits == P!Unlockable(States) = {}

\* A completion that is alone knows what it leaves in its row, and what to unlock.
UpToDate(q) ==
    /\ \A o \in Requests \ {q} : completing[o] = P!Idle
    /\ completing[q].phase = "loaded" => completing[q].mine = row[completing[q].node].state
    /\ completing[q].phase # "loaded" =>
          completing[q].mine \in Completed /\ completing[q].put = completing[q].mine
    /\ completing[q].phase = "scanned" => completing[q].unlock = P!Unlockable(P!View(q))

\* A completion of a node that is not locked, and does not lock it.
CompletionOK(q) ==
    completing[q] # P!Idle =>
        /\ row[completing[q].node].state # "locked"
        /\ completing[q].put # "locked"
        /\ ~met => UpToDate(q)

CompletionsOK == \A q \in Requests : CompletionOK(q)

AdaptiveInv ==
    /\ SessionOK
    /\ AdaptiveTypeOK
    /\ AdaptiveRequests
    /\ told # None => AnswerOK(told)
    /\ CompletionsOK
    /\ ~met => NoneWaits

\* In every set of nodes there is one that waits for no other of the set: the
\* graph of a version without a cycle.
Grounded ==
    \A S \in SUBSET Nodes : S # {} =>
        \E x \in S : \A y \in S : <<y, x>> \notin Requires \cup Gates

-----------------------------------------------------------------------------
\* Among nodes there is one the engine would name.
LEMMA FirstIsOne ==
  ASSUME NEW S \in SUBSET Nodes, S # {}
  PROVE  First(S) \in S
<1> DEFINE T == {Place[n] : n \in S}
<1>1. T \in SUBSET Nat /\ T # {}
  BY AdaptiveAssumption
<1>2. PICK k \in T : \A m \in T : k <= m
  <2> HIDE DEF T
  <2> QED
    BY <1>1, Least
<1>3. PICK n \in S : k = Place[n]
  OBVIOUS
<1>4. \A m \in S : Place[n] <= Place[m]
  BY <1>2, <1>3
<1> QED
  BY <1>4 DEF First

\* What the engine answers can be followed when it is computed.
LEMMA NextNodeOK ==
  ASSUME AdaptiveInv, NEW a, a = compute_next_node
  PROVE  AnswerOK(a)
<1>1. Available \in SUBSET Nodes /\ \A n \in Available : row[n].state # "locked"
  BY DEF Available
<1>2. CASE active_override
  <2>1. a = [node |-> override.node, source |-> "teacher_override", complete |-> FALSE]
    BY <1>2 DEF compute_next_node
  <2>2. override # None /\ override.node \in Nodes
    BY <1>2 DEF active_override, AdaptiveInv, AdaptiveTypeOK
  <2> QED
    BY <2>1, <2>2 DEF AnswerOK, Answer
<1>3. CASE ~active_override /\ Available = {}
  <2>1. AllDone \in BOOLEAN
    BY DEF AllDone
  <2>2. a = [node |-> None, source |-> "engine", complete |-> AllDone]
    BY <1>3 DEF compute_next_node, Advice
  <2> QED
    BY <2>1, <2>2 DEF AnswerOK, Answer
<1>4. CASE ~active_override /\ Available # {}
  <2>1. PICK n \in Available : a = Advice(n)
    <3>1. CASE has_weak_attempt /\ Available \cap Remedial # {}
      <4>1. First(Available \cap Remedial) \in Available
        BY <1>1, <3>1, FirstIsOne
      <4> QED
        BY <1>4, <3>1, <4>1 DEF compute_next_node
    <3>2. CASE ~(has_weak_attempt /\ Available \cap Remedial # {})
      <4>1. First(Available) \in Available
        BY <1>1, <1>4, FirstIsOne
      <4> QED
        BY <1>4, <3>2, <4>1 DEF compute_next_node
    <3> QED
      BY <3>1, <3>2
  <2>2. a = [node |-> n, source |-> "engine", complete |-> FALSE]
    BY <2>1 DEF Advice
  <2> QED
    BY <1>1, <2>2 DEF AnswerOK, Answer
<1> QED
  BY <1>2, <1>3, <1>4

\* At the start every node with a prerequisite is locked, and none can be unlocked.
LEMMA AdaptiveStarts == AdaptiveInit => AdaptiveInv
<1> SUFFICES ASSUME AdaptiveInit PROVE AdaptiveInv
  OBVIOUS
<1>1. /\ row = [n \in Nodes |-> [state |-> IF P!HasPrereqs(n) THEN "locked" ELSE "available",
                                 done |-> FALSE]]
      /\ record = [n \in Nodes |-> NoRecord]
      /\ completing = [q \in Requests |-> P!Idle] /\ proven = {}
      /\ SessionInit /\ met = FALSE /\ override = None /\ asked = 0 /\ told = None
  BY DEF AdaptiveInit, P!Init
<1>2. States = [n \in Nodes |-> IF P!HasPrereqs(n) THEN "locked" ELSE "available"]
  BY <1>1 DEF States
<1>3. NoneWaits
  <2> SUFFICES ASSUME NEW n \in Nodes, States[n] = "locked", P!PrereqsMet(n, States) PROVE FALSE
    BY DEF NoneWaits, P!Unlockable
  <2>1. P!HasPrereqs(n)
    BY <1>2
  <2>2. PICK p \in Nodes : <<p, n>> \in Requires \cup Gates
    BY <2>1 DEF P!HasPrereqs
  <2>3. States[p] \in {"locked", "available"}
    BY <1>2
  <2> QED
    BY <2>2, <2>3 DEF P!PrereqsMet, P!CompletedStates
<1>4. P!TypeOK
  <2>1. row \in [Nodes -> P!Row]
    BY <1>1 DEF P!Row, P!NodeStates
  <2> QED
    BY <1>1, <2>1 DEF P!TypeOK
<1>5. AdaptiveTypeOK
  <2>1. met \in BOOLEAN /\ override = None /\ told = None
    BY <1>1
  <2>2. asked \in 0 .. MaxOverrides
    BY <1>1, AdaptiveAssumption
  <2> QED
    BY <1>4, <2>1, <2>2 DEF AdaptiveTypeOK
<1>6. CompletionsOK
  BY <1>1 DEF CompletionsOK, CompletionOK
<1> QED
  BY <1>1, <1>3, <1>5, <1>6, SessionStarts DEF SessionInit, AdaptiveInv, AdaptiveRequests

\* A request begins.
LEMMA AdaptiveBegins ==
  ASSUME AdaptiveInv, NEW q \in Requests, NEW r, Begin(q, r),
         UNCHANGED <<row, record, completing, proven, met, override, told>>,
         asked' \in 0 .. MaxOverrides, AdaptiveShape(r)
  PROVE  AdaptiveInv'
<1>1. /\ SessionOK'
      /\ req'[q] = r
      /\ \A o \in Requests \ {q} : req'[o] = req[o]
  BY BeginKeepsAlone DEF AdaptiveInv
<1>2. AdaptiveRequests'
  <2> SUFFICES ASSUME NEW o \in Requests, req'[o] # None
               PROVE  AdaptiveShape(req[o])'
    BY DEF AdaptiveRequests
  <2>1. PICK s : s = req'[o] /\ AdaptiveShape(s)
    BY <1>1 DEF AdaptiveInv, AdaptiveRequests
  <2> QED
    BY <2>1 DEF AdaptiveShape, AnswerOK, AllDone
<1>3. AdaptiveTypeOK'
  BY DEF AdaptiveInv, AdaptiveTypeOK, P!TypeOK
<1>4. NoneWaits' = NoneWaits
  BY DEF NoneWaits, States
<1>5. CompletionsOK'
  BY DEF AdaptiveInv, CompletionsOK, CompletionOK, UpToDate, P!View
<1>6. (told # None => AnswerOK(told))'
  BY DEF AdaptiveInv, AnswerOK, AllDone
<1> QED
  BY <1>1, <1>2, <1>3, <1>4, <1>5, <1>6 DEF AdaptiveInv

\* A request ends, with an override there if there was one.
LEMMA AdaptiveEnds ==
  ASSUME AdaptiveInv, NEW q \in Requests, End(q),
         UNCHANGED <<row, record, completing, proven, met>>,
         override # None => override' # None
  PROVE  /\ SessionOK' /\ AdaptiveRequests' /\ (~met => NoneWaits)' /\ CompletionsOK' /\ P!TypeOK'
         /\ req[q] # None /\ AdaptiveShape(req[q])
         /\ \A a : AnswerOK(a) => AnswerOK(a)'
<1>1. /\ SessionOK'
      /\ req'[q] = None /\ req[q] # None
      /\ \A o \in Requests \ {q} : req'[o] = req[o]
  BY EndKeepsAlone DEF AdaptiveInv
<1>2. ASSUME NEW a, AnswerOK(a) PROVE AnswerOK(a)'
  BY <1>2 DEF AnswerOK, AllDone
<1>3. AdaptiveRequests'
  <2> SUFFICES ASSUME NEW o \in Requests, req'[o] # None
               PROVE  AdaptiveShape(req[o])'
    BY DEF AdaptiveRequests
  <2>1. PICK s : s = req'[o] /\ AdaptiveShape(s)
    BY <1>1 DEF AdaptiveInv, AdaptiveRequests
  <2> QED
    BY <1>2, <2>1 DEF AdaptiveShape
<1>4. NoneWaits' = NoneWaits
  BY DEF NoneWaits, States
<1>5. CompletionsOK'
  BY DEF AdaptiveInv, CompletionsOK, CompletionOK, UpToDate, P!View
<1>6. P!TypeOK'
  BY DEF AdaptiveInv, AdaptiveTypeOK, P!TypeOK
<1> QED
  BY <1>1, <1>2, <1>3, <1>4, <1>5, <1>6 DEF AdaptiveInv, AdaptiveRequests

\* A completion reads on or is rolled back: no row changes.
LEMMA CompletionMoves ==
  ASSUME AdaptiveInv, NEW q \in Requests, NEW c \in P!Active \cup {P!Idle},
         completing' = [completing EXCEPT ![q] = c],
         UNCHANGED <<session, row, record, proven, override, asked, told>>,
         met' \in BOOLEAN, met => met',
         c # P!Idle /\ completing[q] = P!Idle =>
            met' \/ \A o \in Requests \ {q} : completing[o] = P!Idle,
         CompletionOK(q)'
  PROVE  AdaptiveInv'
<1>1. /\ completing \in [Requests -> {P!Idle} \cup P!Active]
      /\ row \in [Nodes -> P!Row] /\ record \in [Nodes -> P!Record \cup {NoRecord}]
      /\ proven \subseteq Nodes
  BY DEF AdaptiveInv, AdaptiveTypeOK, P!TypeOK
<1>2. /\ completing' \in [Requests -> {P!Idle} \cup P!Active]
      /\ completing'[q] = c
      /\ \A o \in Requests \ {q} : completing'[o] = completing[o]
  BY <1>1
<1>3. P!TypeOK'
  BY <1>1, <1>2 DEF P!TypeOK
<1>4. AdaptiveTypeOK'
  BY <1>3 DEF AdaptiveInv, AdaptiveTypeOK
<1>5. \A a : AnswerOK(a) => AnswerOK(a)'
  BY DEF AnswerOK, AllDone
<1>6. AdaptiveRequests'
  <2> SUFFICES ASSUME NEW o \in Requests, req'[o] # None
               PROVE  AdaptiveShape(req[o])'
    BY DEF AdaptiveRequests
  <2>1. PICK t : t = req'[o] /\ AdaptiveShape(t)
    BY DEF AdaptiveInv, AdaptiveRequests, session
  <2> QED
    BY <1>5, <2>1 DEF AdaptiveShape
<1>7. (told # None => AnswerOK(told))'
  BY <1>5 DEF AdaptiveInv
<1>8. CompletionsOK'
  <2> SUFFICES ASSUME NEW o \in Requests \ {q} PROVE CompletionOK(o)'
    BY DEF CompletionsOK
  <2>1. CompletionOK(o) /\ completing'[o] = completing[o]
    BY <1>2 DEF AdaptiveInv, CompletionsOK
  <2>2. ASSUME completing[o] # P!Idle, ~met' PROVE UpToDate(o)'
    <3>1. UpToDate(o) /\ completing[q] = P!Idle
      BY <2>1, <2>2 DEF CompletionOK, UpToDate
    <3>2. c = P!Idle
      BY <2>2, <3>1
    <3>3. \A x \in Requests \ {o} : completing'[x] = P!Idle
      BY <1>2, <3>1, <3>2 DEF UpToDate
    <3>4. P!View(o)' = P!View(o)
      BY <2>1 DEF P!View
    <3> QED
      BY <2>1, <3>1, <3>3, <3>4 DEF UpToDate
  <2> QED
    BY <2>1, <2>2 DEF CompletionOK
<1>9. NoneWaits' = NoneWaits
  BY DEF NoneWaits, States
<1>10. SessionOK'
  BY StillAlone DEF AdaptiveInv
<1> QED
  BY <1>4, <1>6, <1>7, <1>8, <1>9, <1>10 DEF AdaptiveInv

\* A completion begins: its node is not locked, and it meets the ones in flight.
LEMMA CompletionBegins ==
  ASSUME AdaptiveInv, NEW q \in Requests, NEW n \in Nodes, NEW s \in Scores \cup {NoScore},
         BeginComplete(q, n, s)
  PROVE  AdaptiveInv'
<1>1. PICK c : c = [phase |-> "loaded", node |-> n, score |-> s, mine |-> row[n].state,
                    put |-> "completed", rec |-> NoRecord, unlock |-> {}]
  OBVIOUS
<1>2. /\ completing[q].phase = "idle" /\ row[n].state # "locked"
      /\ completing' = [completing EXCEPT ![q] = c]
      /\ met' = (met \/ \E o \in Requests \ {q} : completing[o] # P!Idle)
      /\ UNCHANGED <<session, row, record, proven, override, asked, told>>
  BY <1>1 DEF BeginComplete, P!Load
<1>3. /\ completing \in [Requests -> {P!Idle} \cup P!Active]
      /\ row[n].state \in P!NodeStates /\ met \in BOOLEAN
  BY DEF AdaptiveInv, AdaptiveTypeOK, P!TypeOK, P!Row
<1>4. c \in P!Active
  BY <1>1, <1>3 DEF P!Active, P!NodeStates
<1>5. c.phase = "loaded" /\ c.node = n /\ c.mine = row[n].state /\ c.put = "completed"
  BY <1>1
<1>6. completing'[q] = c /\ \A o \in Requests \ {q} : completing'[o] = completing[o]
  BY <1>2, <1>3
<1>7. met' \in BOOLEAN /\ (met => met')
      /\ (met' \/ \A o \in Requests \ {q} : completing[o] = P!Idle)
  BY <1>2, <1>3
<1>8. CompletionOK(q)'
  BY <1>2, <1>5, <1>6, <1>7 DEF CompletionOK, UpToDate
<1> QED
  BY <1>2, <1>4, <1>7, <1>8, CompletionMoves

\* It updates its row: a row it loaded as completed keeps what another one made of it.
LEMMA CompletionWrites ==
  ASSUME AdaptiveInv, NEW q \in Requests, P!Write(q),
         UNCHANGED <<session, met, override, asked, told>>
  PROVE  AdaptiveInv'
<1>1. PICK r : r = completing[q]
  OBVIOUS
<1>2. PICK n, rec : n = r.node /\ rec = P!Upsert(n, r.score, record[n])
  OBVIOUS
<1>3. PICK won \in BOOLEAN : won = P!EvaluateMastery(n, r.score, rec)
  BY DEF P!EvaluateMastery
<1>4. PICK mine, put : /\ mine = IF won THEN "mastered" ELSE "completed"
                       /\ put = IF won THEN "mastered"
                                ELSE IF r.mine = "completed" THEN row[n].state ELSE "completed"
  OBVIOUS
<1>5. /\ completing \in [Requests -> {P!Idle} \cup P!Active]
      /\ row \in [Nodes -> P!Row] /\ record \in [Nodes -> P!Record \cup {NoRecord}]
      /\ met \in BOOLEAN
  BY DEF AdaptiveInv, AdaptiveTypeOK, P!TypeOK
<1>6. /\ r \in P!Active /\ r.phase = "loaded"
      /\ UNCHANGED <<row, record, proven>>
  BY <1>1, <1>5 DEF P!Write, P!Idle
<1>7. PICK c : c = [r EXCEPT !.phase = "written", !.rec = rec, !.mine = mine, !.put = put]
  OBVIOUS
<1>8. completing' = [completing EXCEPT ![q] = c]
  BY <1>1, <1>2, <1>3, <1>4, <1>5, <1>7 DEF P!Write
<1>9. n \in Nodes /\ row[n].state \in P!NodeStates /\ rec \in P!Record \cup {NoRecord}
  <2>1. n \in Nodes /\ r.score \in Scores \cup {NoScore}
    BY <1>2, <1>6 DEF P!Active
  <2> QED
    BY <1>2, <1>5, <2>1 DEF P!Row, P!Upsert, P!Graded, P!Record
<1>10. mine \in P!NodeStates /\ put \in P!NodeStates /\ mine \in Completed
  BY <1>4, <1>9 DEF P!NodeStates, Completed
<1>11. /\ c \in P!Active /\ c.phase = "written" /\ c.node = n /\ c.mine = mine /\ c.put = put
  BY <1>2, <1>6, <1>7, <1>9, <1>10 DEF P!Active
<1>12. completing'[q] = c /\ \A o \in Requests \ {q} : completing'[o] = completing[o]
  BY <1>5, <1>8
<1>13. r # P!Idle
  BY <1>6 DEF P!Idle
<1>14. CompletionOK(q)
  BY DEF AdaptiveInv, CompletionsOK
<1>15. CompletionOK(q)'
  <2>1. row[n].state # "locked" /\ put # "locked"
    BY <1>1, <1>2, <1>4, <1>13, <1>14 DEF CompletionOK
  <2>2. ASSUME ~met' PROVE UpToDate(q)'
    <3>1. UpToDate(q)
      BY <1>1, <1>13, <1>14, <2>2 DEF CompletionOK
    <3>2. put = mine
      BY <1>1, <1>2, <1>4, <1>6, <3>1 DEF UpToDate
    <3> QED
      BY <1>10, <1>11, <1>12, <3>1, <3>2 DEF UpToDate
  <2> QED
    BY <1>6, <1>11, <1>12, <2>1, <2>2 DEF CompletionOK
<1> QED
  BY <1>1, <1>5, <1>6, <1>8, <1>11, <1>13, <1>15, CompletionMoves

\* It reads all rows and decides which nodes to unlock.
LEMMA CompletionScans ==
  ASSUME AdaptiveInv, NEW q \in Requests, P!Scan(q),
         UNCHANGED <<session, met, override, asked, told>>
  PROVE  AdaptiveInv'
<1>1. PICK r : r = completing[q]
  OBVIOUS
<1>2. PICK unlock : unlock = P!Unlockable(P!View(q))
  OBVIOUS
<1>3. completing \in [Requests -> {P!Idle} \cup P!Active] /\ met \in BOOLEAN
  BY DEF AdaptiveInv, AdaptiveTypeOK, P!TypeOK
<1>4. /\ r \in P!Active /\ r.phase = "written"
      /\ UNCHANGED <<row, record, proven>>
  BY <1>1, <1>3 DEF P!Scan, P!Idle
<1>5. PICK c : c = [r EXCEPT !.phase = "scanned", !.unlock = unlock]
  OBVIOUS
<1>6. completing' = [completing EXCEPT ![q] = c]
  BY <1>1, <1>2, <1>3, <1>5 DEF P!Scan
<1>7. unlock \in SUBSET Nodes
  BY <1>2 DEF P!Unlockable
<1>8. /\ c \in P!Active /\ c.phase = "scanned" /\ c.node = r.node /\ c.mine = r.mine
      /\ c.put = r.put /\ c.unlock = unlock
  BY <1>4, <1>5, <1>7 DEF P!Active
<1>9. completing'[q] = c /\ \A o \in Requests \ {q} : completing'[o] = completing[o]
  BY <1>3, <1>6
<1>10. r # P!Idle
  BY <1>4 DEF P!Idle
<1>11. CompletionOK(q)
  BY DEF AdaptiveInv, CompletionsOK
<1>12. P!View(q)' = P!View(q)
  BY <1>1, <1>4, <1>8, <1>9 DEF P!View
<1>13. CompletionOK(q)'
  <2>1. ASSUME ~met' PROVE UpToDate(q)'
    <3>1. UpToDate(q)
      BY <1>1, <1>10, <1>11, <2>1 DEF CompletionOK
    <3> QED
      BY <1>1, <1>2, <1>4, <1>8, <1>9, <1>12, <3>1 DEF UpToDate
  <2> QED
    BY <1>1, <1>4, <1>8, <1>9, <1>10, <1>11, <2>1 DEF CompletionOK
<1> QED
  BY <1>1, <1>3, <1>4, <1>6, <1>8, <1>10, <1>13, CompletionMoves

\* It commits.  No row is locked again; of a completion that is alone, no node is
\* taken back either, and what can be unlocked is.
LEMMA CompletionCommits ==
  ASSUME AdaptiveInv, NEW q \in Requests, P!Commit(q),
         UNCHANGED <<session, met, override, asked, told>>
  PROVE  AdaptiveInv'
<1>1. PICK r : r = completing[q]
  OBVIOUS
<1>2. PICK n : n = r.node
  OBVIOUS
<1>3. /\ completing \in [Requests -> {P!Idle} \cup P!Active]
      /\ row \in [Nodes -> P!Row] /\ record \in [Nodes -> P!Record \cup {NoRecord}]
      /\ proven \subseteq Nodes /\ met \in BOOLEAN
  BY DEF AdaptiveInv, AdaptiveTypeOK, P!TypeOK
<1>4. /\ r \in P!Active /\ r.phase = "scanned" /\ r # P!Idle
  BY <1>1, <1>3 DEF P!Commit, P!Idle
<1>5. /\ row' = [m \in Nodes |->
                   IF m = n THEN [state |-> r.put, done |-> TRUE]
                   ELSE IF m \in r.unlock THEN [row[m] EXCEPT !.state = "available"]
                   ELSE row[m]]
      /\ record' = [record EXCEPT ![n] = r.rec]
      /\ proven' = IF r.put = "mastered" THEN proven \cup {n} ELSE proven
      /\ completing' = [completing EXCEPT ![q] = P!Idle]
  BY <1>1, <1>2 DEF P!Commit
<1>6. /\ n \in Nodes /\ r.put \in P!NodeStates /\ r.rec \in P!Record \cup {NoRecord}
      /\ r.unlock \in SUBSET Nodes
  BY <1>2, <1>4 DEF P!Active
<1>7. /\ row' \in [Nodes -> P!Row]
      /\ row'[n].state = r.put
      /\ \A m \in Nodes \ {n} :
            row'[m].state = IF m \in r.unlock THEN "available" ELSE row[m].state
  <2>1. ASSUME NEW m \in Nodes
        PROVE  /\ row'[m] \in P!Row
               /\ m = n => row'[m].state = r.put
               /\ m # n => row'[m].state = IF m \in r.unlock THEN "available" ELSE row[m].state
    <3>1. row[m] \in P!Row
      BY <1>3
    <3>2. PICK e : e = row[m]
      OBVIOUS
    <3>3. [e EXCEPT !.state = "available"] = [state |-> "available", done |-> e.done]
      BY <3>1, <3>2 DEF P!Row
    <3> QED
      BY <1>5, <1>6, <3>1, <3>2, <3>3 DEF P!Row, P!NodeStates
  <2> QED
    BY <1>5, <1>6, <2>1
<1>8. /\ completing' \in [Requests -> {P!Idle} \cup P!Active] /\ completing'[q] = P!Idle
      /\ \A o \in Requests \ {q} : completing'[o] = completing[o]
  BY <1>3, <1>5
<1>9. P!TypeOK'
  <2>1. record' \in [Nodes -> P!Record \cup {NoRecord}] /\ proven' \subseteq Nodes
    BY <1>3, <1>5, <1>6
  <2> QED
    BY <1>7, <1>8, <2>1 DEF P!TypeOK
<1>10. AdaptiveTypeOK'
  BY <1>9 DEF AdaptiveInv, AdaptiveTypeOK
<1>11. CompletionOK(q)
  BY DEF AdaptiveInv, CompletionsOK
<1>12. \A m \in Nodes : row[m].state # "locked" => row'[m].state # "locked"
  <2>1. r.put # "locked"
    BY <1>1, <1>4, <1>11 DEF CompletionOK
  <2> QED
    BY <1>7, <2>1
<1>13. ASSUME ~met PROVE NoneWaits' /\ (AllDone => AllDone')
  <2>1. UpToDate(q)
    BY <1>1, <1>4, <1>11, <1>13 DEF CompletionOK
  <2>2. PICK view : view = P!View(q)
    OBVIOUS
  <2>3. view = [m \in Nodes |-> IF m = n THEN r.mine ELSE row[m].state]
    BY <1>1, <1>2, <2>2 DEF P!View
  <2>4. r.put = r.mine /\ r.mine \in Completed /\ r.unlock = P!Unlockable(view)
    BY <1>1, <1>4, <2>1, <2>2 DEF UpToDate
  <2>5. \A m \in Nodes : States'[m] = IF m \in r.unlock THEN "available" ELSE view[m]
    <3>1. view[n] # "locked"
      BY <1>6, <2>3, <2>4 DEF Completed
    <3>2. n \notin r.unlock
      BY <2>4, <3>1 DEF P!Unlockable
    <3> QED
      BY <1>6, <1>7, <2>3, <2>4, <3>2 DEF States
  <2>6. \A m \in r.unlock : view[m] = "locked"
    BY <2>4 DEF P!Unlockable
  <2>7. NoneWaits'
    <3> SUFFICES ASSUME NEW m \in Nodes, States'[m] = "locked", P!PrereqsMet(m, States')
                 PROVE  FALSE
      BY DEF NoneWaits, P!Unlockable
    <3>1. view[m] = "locked" /\ m \notin r.unlock
      BY <2>5
    <3>2. \A p \in Nodes : States'[p] \in Completed => view[p] = States'[p]
      BY <2>5 DEF Completed
    <3>3. P!PrereqsMet(m, view)
      BY <3>2 DEF P!PrereqsMet, P!CompletedStates, Completed
    <3> QED
      BY <2>4, <3>1, <3>3 DEF P!Unlockable
  <2>8. ASSUME AllDone PROVE AllDone'
    <3>1. \A m \in Nodes : view[m] \in Completed
      BY <2>3, <2>4, <2>8 DEF AllDone
    <3>2. \A m \in Nodes : States'[m] \in Completed
      BY <2>5, <2>6, <3>1 DEF Completed
    <3> QED
      BY <3>2 DEF AllDone, States
  <2> QED
    BY <2>7, <2>8
<1>14. ASSUME NEW a, AnswerOK(a) PROVE AnswerOK(a)'
  BY <1>12, <1>13, <1>14 DEF AnswerOK, Answer
<1>15. AdaptiveRequests'
  <2> SUFFICES ASSUME NEW o \in Requests, req'[o] # None
               PROVE  AdaptiveShape(req[o])'
    BY DEF AdaptiveRequests
  <2>1. PICK t : t = req'[o] /\ AdaptiveShape(t)
    BY DEF AdaptiveInv, AdaptiveRequests, session
  <2> QED
    BY <1>14, <2>1 DEF AdaptiveShape
<1>16. (told # None => AnswerOK(told))'
  BY <1>14 DEF AdaptiveInv
<1>17. CompletionsOK'
  <2> SUFFICES ASSUME NEW o \in Requests, completing'[o] # P!Idle PROVE CompletionOK(o)'
    BY DEF CompletionsOK, CompletionOK
  <2>1. o # q /\ completing'[o] = completing[o] /\ CompletionOK(o)
    BY <1>8 DEF AdaptiveInv, CompletionsOK
  <2>2. met
    BY <1>1, <1>4, <2>1 DEF CompletionOK, UpToDate
  <2>3. completing[o] \in P!Active
    BY <1>3, <2>1
  <2>4. completing[o].node \in Nodes
    BY <2>3 DEF P!Active
  <2> QED
    BY <1>12, <2>1, <2>2, <2>4 DEF CompletionOK
<1>18. SessionOK'
  BY StillAlone DEF AdaptiveInv
<1> QED
  BY <1>10, <1>13, <1>15, <1>16, <1>17, <1>18 DEF AdaptiveInv

\* Every step of every request keeps the invariant.
LEMMA AdaptiveSteps == AdaptiveInv /\ [AdaptiveNext]_adaptiveVars => AdaptiveInv'
<1> SUFFICES ASSUME AdaptiveInv, [AdaptiveNext]_adaptiveVars PROVE AdaptiveInv'
  OBVIOUS
<1>0. asked \in 0 .. MaxOverrides /\ MaxOverrides \in Nat
  BY AdaptiveAssumption DEF AdaptiveInv, AdaptiveTypeOK
<1>1. ASSUME NEW q \in Requests, NextNode(q) PROVE AdaptiveInv'
  <2>1. PICK a : a = compute_next_node
    OBVIOUS
  <2>2. PICK r : r = [key |-> "next", answer |-> a]
    OBVIOUS
  <2>3. Begin(q, r) /\ UNCHANGED <<row, record, completing, proven, met, override, asked, told>>
    BY <1>1, <2>1, <2>2 DEF NextNode, adaptiveRows, progressRows
  <2>4. AdaptiveShape(r)
    BY <2>1, <2>2, NextNodeOK DEF AdaptiveShape
  <2> QED
    BY <1>0, <2>3, <2>4, AdaptiveBegins
<1>2. ASSUME NEW q \in Requests, CommitNextNode(q) PROVE AdaptiveInv'
  <2>1. PICK r : r = req[q]
    OBVIOUS
  <2>2. /\ End(q) /\ r.key = "next" /\ told' = r.answer
        /\ UNCHANGED <<row, record, completing, proven, met, override, asked>>
    BY <1>2, <2>1 DEF CommitNextNode, progressRows
  <2>3. /\ SessionOK' /\ AdaptiveRequests' /\ (~met => NoneWaits)' /\ CompletionsOK' /\ P!TypeOK'
        /\ AdaptiveShape(r)
        /\ \A a : AnswerOK(a) => AnswerOK(a)'
    BY <2>1, <2>2, AdaptiveEnds
  <2>4. AnswerOK(r.answer)
    BY <2>2, <2>3 DEF AdaptiveShape
  <2>5. AnswerOK(told)'
    BY <2>2, <2>4 DEF AnswerOK, AllDone
  <2>6. AdaptiveTypeOK'
    BY <2>2, <2>3, <2>4 DEF AdaptiveInv, AdaptiveTypeOK, AnswerOK, Answer
  <2> QED
    BY <2>3, <2>5, <2>6 DEF AdaptiveInv
<1>3. ASSUME NEW q \in Requests, NEW n \in Nodes, CreateOverride(q, n) PROVE AdaptiveInv'
  <2>1. PICK r : r = [key |-> "override", node |-> n, at |-> asked']
    OBVIOUS
  <2>2. /\ asked < MaxOverrides /\ asked' = asked + 1
        /\ Begin(q, r) /\ UNCHANGED <<row, record, completing, proven, met, override, told>>
    BY <1>3, <2>1 DEF CreateOverride, progressRows
  <2>3. asked' \in 1 .. MaxOverrides
    BY <1>0, <2>2
  <2>4. AdaptiveShape(r)
    BY <2>1, <2>3 DEF AdaptiveShape
  <2>5. asked' \in 0 .. MaxOverrides
    BY <2>3
  <2> QED
    BY <2>2, <2>4, <2>5, AdaptiveBegins
<1>4. ASSUME NEW q \in Requests, CommitOverride(q) PROVE AdaptiveInv'
  <2>1. PICK r : r = req[q]
    OBVIOUS
  <2>2. /\ End(q) /\ r.key = "override"
        /\ override' = IF override # None /\ override.at > r.at THEN override
                       ELSE [node |-> r.node, at |-> r.at]
        /\ UNCHANGED <<row, record, completing, proven, met, asked, told>>
    BY <1>4, <2>1 DEF CommitOverride, progressRows
  <2>3. r.node \in Nodes /\ r.at \in 1 .. MaxOverrides
    BY <2>1, <2>2, EndKeepsAlone DEF AdaptiveInv, AdaptiveRequests, AdaptiveShape
  <2>4. override' \in [node : Nodes, at : 1 .. MaxOverrides]
    BY <2>2, <2>3 DEF AdaptiveInv, AdaptiveTypeOK
  <2>5. override' # None
    BY <2>4, AdaptiveAssumption
  <2>6. /\ SessionOK' /\ AdaptiveRequests' /\ (~met => NoneWaits)' /\ CompletionsOK' /\ P!TypeOK'
        /\ \A a : AnswerOK(a) => AnswerOK(a)'
    BY <2>2, <2>5, AdaptiveEnds
  <2>7. AdaptiveTypeOK'
    BY <2>2, <2>4, <2>5, <2>6 DEF AdaptiveInv, AdaptiveTypeOK
  <2>8. (told # None => AnswerOK(told))'
    BY <2>2, <2>5 DEF AdaptiveInv, AnswerOK, AllDone
  <2> QED
    BY <2>6, <2>7, <2>8 DEF AdaptiveInv
<1>5. ASSUME NEW q \in Requests, AbortAdaptive(q) PROVE AdaptiveInv'
  <2>1. End(q) /\ UNCHANGED <<row, record, completing, proven, met, override, asked, told>>
    BY <1>5 DEF AbortAdaptive, adaptiveRows, progressRows
  <2>2. SessionOK' /\ AdaptiveRequests' /\ (~met => NoneWaits)' /\ CompletionsOK' /\ P!TypeOK'
    BY <2>1, AdaptiveEnds
  <2>3. AdaptiveTypeOK' /\ (told # None => AnswerOK(told))'
    BY <2>1, <2>2 DEF AdaptiveInv, AdaptiveTypeOK, AnswerOK, AllDone
  <2> QED
    BY <2>2, <2>3 DEF AdaptiveInv
<1>6. ASSUME NEW q \in Requests, CompleteNode(q) PROVE AdaptiveInv'
  <2>1. UNCHANGED <<session, met, override, asked, told>>
    BY <1>6 DEF CompleteNode
  <2>2. CASE P!Abort(q)
    <3>1. /\ completing' = [completing EXCEPT ![q] = P!Idle]
          /\ UNCHANGED <<row, record, proven>>
      BY <2>2 DEF P!Abort
    <3>2. completing'[q] = P!Idle /\ met \in BOOLEAN
      BY <3>1 DEF AdaptiveInv, AdaptiveTypeOK, P!TypeOK
    <3>3. CompletionOK(q)'
      BY <3>2 DEF CompletionOK
    <3> QED
      BY <2>1, <3>1, <3>2, <3>3, CompletionMoves
  <2> QED
    BY <1>6, <2>1, <2>2, CompletionWrites, CompletionScans, CompletionCommits
       DEF CompleteNode, P!Serve
<1>7. CASE UNCHANGED adaptiveVars
  <2>1. UNCHANGED <<session, req, row, record, completing, proven, met, override, asked, told>>
    BY <1>7 DEF adaptiveVars, session, adaptiveRows, progressRows
  <2>2. SessionOK'
    BY <2>1, StillAlone DEF AdaptiveInv
  <2>3. AdaptiveRequests'
    <3> SUFFICES ASSUME NEW o \in Requests, req'[o] # None
                 PROVE  AdaptiveShape(req[o])'
      BY DEF AdaptiveRequests
    <3>1. PICK s : s = req'[o] /\ AdaptiveShape(s)
      BY <2>1 DEF AdaptiveInv, AdaptiveRequests
    <3> QED
      BY <2>1, <3>1 DEF AdaptiveShape, AnswerOK, AllDone
  <2>4. AdaptiveTypeOK' /\ (told # None => AnswerOK(told))'
    BY <2>1 DEF AdaptiveInv, AdaptiveTypeOK, P!TypeOK, AnswerOK, AllDone
  <2>5. NoneWaits' = NoneWaits /\ CompletionsOK'
    BY <2>1 DEF AdaptiveInv, NoneWaits, States, CompletionsOK, CompletionOK, UpToDate, P!View
  <2> QED
    BY <2>1, <2>2, <2>3, <2>4, <2>5 DEF AdaptiveInv
<1> QED
  BY <1>1, <1>2, <1>3, <1>4, <1>5, <1>6, <1>7, CompletionBegins DEF AdaptiveNext

\* In a version without a cycle, when nothing is left to recommend and the course
\* is not complete, a gate waits for mastery of a completed node.
LEMMA GateWaits ==
  ASSUME Grounded, AdaptiveInv, ~met, Available = {}, ~AllDone
  PROVE  \E g \in Gates : row[g[1]].state = "completed" /\ row[g[2]].state = "locked"
<1> DEFINE L == {n \in Nodes : States[n] = "locked"}
<1>0. \A n \in Nodes : States[n] = row[n].state
  BY DEF States
<1>1. \A n \in Nodes : States[n] \in {"locked", "completed", "mastered"}
  BY <1>0 DEF AdaptiveInv, AdaptiveTypeOK, P!TypeOK, P!Row, P!NodeStates, Available
<1>2. L # {} /\ L \in SUBSET Nodes
  BY <1>0, <1>1 DEF AllDone, Completed
<1>3. PICK x \in L : \A y \in L : <<y, x>> \notin Requires \cup Gates
  <2> HIDE DEF L
  <2> QED
    BY <1>2 DEF Grounded
<1>4. x \in Nodes /\ States[x] = "locked" /\ ~P!PrereqsMet(x, States)
  BY DEF AdaptiveInv, NoneWaits, P!Unlockable
<1>5. PICK p \in Nodes : \/ <<p, x>> \in Gates /\ States[p] # "mastered"
                         \/ <<p, x>> \in Requires /\ States[p] \notin Completed
  BY <1>4 DEF P!PrereqsMet, P!CompletedStates, Completed
<1>6. States[p] # "locked"
  BY <1>3, <1>5
<1>7. <<p, x>> \in Gates /\ States[p] = "completed"
  BY <1>1, <1>5, <1>6 DEF Completed
<1> QED
  BY <1>0, <1>4, <1>7

\* However requests complete nodes together, the engine's advice is never a locked
\* node.  As long as no two completions met, in a version without a cycle, a course is
\* said to be complete only if it is and stays so, and an unfinished course with nothing
\* to recommend waits for a mastery (adaptive/service.py: compute_next_node).
THEOREM AdviceIsSound ==
  ASSUME Grounded
  PROVE  AdaptiveSpec => []AdviceLeadsOn
<1>1. AdaptiveInv => AdviceLeadsOn
  BY GateWaits DEF AdaptiveInv, AnswerOK, AdviceLeadsOn
<1> QED
  BY AdaptiveStarts, AdaptiveSteps, <1>1, PTL DEF AdaptiveSpec, adaptiveVars

-----------------------------------------------------------------------------
(* Accounts                                                                *)

accountVars == <<session, accountRows>>

\* What a request is about, and for a role what it will insert or delete.
AccountShape(r) ==
    \/ /\ r.op = "create" /\ r.key = "status" /\ r.set \in Account
    \/ /\ r.op = "status" /\ r.key = "status" /\ r.set \in {"active", "suspended"}
       /\ account # None
    \/ /\ r.op \in {"assign", "unassign"} /\ r.key \in Roles /\ r.loaded \subseteq Roles
       /\ r.set = IF r.op = "assign" THEN r.loaded \cup {r.key} ELSE r.loaded \ {r.key}
       /\ account # None
    \/ /\ r = [key |-> r.key, op |-> "auth", roles |-> r.roles, moved |-> r.moved]
       /\ r.moved \in BOOLEAN
       /\ r.roles # None => r.roles \subseteq Roles
       /\ account # None

\* On a status or a role that was never crossed a request has read what is there;
\* a principal being read has the roles of the account, or was moved.
AccountFresh(r) ==
    /\ r.op = "status" /\ "status" \notin crossed => r.loaded = account.status
    /\ r.op \in {"assign", "unassign"} /\ r.key \notin crossed =>
          (r.key \in r.loaded <=> r.key \in account.roles)
    /\ r.op = "auth" /\ r.roles # None /\ ~r.moved => r.roles = account.roles

AccountRequests ==
    \A q \in Requests : req[q] # None => AccountShape(req[q]) /\ AccountFresh(req[q])

AccountsInv ==
    /\ SessionOK
    /\ AccountsTypeOK
    /\ AccountRequests
    /\ AccessIsAsGranted

-----------------------------------------------------------------------------
\* Nobody has an account at the start.
LEMMA AccountsStarts == AccountsInit => AccountsInv
  BY SessionStarts DEF AccountsInit, SessionInit, AccountsInv, AccountsTypeOK,
     AccountRequests, AccessIsAsGranted

\* A request that has read the account begins.
LEMMA AccountsBegins ==
  ASSUME AccountsInv, NEW q \in Requests, NEW r, Begin(q, r), UNCHANGED accountRows,
         AccountShape(r), AccountFresh(r)
  PROVE  AccountsInv'
<1>1. /\ SessionOK'
      /\ crossed \subseteq crossed'
      /\ req'[q] = r
      /\ \A o \in Requests \ {q} : req'[o] = req[o]
  BY BeginKeepsAlone DEF AccountsInv
<1>2. UNCHANGED <<account, principal, decided>>
  BY DEF accountRows
<1>3. AccountRequests'
  <2> SUFFICES ASSUME NEW o \in Requests, req'[o] # None
               PROVE  AccountShape(req[o])' /\ AccountFresh(req[o])'
    BY DEF AccountRequests
  <2>1. PICK s : s = req'[o] /\ AccountShape(s) /\ AccountFresh(s)
    BY <1>1 DEF AccountsInv, AccountRequests
  <2> QED
    BY <1>1, <1>2, <2>1 DEF AccountShape, AccountFresh
<1>4. AccountsTypeOK' /\ AccessIsAsGranted'
  BY <1>1, <1>2 DEF AccountsInv, AccountsTypeOK, AccessIsAsGranted
<1> QED
  BY <1>1, <1>3, <1>4 DEF AccountsInv

\* A commit, which moves the account under the principals being read.
LEMMA AccountsCommits ==
  ASSUME AccountsInv, NEW q \in Requests, CommitAccount(q)
  PROVE  AccountsInv'
<1>1. PICK r : r = req[q]
  OBVIOUS
<1>2. AccountShape(r) /\ AccountFresh(r) /\ r.op # "auth" /\ req[q] # None
  BY <1>1 DEF CommitAccount, AccountsInv, AccountRequests
<1>3. /\ crossed' = crossed /\ principal' = principal
      /\ req'[q] = None
      /\ \A o \in Requests \ {q} :
            req'[o] = IF req[o] # None /\ req[o].op = "auth"
                      THEN [req[o] EXCEPT !.moved = TRUE] ELSE req[o]
      /\ req' = [o \in Requests |-> req'[o]]
  BY DEF CommitAccount, Moved, AccountsInv, SessionOK
<1>4. SessionOK'
  <2>1. ASSUME NEW o \in Requests \ {q}
        PROVE  req'[o].key = req[o].key /\ (req'[o] # None => req[o] # None)
    <3>1. CASE req[o] # None /\ req[o].op = "auth"
      <4>1. req[o] = [key |-> req[o].key, op |-> "auth", roles |-> req[o].roles,
                      moved |-> req[o].moved]
        BY <3>1 DEF AccountsInv, AccountRequests, AccountShape
      <4> QED
        BY <1>3, <3>1, <4>1
    <3>2. CASE ~(req[o] # None /\ req[o].op = "auth")
      BY <1>3, <3>2
    <3> QED
      BY <3>1, <3>2
  <2> QED
    BY <1>3, <2>1 DEF AccountsInv, SessionOK, Alone
<1>5. account \in Account \cup {None} /\ (account = None <=> decided = None)
      /\ decided \in Account \cup {None}
  BY DEF AccountsInv, AccountsTypeOK
<1>6. CASE r.op = "create"
  <2>1. account = None /\ account' = r.set /\ decided' = r.set /\ r.set \in Account
    BY <1>1, <1>2, <1>6 DEF CommitAccount, AccountShape
  <2>2. \A o \in Requests : req'[o] # None =>
            /\ req'[o].op = "create"
            /\ req'[o].key = "status"
            /\ req'[o].set \in Account
    BY <1>3, <2>1 DEF AccountsInv, AccountRequests, AccountShape
  <2>3. AccountRequests'
    <3> SUFFICES ASSUME NEW o \in Requests, req'[o] # None
                 PROVE  AccountShape(req[o])' /\ AccountFresh(req[o])'
      BY DEF AccountRequests
    <3> QED
      BY <2>2 DEF AccountShape, AccountFresh
  <2>4. AccountsTypeOK' /\ AccessIsAsGranted'
    BY <1>3, <2>1, AccountRowAssumption DEF AccountsInv, AccountsTypeOK, AccessIsAsGranted
  <2> QED
    BY <1>4, <2>3, <2>4 DEF AccountsInv
\* What else changes an account that is there.
<1>7. ASSUME account # None, account' \in Account, decided' \in Account,
             "status" \notin crossed => account'.status = decided'.status,
             account'.roles \ crossed = decided'.roles \ crossed,
             \A o \in Requests \ {q} : req[o] # None => AccountFresh(req[o])'
                                                        \/ req[o].op = "auth"
      PROVE  AccountsInv'
  <2>1. account' # None /\ decided' # None
    BY <1>7, AccountRowAssumption
  <2>2. AccountRequests'
    <3> SUFFICES ASSUME NEW o \in Requests, req'[o] # None
                 PROVE  AccountShape(req[o])' /\ AccountFresh(req[o])'
      BY DEF AccountRequests
    <3>1. o # q /\ req[o] # None /\ AccountShape(req[o])
      BY <1>3 DEF AccountsInv, AccountRequests
    <3>2. CASE req[o].op = "auth"
      <4>1. PICK s : s = req[o]
        OBVIOUS
      <4>2. s = [key |-> s.key, op |-> "auth", roles |-> s.roles, moved |-> s.moved]
        BY <3>1, <3>2, <4>1 DEF AccountShape
      <4>3. s.roles # None => s.roles \subseteq Roles
        BY <3>1, <3>2, <4>1 DEF AccountShape
      <4>4. PICK t : t = req'[o]
        OBVIOUS
      <4>5. t = [key |-> s.key, op |-> "auth", roles |-> s.roles, moved |-> TRUE]
        BY <1>3, <3>1, <3>2, <4>1, <4>2, <4>4
      <4> QED
        BY <2>1, <4>3, <4>4, <4>5 DEF AccountShape, AccountFresh
    <3>3. CASE req[o].op # "auth"
      <4>1. req'[o] = req[o]
        BY <1>3, <3>1, <3>3
      <4> QED
        BY <1>7, <2>1, <3>1, <3>3, <4>1 DEF AccountShape, AccountFresh
    <3> QED
      BY <3>2, <3>3
  <2>3. AccountsTypeOK' /\ AccessIsAsGranted'
    BY <1>3, <1>7, <2>1 DEF AccountsInv, AccountsTypeOK, AccessIsAsGranted
  <2> QED
    BY <1>4, <2>2, <2>3 DEF AccountsInv
\* Another request about the same status or role has crossed with this one.
<1>8. \A o \in Requests \ {q} : req[o] # None /\ req[o].key = r.key => r.key \in crossed
  BY <1>1, <1>2, OthersCrossed DEF AccountsInv
<1>9. CASE r.op = "status"
  <2>1. /\ account # None /\ r.set \in {"active", "suspended"} /\ r.key = "status"
        /\ "status" \notin crossed => r.loaded = account.status
    BY <1>2, <1>9 DEF AccountShape, AccountFresh
  <2>2. /\ account' = IF r.set = r.loaded THEN account ELSE [account EXCEPT !.status = r.set]
        /\ decided' = [decided EXCEPT !.status = r.set]
    BY <1>1, <1>9 DEF CommitAccount
  <2>3. /\ account' \in Account /\ account'.roles = account.roles
        /\ decided' \in Account /\ decided'.roles = decided.roles
        /\ "status" \notin crossed => account'.status = decided'.status
    BY <1>5, <2>1, <2>2 DEF Account
  <2>4. account'.roles \ crossed = decided'.roles \ crossed
    BY <2>1, <2>3 DEF AccountsInv, AccessIsAsGranted
  <2>5. ASSUME NEW o \in Requests \ {q}, req[o] # None, req[o].op # "auth"
        PROVE  AccountFresh(req[o])'
    <3>1. PICK s : s = req[o]
      OBVIOUS
    <3>2. AccountFresh(s) /\ AccountShape(s) /\ req'[o] = s /\ s.op # "auth"
      BY <1>3, <2>5, <3>1 DEF AccountsInv, AccountRequests
    <3>3. s.op = "status" => "status" \in crossed
      BY <1>8, <2>1, <2>5, <3>1, <3>2 DEF AccountShape
    <3> QED
      BY <1>3, <2>3, <3>1, <3>2, <3>3 DEF AccountFresh
  <2> QED
    BY <1>7, <2>1, <2>3, <2>4, <2>5
<1>10. CASE r.op \in {"assign", "unassign"}
  <2>1. /\ account # None /\ r.key \in Roles /\ r.loaded \subseteq Roles
        /\ r.set = IF r.op = "assign" THEN r.loaded \cup {r.key} ELSE r.loaded \ {r.key}
        /\ r.key \notin crossed => (r.key \in r.loaded <=> r.key \in account.roles)
    BY <1>2, <1>10 DEF AccountShape, AccountFresh
  <2>2. /\ account' = [account EXCEPT !.roles =
                          (account.roles \cup (r.set \ r.loaded)) \ (r.loaded \ r.set)]
        /\ decided' = [decided EXCEPT !.roles =
                          IF r.op = "assign" THEN decided.roles \cup {r.key}
                          ELSE decided.roles \ {r.key}]
    BY <1>1, <1>10 DEF CommitAccount
  <2>3. account \in Account /\ decided \in Account
    BY <1>5, <2>1
  <2>4. PICK kept, said :
          /\ kept = (account.roles \cup (r.set \ r.loaded)) \ (r.loaded \ r.set)
          /\ said = IF r.op = "assign" THEN decided.roles \cup {r.key}
                    ELSE decided.roles \ {r.key}
    OBVIOUS
  <2>5. /\ account' \in Account /\ account'.status = account.status
        /\ account'.roles = kept
        /\ decided' \in Account /\ decided'.status = decided.status
        /\ decided'.roles = said
    <3>1. account.roles \subseteq Roles /\ decided.roles \subseteq Roles
      BY <2>3 DEF Account
    <3>2. kept \subseteq Roles /\ said \subseteq Roles
      BY <2>1, <2>4, <3>1
    <3>3. account' = [account EXCEPT !.roles = kept] /\ decided' = [decided EXCEPT !.roles = said]
      BY <2>2, <2>4
    <3> QED
      BY <2>3, <3>2, <3>3 DEF Account
  <2>6. \A j : j # r.key => (j \in kept <=> j \in account.roles)
                            /\ (j \in said <=> j \in decided.roles)
    BY <2>1, <2>4
  <2>7. r.key \notin crossed => (r.key \in kept <=> r.key \in said)
    BY <2>1, <2>4
  <2>8. account.roles \ crossed = decided.roles \ crossed
    BY <2>1 DEF AccountsInv, AccessIsAsGranted
  <2>9. account'.roles \ crossed = decided'.roles \ crossed
    BY <2>5, <2>6, <2>7, <2>8
  <2>10. "status" \notin crossed => account'.status = decided'.status
    BY <2>1, <2>5 DEF AccountsInv, AccessIsAsGranted
  <2>11. ASSUME NEW o \in Requests \ {q}, req[o] # None, req[o].op # "auth"
         PROVE  AccountFresh(req[o])'
    <3>1. PICK s : s = req[o]
      OBVIOUS
    <3>2. AccountFresh(s) /\ AccountShape(s) /\ req'[o] = s /\ s.op # "auth"
      BY <1>3, <2>11, <3>1 DEF AccountsInv, AccountRequests
    <3>3. s.key \notin crossed => s.key # r.key
      BY <1>8, <2>11, <3>1
    <3> QED
      BY <1>3, <2>5, <2>6, <3>1, <3>2, <3>3 DEF AccountFresh
  <2> QED
    BY <1>7, <2>1, <2>5, <2>9, <2>10, <2>11
<1> QED
  BY <1>2, <1>6, <1>9, <1>10 DEF AccountShape

\* A request ends, and the principal it read, if any, holds what its roles grant.
LEMMA AccountsEnds ==
  ASSUME AccountsInv, NEW q \in Requests, End(q), UNCHANGED <<account, decided>>,
         principal' \in Principal \cup {None},
         principal' # None /\ ~principal'.moved =>
            principal'.permissions = Granted(principal'.roles)
  PROVE  AccountsInv'
<1>1. /\ SessionOK'
      /\ crossed' = crossed
      /\ req'[q] = None
      /\ \A o \in Requests \ {q} : req'[o] = req[o]
  BY EndKeepsAlone DEF AccountsInv
<1>2. AccountRequests'
  <2> SUFFICES ASSUME NEW o \in Requests, req'[o] # None
               PROVE  AccountShape(req[o])' /\ AccountFresh(req[o])'
    BY DEF AccountRequests
  <2>1. PICK s : s = req'[o] /\ AccountShape(s) /\ AccountFresh(s)
    BY <1>1 DEF AccountsInv, AccountRequests
  <2> QED
    BY <1>1, <2>1 DEF AccountShape, AccountFresh
<1>3. AccountsTypeOK'
  BY DEF AccountsInv, AccountsTypeOK
<1>4. AccessIsAsGranted'
  BY <1>1 DEF AccountsInv, AccessIsAsGranted, Granted
<1> QED
  BY <1>1, <1>2, <1>3, <1>4 DEF AccountsInv

\* Every step of every request keeps the invariant.
LEMMA AccountsSteps == AccountsInv /\ [AccountsNext]_accountVars => AccountsInv'
<1> SUFFICES ASSUME AccountsInv, [AccountsNext]_accountVars PROVE AccountsInv'
  OBVIOUS
<1>0. /\ account \in Account \cup {None}
      /\ principal \in Principal \cup {None}
      /\ account # None => account.roles \subseteq Roles
      /\ principal # None /\ ~principal.moved =>
            principal.permissions = Granted(principal.roles)
  BY DEF AccountsInv, AccountsTypeOK, AccessIsAsGranted, Account
<1>1. ASSUME NEW q \in Requests, NEW status \in {"active", "suspended"},
             NEW roles \in SUBSET Roles, CreateUser(q, status, roles)
      PROVE  AccountsInv'
  <2>1. PICK r : r = [key |-> "status", op |-> "create",
                      set |-> [status |-> status, roles |-> roles]]
    OBVIOUS
  <2>2. Begin(q, r) /\ UNCHANGED accountRows
    BY <1>1, <2>1 DEF CreateUser
  <2>3. AccountShape(r) /\ AccountFresh(r)
    BY <2>1 DEF AccountShape, AccountFresh, Account
  <2> QED
    BY <2>2, <2>3, AccountsBegins
<1>2. ASSUME NEW q \in Requests, NEW status \in {"active", "suspended"},
             UpdateUserStatus(q, status)
      PROVE  AccountsInv'
  <2>1. PICK r : r = [key |-> "status", op |-> "status", loaded |-> account.status,
                      set |-> status]
    OBVIOUS
  <2>2. Begin(q, r) /\ UNCHANGED accountRows /\ account # None
    BY <1>2, <2>1 DEF UpdateUserStatus
  <2>3. AccountShape(r) /\ AccountFresh(r)
    BY <2>1, <2>2 DEF AccountShape, AccountFresh
  <2> QED
    BY <2>2, <2>3, AccountsBegins
<1>3. ASSUME NEW q \in Requests, NEW k \in Roles, AssignRole(q, k) \/ UnassignRole(q, k)
      PROVE  AccountsInv'
  <2>1. PICK op \in {"assign", "unassign"} :
          /\ Begin(q, [key |-> k, op |-> op, loaded |-> account.roles,
                       set |-> IF op = "assign" THEN account.roles \cup {k}
                               ELSE account.roles \ {k}])
          /\ UNCHANGED accountRows /\ account # None
    <3>1. CASE AssignRole(q, k)
      BY <3>1 DEF AssignRole, assign_role
    <3>2. CASE UnassignRole(q, k)
      BY <3>2 DEF UnassignRole, unassign_role
    <3> QED
      BY <1>3, <3>1, <3>2
  <2>2. PICK r : r = [key |-> k, op |-> op, loaded |-> account.roles,
                      set |-> IF op = "assign" THEN account.roles \cup {k}
                              ELSE account.roles \ {k}]
    OBVIOUS
  <2>3. AccountShape(r) /\ AccountFresh(r)
    BY <1>0, <2>1, <2>2 DEF AccountShape, AccountFresh
  <2> QED
    BY <2>1, <2>2, <2>3, AccountsBegins
<1>4. ASSUME NEW q \in Requests, CommitAccount(q)
      PROVE  AccountsInv'
  BY <1>4, AccountsCommits
<1>5. ASSUME NEW q \in Requests, AbortAccount(q)
      PROVE  AccountsInv'
  BY <1>0, <1>5, AccountsEnds DEF AbortAccount, accountRows
<1>6. ASSUME NEW q \in Requests, LoadUser(q)
      PROVE  AccountsInv'
  <2>1. PICK r : r = [key |-> q, op |-> "auth", roles |-> None, moved |-> FALSE]
    OBVIOUS
  <2>2. Begin(q, r) /\ UNCHANGED accountRows /\ account # None
    BY <1>6, <2>1 DEF LoadUser
  <2>3. AccountShape(r) /\ AccountFresh(r)
    BY <2>1, <2>2 DEF AccountShape, AccountFresh
  <2> QED
    BY <2>2, <2>3, AccountsBegins
<1>7. ASSUME NEW q \in Requests, ReadRoles(q)
      PROVE  AccountsInv'
  <2>1. /\ req[q] # None /\ req[q].op = "auth"
        /\ req' = [req EXCEPT ![q].roles = account.roles]
        /\ UNCHANGED <<crossed, account, principal, decided>>
    BY <1>7 DEF ReadRoles
  <2>2. /\ req' = [o \in Requests |-> req'[o]]
        /\ req'[q] = [req[q] EXCEPT !.roles = account.roles]
        /\ \A o \in Requests \ {q} : req'[o] = req[o]
    BY <2>1 DEF AccountsInv, SessionOK
  <2>3. SessionOK'
    <3>0. req[q] = [key |-> req[q].key, op |-> "auth", roles |-> req[q].roles,
                    moved |-> req[q].moved]
      BY <2>1 DEF AccountsInv, AccountRequests, AccountShape
    <3>1. \A o \in Requests : req'[o].key = req[o].key /\ (req'[o] # None => req[o] # None)
      BY <2>1, <2>2, <3>0
    <3> QED
      BY <2>1, <2>2, <3>1 DEF AccountsInv, SessionOK, Alone
  <2>4. AccountRequests'
    <3> SUFFICES ASSUME NEW o \in Requests, req'[o] # None
                 PROVE  AccountShape(req[o])' /\ AccountFresh(req[o])'
      BY DEF AccountRequests
    <3>1. PICK s : s = req[o]
      OBVIOUS
    <3>2. AccountShape(s) /\ AccountFresh(s)
      BY <2>1, <2>2, <3>1 DEF AccountsInv, AccountRequests
    <3>3. CASE o = q
      <4>1. /\ s = [key |-> s.key, op |-> "auth", roles |-> s.roles, moved |-> s.moved]
            /\ s.moved \in BOOLEAN /\ account # None
        BY <2>1, <3>1, <3>2, <3>3 DEF AccountShape
      <4>2. PICK t : t = req'[o]
        OBVIOUS
      <4>3. t = [key |-> s.key, op |-> "auth", roles |-> account.roles, moved |-> s.moved]
        BY <2>2, <3>1, <3>3, <4>1, <4>2
      <4> QED
        BY <1>0, <2>1, <4>1, <4>2, <4>3 DEF AccountShape, AccountFresh
    <3>4. CASE o # q
      BY <2>1, <2>2, <3>1, <3>2, <3>4 DEF AccountShape, AccountFresh
    <3> QED
      BY <3>3, <3>4
  <2>5. (AccountsTypeOK /\ AccessIsAsGranted)'
    BY <2>1 DEF AccountsInv, AccountsTypeOK, AccessIsAsGranted
  <2> QED
    BY <2>3, <2>4, <2>5 DEF AccountsInv
<1>8. ASSUME NEW q \in Requests, ReadPermissions(q)
      PROVE  AccountsInv'
  <2>1. /\ End(q) /\ req[q] # None /\ req[q].op = "auth" /\ req[q].roles # None
        /\ principal' = [roles |-> req[q].roles, permissions |-> Granted(account.roles),
                         moved |-> req[q].moved]
        /\ UNCHANGED <<account, decided>>
    BY <1>8 DEF ReadPermissions, End
  <2>2. /\ req[q].roles \subseteq Roles /\ req[q].moved \in BOOLEAN /\ account # None
        /\ ~req[q].moved => req[q].roles = account.roles
    BY <2>1 DEF AccountsInv, AccountRequests, AccountShape, AccountFresh
  <2>3. Granted(account.roles) \subseteq Permissions
    BY <1>0, <2>2 DEF Granted, Permissions
  <2>4. principal' \in Principal
    BY <2>1, <2>2, <2>3 DEF Principal
  <2>5. ~principal'.moved => principal'.permissions = Granted(principal'.roles)
    BY <2>1, <2>2
  <2> QED
    BY <2>1, <2>4, <2>5, AccountsEnds
<1>9. CASE UNCHANGED accountVars
  <2>1. UNCHANGED <<session, req, crossed, account, principal, decided>>
    BY <1>9 DEF accountVars, session, accountRows
  <2>2. SessionOK'
    BY <2>1, StillAlone DEF AccountsInv
  <2>3. AccountRequests'
    <3> SUFFICES ASSUME NEW o \in Requests, req'[o] # None
                 PROVE  AccountShape(req[o])' /\ AccountFresh(req[o])'
      BY DEF AccountRequests
    <3>1. PICK s : s = req'[o] /\ AccountShape(s) /\ AccountFresh(s)
      BY <2>1 DEF AccountsInv, AccountRequests
    <3> QED
      BY <2>1, <3>1 DEF AccountShape, AccountFresh
  <2>4. (AccountsTypeOK /\ AccessIsAsGranted)'
    BY <2>1 DEF AccountsInv, AccountsTypeOK, AccessIsAsGranted
  <2> QED
    BY <2>2, <2>3, <2>4 DEF AccountsInv
<1> QED
  BY <1>1, <1>2, <1>3, <1>4, <1>5, <1>6, <1>7, <1>8, <1>9 DEF AccountsNext

\* An account has the status and the roles its administrators gave it, and a
\* principal what its roles grant, unless requests met on that very status or
\* role or the account moved while it was read (iam/service.py:172-196).
THEOREM AccessIsGranted == AccountsSpec => []AccessIsAsGranted
<1>1. AccountsInv => AccessIsAsGranted
  BY DEF AccountsInv
<1> QED
  BY AccountsStarts, AccountsSteps, <1>1, PTL DEF AccountsSpec, accountVars

-----------------------------------------------------------------------------
(* Quizzes                                                                 *)

quizVars == <<session, quizRows>>

\* The score of an attempt, if it has one, is a fraction of some of the questions.
AttemptOK(a) ==
    /\ a.responses \in Responses
    /\ a.score # None =>
          /\ a.score.of \in 1 .. Cardinality(Questions)
          /\ a.score.right \in 0 .. a.score.of

\* What a request will write, on a quiz that is there.
QuizShape(r) ==
    \/ r.op = "create"
    \/ r.op = "attempt" /\ quiz /\ AttemptOK(r.set)
    \/ /\ r.op \in {"add", "update", "delete"} /\ quiz
       /\ r.key \in Questions /\ r.set \in Answers \cup {"essay", "gone"}

QuizRequests == \A q \in Requests : req[q] # None => QuizShape(req[q])

QuizzesInv ==
    /\ SessionOK
    /\ QuizzesTypeOK
    /\ QuizRequests

-----------------------------------------------------------------------------
\* Grading gives nothing, or a fraction of one question or more.
LEMMA GradeIsFraction ==
  ASSUME NEW responses \in Responses
  PROVE  AttemptOK([responses |-> responses, score |-> grade_responses(question, responses)])
<1>1. PICK g : g = Gradable(question)
  OBVIOUS
<1>2. PICK h : h = {u \in g : responses[u] = question[u]}
  OBVIOUS
<1>3. g \subseteq Questions /\ h \subseteq g
  BY <1>1, <1>2 DEF Gradable
<1>4. /\ IsFiniteSet(g) /\ IsFiniteSet(h)
      /\ Cardinality(g) <= Cardinality(Questions) /\ Cardinality(h) <= Cardinality(g)
  BY <1>3, FS_Subset, QuizzesAssumption
<1>5. Cardinality(g) \in Nat /\ Cardinality(h) \in Nat /\ Cardinality(Questions) \in Nat
  BY <1>4, FS_CardinalityType, QuizzesAssumption
<1>6. g # {} => Cardinality(g) # 0
  BY <1>4, FS_EmptySet
<1>7. PICK s : s = grade_responses(question, responses)
  OBVIOUS
<1>8. s = IF g = {} THEN None ELSE [right |-> Cardinality(h), of |-> Cardinality(g)]
  BY <1>1, <1>2, <1>7 DEF grade_responses
<1>9. s # None => s.of \in 1 .. Cardinality(Questions) /\ s.right \in 0 .. s.of
  BY <1>4, <1>5, <1>6, <1>8
<1> QED
  BY <1>7, <1>9 DEF AttemptOK

\* There is no quiz at the start.
LEMMA QuizzesStart == QuizzesInit => QuizzesInv
  BY SessionStarts DEF QuizzesInit, SessionInit, QuizzesInv, QuizzesTypeOK, AnswerKeys,
     QuizRequests

\* A request that has read the quiz begins.
LEMMA QuizBegins ==
  ASSUME QuizzesInv, NEW q \in Requests, NEW r, Begin(q, r), UNCHANGED quizRows, QuizShape(r)
  PROVE  QuizzesInv'
<1>1. /\ SessionOK'
      /\ req'[q] = r
      /\ \A o \in Requests \ {q} : req'[o] = req[o]
  BY BeginKeepsAlone DEF QuizzesInv
<1>2. UNCHANGED <<quiz, question, attempt>>
  BY DEF quizRows
<1>3. QuizRequests'
  <2> SUFFICES ASSUME NEW o \in Requests, req'[o] # None
               PROVE  QuizShape(req[o])'
    BY DEF QuizRequests
  <2>1. PICK s : s = req'[o] /\ QuizShape(s)
    BY <1>1 DEF QuizzesInv, QuizRequests
  <2> QED
    BY <1>2, <2>1 DEF QuizShape, AttemptOK
<1>4. QuizzesTypeOK'
  BY <1>2 DEF QuizzesInv, QuizzesTypeOK, There
<1> QED
  BY <1>1, <1>3, <1>4 DEF QuizzesInv

\* A request ends and leaves a quiz that is there, and tables that are well formed.
LEMMA QuizEnds ==
  ASSUME QuizzesInv, NEW q \in Requests, End(q), quiz => quiz', QuizzesTypeOK'
  PROVE  QuizzesInv'
<1>1. /\ SessionOK'
      /\ req'[q] = None
      /\ \A o \in Requests \ {q} : req'[o] = req[o]
  BY EndKeepsAlone DEF QuizzesInv
<1>2. QuizRequests'
  <2> SUFFICES ASSUME NEW o \in Requests, req'[o] # None
               PROVE  QuizShape(req[o])'
    BY DEF QuizRequests
  <2>1. PICK s : s = req'[o] /\ QuizShape(s)
    BY <1>1 DEF QuizzesInv, QuizRequests
  <2> QED
    BY <2>1 DEF QuizShape, AttemptOK
<1> QED
  BY <1>1, <1>2 DEF QuizzesInv

\* Every step of every request keeps the invariant.
LEMMA QuizzesSteps == QuizzesInv /\ [QuizzesNext]_quizVars => QuizzesInv'
<1> SUFFICES ASSUME QuizzesInv, [QuizzesNext]_quizVars PROVE QuizzesInv'
  OBVIOUS
<1>0. QuizzesTypeOK /\ question \in AnswerKeys
  BY DEF QuizzesInv, QuizzesTypeOK
<1>1. ASSUME NEW q \in Requests, CreateAssessment(q)
      PROVE  QuizzesInv'
  <2>1. PICK r : r = [key |-> "quiz", op |-> "create"]
    OBVIOUS
  <2> QED
    BY <1>1, <2>1, QuizBegins DEF CreateAssessment, QuizShape
<1>2. ASSUME NEW q \in Requests, NEW u \in Questions, NEW key \in Answers \cup {"essay"},
             AddQuestion(q, u, key)
      PROVE  QuizzesInv'
  <2>1. PICK r : r = [key |-> u, op |-> "add", set |-> key]
    OBVIOUS
  <2> QED
    BY <1>2, <2>1, QuizBegins DEF AddQuestion, QuizShape
<1>3. ASSUME NEW q \in Requests, NEW u \in Questions, NEW key \in Answers \cup {"essay"},
             UpdateQuestion(q, u, key)
      PROVE  QuizzesInv'
  <2>1. PICK r : r = [key |-> u, op |-> "update", loaded |-> question[u], set |-> key]
    OBVIOUS
  <2> QED
    BY <1>0, <1>3, <2>1, QuizBegins DEF UpdateQuestion, QuizShape, There, QuizzesTypeOK
<1>4. ASSUME NEW q \in Requests, NEW u \in Questions, DeleteQuestion(q, u)
      PROVE  QuizzesInv'
  <2>1. PICK r : r = [key |-> u, op |-> "delete", set |-> "gone"]
    OBVIOUS
  <2> QED
    BY <1>0, <1>4, <2>1, QuizBegins DEF DeleteQuestion, QuizShape, There, QuizzesTypeOK
<1>5. ASSUME NEW q \in Requests, NEW responses \in Responses, SubmitAttempt(q, responses)
      PROVE  QuizzesInv'
  <2>1. PICK a : a = [responses |-> responses, score |-> grade_responses(question, responses)]
    OBVIOUS
  <2>2. PICK r : r = [key |-> "attempt", op |-> "attempt", set |-> a]
    OBVIOUS
  <2>3. AttemptOK(a)
    BY <2>1, GradeIsFraction
  <2> QED
    BY <1>5, <2>1, <2>2, <2>3, QuizBegins DEF SubmitAttempt, QuizShape
<1>6. ASSUME NEW q \in Requests, CommitQuiz(q)
      PROVE  QuizzesInv'
  <2>1. PICK r : r = req[q]
    OBVIOUS
  <2>2. End(q) /\ QuizShape(r)
    BY <1>6, <2>1 DEF CommitQuiz, End, QuizzesInv, QuizRequests
  <2>3. CASE r.op = "create"
    <3>1. ~quiz /\ quiz' = TRUE /\ UNCHANGED <<question, attempt>>
      BY <1>6, <2>1, <2>3 DEF CommitQuiz
    <3> QED
      BY <1>0, <2>2, <3>1, QuizEnds DEF QuizzesTypeOK
  <2>4. CASE r.op = "attempt"
    <3>1. attempt' = r.set /\ UNCHANGED <<quiz, question>>
      BY <1>6, <2>1, <2>4 DEF CommitQuiz
    <3>2. quiz /\ AttemptOK(r.set)
      BY <2>2, <2>4 DEF QuizShape
    <3> QED
      BY <1>0, <2>2, <3>1, <3>2, QuizEnds DEF QuizzesTypeOK, AttemptOK
  <2>5. CASE r.op \in {"add", "update", "delete"}
    <3>1. /\ question' \in {question, [question EXCEPT ![r.key] = r.set]}
          /\ UNCHANGED <<quiz, attempt>>
      BY <1>6, <2>1, <2>5 DEF CommitQuiz
    <3>2. quiz /\ r.key \in Questions /\ r.set \in Answers \cup {"essay", "gone"}
      BY <2>2, <2>5 DEF QuizShape
    <3>3. question' \in AnswerKeys
      BY <1>0, <3>1, <3>2 DEF AnswerKeys
    <3> QED
      BY <1>0, <2>2, <3>1, <3>2, <3>3, QuizEnds DEF QuizzesTypeOK
  <2> QED
    BY <2>2, <2>3, <2>4, <2>5 DEF QuizShape
<1>7. ASSUME NEW q \in Requests, AbortQuiz(q)
      PROVE  QuizzesInv'
  <2>1. End(q) /\ UNCHANGED <<quiz, question, attempt>>
    BY <1>7 DEF AbortQuiz, quizRows
  <2> QED
    BY <1>0, <2>1, QuizEnds DEF QuizzesTypeOK
<1>8. CASE UNCHANGED quizVars
  <2>1. UNCHANGED <<session, req, quiz, question, attempt>>
    BY <1>8 DEF quizVars, session, quizRows
  <2> QED
    BY <2>1, StillAlone DEF QuizzesInv, QuizzesTypeOK, QuizRequests, QuizShape, AttemptOK
<1> QED
  BY <1>1, <1>2, <1>3, <1>4, <1>5, <1>6, <1>7, <1>8 DEF QuizzesNext

\* However questions are added, edited and deleted under the attempts, a score is a
\* fraction of the questions there are, of at least one, and an attempt hangs on a
\* quiz (content/service.py: grade_responses, submit_attempt).
THEOREM ScoresAreFractions == QuizzesSpec => []QuizzesTypeOK
<1>1. QuizzesInv => QuizzesTypeOK
  BY DEF QuizzesInv
<1> QED
  BY QuizzesStart, QuizzesSteps, <1>1, PTL DEF QuizzesSpec, quizVars

-----------------------------------------------------------------------------
(* The class                                                               *)

\* The tables are well formed, and the part the behaviour follows as it should be.
ClassInv ==
    /\ part \in Parts
    /\ TypeOK
    /\ part \in {"projects", "rubric"} => ProjectsInv
    /\ part = "attendance" => AttendanceInv
    /\ part = "content" => ContentInv
    /\ part \in {"enrollment", "editing"} => EnrollmentInv
    /\ part \in {"adaptive", "completing"} => AdaptiveInv
    /\ part = "accounts" => AccountsInv
    /\ part = "quizzes" => QuizzesInv

\* What every table holds says nothing of requests.
LEMMA RowsStay ==
  ASSUME TypeOK
  PROVE  /\ UNCHANGED projectRows => ProjectsTypeOK'
         /\ UNCHANGED attendanceRows => AttendanceTypeOK'
         /\ UNCHANGED contentRows => ContentTypeOK'
         /\ UNCHANGED enrollmentRows => EnrollmentTypeOK'
         /\ UNCHANGED adaptiveRows => AdaptiveTypeOK'
         /\ UNCHANGED accountRows => AccountsTypeOK'
         /\ UNCHANGED quizRows => QuizzesTypeOK'
<1>1. UNCHANGED projectRows => ProjectsTypeOK'
  BY DEF TypeOK, ProjectsTypeOK, projectRows
<1>2. UNCHANGED attendanceRows => AttendanceTypeOK'
  BY DEF TypeOK, AttendanceTypeOK, attendanceRows
<1>3. UNCHANGED contentRows => ContentTypeOK'
  BY DEF TypeOK, ContentTypeOK, contentRows
<1>4. UNCHANGED enrollmentRows => EnrollmentTypeOK'
  BY DEF TypeOK, EnrollmentTypeOK, enrollmentRows
<1>5. UNCHANGED adaptiveRows => AdaptiveTypeOK'
  BY DEF TypeOK, AdaptiveTypeOK, adaptiveRows, progressRows, P!TypeOK
<1>6. UNCHANGED accountRows => AccountsTypeOK'
  BY DEF TypeOK, AccountsTypeOK, accountRows
<1>7. UNCHANGED quizRows => QuizzesTypeOK'
  BY DEF TypeOK, QuizzesTypeOK, quizRows
<1> QED
  BY <1>1, <1>2, <1>3, <1>4, <1>5, <1>6, <1>7

\* A class keeps its tables well formed: a grade hangs on a submission and feedback on
\* a grade, an approved text is on record, an enrollment on a class and a version
\* with no row both locked and open, and a score is a fraction of the questions, for
\* any number of requests.
THEOREM TypeCorrect == Spec => []TypeOK
<1>1. Init => ClassInv
  <2> SUFFICES ASSUME Init PROVE ClassInv
    OBVIOUS
  <2>1. /\ ProjectsInv /\ AttendanceInv /\ ContentInv /\ EnrollmentInv
        /\ AdaptiveInv /\ AccountsInv /\ QuizzesInv /\ part \in Parts
    BY ProjectsStarts, AttendanceStarts, ContentStarts, EnrollmentStarts, AdaptiveStarts,
       AccountsStarts, QuizzesStart DEF Init
  <2>2. TypeOK
    BY <2>1 DEF TypeOK, ProjectsInv, AttendanceInv, ContentInv, EnrollmentInv, AdaptiveInv,
       AccountsInv, QuizzesInv
  <2> QED
    BY <2>1, <2>2 DEF ClassInv
<1>2. ClassInv /\ [Next]_vars => ClassInv'
  <2> SUFFICES ASSUME ClassInv, [Next]_vars PROVE ClassInv'
    OBVIOUS
  <2>0. TypeOK /\ part' = part /\ part' \in Parts
    BY DEF ClassInv, Next, vars
  <2>1. CASE /\ part = "projects" /\ HandInNext
             /\ UNCHANGED attendanceRows /\ UNCHANGED contentRows /\ UNCHANGED enrollmentRows
             /\ UNCHANGED adaptiveRows /\ UNCHANGED accountRows /\ UNCHANGED quizRows
    <3>1. ProjectsInv'
      BY <2>1, ProjectsSteps DEF ClassInv, ProjectsNext
    <3>2. TypeOK'
      BY <2>0, <2>1, <3>1, RowsStay DEF TypeOK, ProjectsInv
    <3> QED
      BY <2>0, <2>1, <3>1, <3>2 DEF ClassInv
  <2>2. CASE /\ part = "rubric" /\ RubricNext
             /\ UNCHANGED attendanceRows /\ UNCHANGED contentRows /\ UNCHANGED enrollmentRows
             /\ UNCHANGED adaptiveRows /\ UNCHANGED accountRows /\ UNCHANGED quizRows
    <3>1. ProjectsInv'
      BY <2>2, ProjectsSteps DEF ClassInv, ProjectsNext
    <3>2. TypeOK'
      BY <2>0, <2>2, <3>1, RowsStay DEF TypeOK, ProjectsInv
    <3> QED
      BY <2>0, <2>2, <3>1, <3>2 DEF ClassInv
  <2>3. CASE /\ part = "attendance" /\ AttendanceNext
             /\ UNCHANGED projectRows /\ UNCHANGED contentRows /\ UNCHANGED enrollmentRows
             /\ UNCHANGED adaptiveRows /\ UNCHANGED accountRows /\ UNCHANGED quizRows
    <3>1. AttendanceInv'
      BY <2>3, AttendanceSteps DEF ClassInv
    <3>2. TypeOK'
      BY <2>0, <2>3, <3>1, RowsStay DEF TypeOK, AttendanceInv
    <3> QED
      BY <2>0, <2>3, <3>1, <3>2 DEF ClassInv
  <2>4. CASE /\ part = "content" /\ ContentNext
             /\ UNCHANGED projectRows /\ UNCHANGED attendanceRows /\ UNCHANGED enrollmentRows
             /\ UNCHANGED adaptiveRows /\ UNCHANGED accountRows /\ UNCHANGED quizRows
    <3>1. ContentInv'
      BY <2>4, ContentSteps DEF ClassInv
    <3>2. TypeOK'
      BY <2>0, <2>4, <3>1, RowsStay DEF TypeOK, ContentInv
    <3> QED
      BY <2>0, <2>4, <3>1, <3>2 DEF ClassInv
  <2>5. CASE /\ part \in {"enrollment", "editing"} /\ EnrollmentNext
             /\ UNCHANGED projectRows /\ UNCHANGED attendanceRows /\ UNCHANGED contentRows
             /\ UNCHANGED adaptiveRows /\ UNCHANGED accountRows /\ UNCHANGED quizRows
    <3>1. EnrollmentInv'
      BY <2>5, EnrollmentSteps DEF ClassInv
    <3>2. TypeOK'
      BY <2>0, <2>5, <3>1, RowsStay DEF TypeOK, EnrollmentInv
    <3> QED
      BY <2>0, <2>5, <3>1, <3>2 DEF ClassInv
  <2>6. CASE /\ part \in {"adaptive", "completing"} /\ AdaptiveNext
             /\ UNCHANGED projectRows /\ UNCHANGED attendanceRows /\ UNCHANGED contentRows
             /\ UNCHANGED enrollmentRows /\ UNCHANGED accountRows /\ UNCHANGED quizRows
    <3>1. AdaptiveInv'
      BY <2>6, AdaptiveSteps DEF ClassInv
    <3>2. TypeOK'
      BY <2>0, <2>6, <3>1, RowsStay DEF TypeOK, AdaptiveInv
    <3> QED
      BY <2>0, <2>6, <3>1, <3>2 DEF ClassInv
  <2>7. CASE /\ part = "accounts" /\ AccountsNext
             /\ UNCHANGED projectRows /\ UNCHANGED attendanceRows /\ UNCHANGED contentRows
             /\ UNCHANGED enrollmentRows /\ UNCHANGED adaptiveRows /\ UNCHANGED quizRows
    <3>1. AccountsInv'
      BY <2>7, AccountsSteps DEF ClassInv
    <3>2. TypeOK'
      BY <2>0, <2>7, <3>1, RowsStay DEF TypeOK, AccountsInv
    <3> QED
      BY <2>0, <2>7, <3>1, <3>2 DEF ClassInv
  <2>8. CASE /\ part = "quizzes" /\ QuizzesNext
             /\ UNCHANGED projectRows /\ UNCHANGED attendanceRows /\ UNCHANGED contentRows
             /\ UNCHANGED enrollmentRows /\ UNCHANGED adaptiveRows /\ UNCHANGED accountRows
    <3>1. QuizzesInv'
      BY <2>8, QuizzesSteps DEF ClassInv
    <3>2. TypeOK'
      BY <2>0, <2>8, <3>1, RowsStay DEF TypeOK, QuizzesInv
    <3> QED
      BY <2>0, <2>8, <3>1, <3>2 DEF ClassInv
  <2>9. CASE UNCHANGED vars
    <3>1. /\ UNCHANGED projectVars /\ UNCHANGED attendanceVars /\ UNCHANGED contentVars
          /\ UNCHANGED enrollmentVars /\ UNCHANGED adaptiveVars /\ UNCHANGED accountVars
          /\ UNCHANGED quizVars
      BY <2>9 DEF vars, projectVars, attendanceVars, contentVars, enrollmentVars,
         adaptiveVars, accountVars, quizVars
    <3>2. /\ UNCHANGED projectRows /\ UNCHANGED attendanceRows /\ UNCHANGED contentRows
          /\ UNCHANGED enrollmentRows /\ UNCHANGED adaptiveRows /\ UNCHANGED accountRows
          /\ UNCHANGED quizRows
      BY <2>9 DEF vars
    <3>3. TypeOK'
      BY <2>0, <3>2, RowsStay DEF TypeOK
    <3> QED
      BY <2>0, <3>1, <3>3, ProjectsSteps, AttendanceSteps, ContentSteps, EnrollmentSteps,
         AdaptiveSteps, AccountsSteps, QuizzesSteps DEF ClassInv
  <2> QED
    BY <2>1, <2>2, <2>3, <2>4, <2>5, <2>6, <2>7, <2>8, <2>9 DEF Next
<1>3. ClassInv => TypeOK
  BY DEF ClassInv
<1> QED
  BY <1>1, <1>2, <1>3, PTL DEF Spec
=============================================================================
