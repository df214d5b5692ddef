---------------------------- MODULE MCCoursework ----------------------------
(***************************************************************************)
(* What happens in a class: enrollment, the next node, projects,           *)
(* attendance, content, and the accounts of those who take part.  The parts*)
(* change no rows in common; the instance follows one of them at a time,   *)
(* chosen in Init, with two requests.  Two modules are followed twice, each*)
(* time under a bound of its own:                                          *)
(*                                                                         *)
(*   enrollment   two versions, no two edits or enroll requests together   *)
(*   editing      one version, any two requests together                   *)
(*   adaptive     overrides, no two completions together                   *)
(*   completing   no override, any two requests together                   *)
(***************************************************************************)
EXTENDS Projects, Attendance, Content, Enrollment, Adaptive, Accounts,
        Quizzes, Sequences, TLC

CONSTANTS
    Parts,      \* the modules a run follows
    l1, l2, present, absent,
    n1, n2, n3

VARIABLE part

\* n1 --requires--> n3 <--mastery_gate-- n2: two requests can each hold half of
\* what opens n3.
PathNodes == {n1, n2, n3}
PathRequires == {<<n1, n3>>}
PathGates == {<<n2, n3>>}
PathThreshold == [n \in PathNodes |-> 1]
PathPlace == (n1 :> 1) @@ (n2 :> 2) @@ (n3 :> 3)

\* One learner, present or not; two learners; and one learner named twice.
Mark(l, m) == [learner |-> l, status |-> m]
SmallBatches ==
    {<<Mark(l1, present)>>, <<Mark(l1, absent)>>,
     <<Mark(l1, present), Mark(l2, absent)>>, <<Mark(l1, present), Mark(l1, absent)>>}

\* Two roles that have a permission in common.
SmallGrants == [learner |-> {"view"}, teacher |-> {"view", "grade"}]

\* The bounds of the parts.
OneEdit ==
    \A q, o \in Requests :
        q # o /\ req[q] # None /\ req[o] # None => IsEdit(q) # IsEdit(o)

OneVersion == Cardinality(Exists) <= 1

OneCompletion ==
    \A q, o \in Requests : q # o => completing[q] = P!Idle \/ completing[o] = P!Idle

\* A score is reported only for a node that has a mastery rule.
Scored ==
    \A q \in Requests :
        completing[q] # P!Idle /\ completing[q].node \notin Explicit =>
            completing[q].score = NoScore

Init ==
    /\ part \in Parts
    /\ ProjectsInit /\ AttendanceInit /\ ContentInit /\ EnrollmentInit /\ AdaptiveInit
    /\ AccountsInit /\ QuizzesInit
    /\ part # "attendance" => enrolled = {}

Next ==
    /\ UNCHANGED part
    /\ \/ /\ part = "projects"
          /\ HandInNext
          /\ UNCHANGED <<attendanceRows, contentRows, enrollmentRows, adaptiveRows, accountRows,
                         quizRows>>
       \/ /\ part = "rubric"
          /\ RubricNext
          /\ UNCHANGED <<attendanceRows, contentRows, enrollmentRows, adaptiveRows, accountRows,
                         quizRows>>
       \/ /\ part = "attendance"
          /\ AttendanceNext
          /\ UNCHANGED <<projectRows, contentRows, enrollmentRows, adaptiveRows, accountRows,
                         quizRows>>
       \/ /\ part = "content"
          /\ ContentNext
          /\ UNCHANGED <<projectRows, attendanceRows, enrollmentRows, adaptiveRows, accountRows,
                         quizRows>>
       \/ /\ \/ part = "enrollment" /\ EnrollmentNext /\ OneEdit'
             \/ part = "editing" /\ EnrollmentNext /\ OneVersion'
          /\ UNCHANGED <<projectRows, attendanceRows, contentRows, adaptiveRows, accountRows,
                         quizRows>>
       \/ /\ \/ part = "adaptive" /\ AdaptiveNext /\ OneCompletion'
             \/ part = "completing" /\ AdaptiveNext /\ asked' = 0
          /\ Scored'
          /\ UNCHANGED <<projectRows, attendanceRows, contentRows, enrollmentRows, accountRows,
                         quizRows>>
       \/ /\ part = "accounts"
          /\ AccountsNext
          /\ UNCHANGED <<projectRows, attendanceRows, contentRows, enrollmentRows, adaptiveRows,
                         quizRows>>
       \/ /\ part = "quizzes"
          /\ QuizzesNext
          /\ UNCHANGED <<projectRows, attendanceRows, contentRows, enrollmentRows, adaptiveRows,
                         accountRows>>

vars == <<part, session, projectRows, attendanceRows, contentRows, enrollmentRows,
          adaptiveRows, accountRows, quizRows>>

Spec == Init /\ [][Next]_vars

\* Submissions, nodes of a version and questions are named by the same model
\* values, each in their own part: one group is enough.
Symmetry == Permutations(Requests) \cup Permutations(Labels)

\* The tables are well formed: grades and feedback hang on rows that exist, and
\* an approved text is on record; a progress row is locked or open.
TypeOK ==
    /\ ProjectsTypeOK /\ AttendanceTypeOK /\ ContentTypeOK
    /\ EnrollmentTypeOK /\ AdaptiveTypeOK /\ AccountsTypeOK /\ QuizzesTypeOK
=============================================================================
