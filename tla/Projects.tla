------------------------------ MODULE Projects ------------------------------
(***************************************************************************)
(* A project on a learning node and one learner's submissions to it, with  *)
(* rubric, grades and feedback (modules/projects/service.py, router.py).   *)
(* Nothing but the primary keys is unique in these tables: a row of        *)
(* rubrics, grades or feedback is known here by the request that inserts   *)
(* it.  Each service function commits its own transaction.                 *)
(***************************************************************************)
EXTENDS Session, Naturals, FiniteSets

CONSTANTS
    Handins,   \* bound: submissions of the learner
    Limits     \* values of max_submissions; 0 is no limit

ASSUME ProjectsAssumption ==
    /\ IsFiniteSet(Handins) /\ IsFiniteSet(Requests)
    /\ Limits \subseteq Nat
    /\ {"project", "submit", "rubric"} \cap Handins = {}

VARIABLES
    project,   \* projects: the row, or None
    handin,    \* project_submissions
    rubric,    \* rubrics of the project
    grade,     \* grades
    feedback,  \* feedback, by grade
    limits     \* history: the limits the project has had

projectRows == <<project, handin, rubric, grade, feedback, limits>>

ProjectRow == [limit : Limits]
HandinRow == [attempt : Nat, status : {"submitted", "graded"}]
GradeRow == [of : Handins, by : Requests]
FeedbackRow == [grade : GradeRow, by : Requests]

ASSUME ProjectRowAssumption == None \notin ProjectRow /\ None \notin HandinRow

GradesOf(i) == {g \in grade : g.of = i}
\* Grades and feedback hang on rows that exist: deleting a project takes all.
ProjectsTypeOK ==
    /\ project \in ProjectRow \cup {None}
    /\ handin \in [Handins -> HandinRow \cup {None}]
    /\ grade \subseteq GradeRow
    /\ \A g \in grade : handin[g.of] # None
    /\ rubric \subseteq Requests /\ feedback \subseteq FeedbackRow
    /\ \A f \in feedback : \E g \in grade : g = f.grade
    /\ project = None => rubric = {} /\ \A i \in Handins : handin[i] = None

-----------------------------------------------------------------------------
Handed == {i \in Handins : handin[i] # None}

MutantLimitOffByOne(p) == p.limit > 0 /\ Cardinality(Handed) > p.limit

LimitReached(p) == p.limit > 0 /\ Cardinality(Handed) >= p.limit

submit_project(p) ==
    IF LimitReached(p) THEN Refused
    ELSE [attempt |-> Cardinality(Handed) + 1, status |-> "submitted"]

MutantNotFound(i) == {}

\* The grade of a submission; with two rows the query raises.
found_grade(i) == GradesOf(i)

\* The score of a grade gates nothing and is left out: an update finds its row.
grade_submission(q, i) ==
    IF found_grade(i) = {} THEN {[of |-> i, by |-> q]} ELSE found_grade(i)

-----------------------------------------------------------------------------
ProjectsInit ==
    /\ SessionInit
    /\ project = None
    /\ handin = [i \in Handins |-> None]
    /\ rubric = {} /\ grade = {} /\ feedback = {}
    /\ limits = {}

BeginProject(q, op, row) ==
    /\ Begin(q, [key |-> "project", op |-> op, loaded |-> project, set |-> row])
    /\ UNCHANGED projectRows

CreateProject(q, limit) ==
    /\ project = None /\ limits = {}     \* one project is followed
    /\ BeginProject(q, "create", [limit |-> limit])

UpdateProject(q, limit) ==
    project # None /\ BeginProject(q, "update", [limit |-> limit])

DeleteProject(q) == project # None /\ BeginProject(q, "delete", None)

SetRubric(q) ==
    /\ project # None
    /\ Cardinality(rubric) <= 1
    /\ Begin(q, [key |-> "rubric", op |-> "rubric", first |-> rubric = {}])
    /\ UNCHANGED projectRows

\* A label is used again only where nobody has read the submission it named.
SubmitProject(q, i) ==
    /\ project # None /\ handin[i] = None
    /\ \A o \in Requests : req[o] # None =>
          req[o].key # i /\ (req[o].op = "submit" => req[o].place # i)
    /\ submit_project(project) # Refused
    /\ Begin(q, [key |-> "submit", op |-> "submit", place |-> i,
                 set |-> submit_project(project)])
    /\ UNCHANGED projectRows

GradeSubmission(q, i, comment) ==
    /\ handin[i] # None
    /\ Cardinality(found_grade(i)) <= 1
    /\ Begin(q, [key |-> i, op |-> "grade", found |-> found_grade(i), row |-> handin[i],
                 rows |-> grade_submission(q, i), comment |-> comment,
                 heard |-> {f \in feedback : f.grade \in found_grade(i)}])
    /\ UNCHANGED projectRows

\* project_id is a foreign key: of a project that is gone the commit fails.
CommitProject(q) ==
    /\ End(q)
    /\ req[q].op \in {"create", "update", "delete", "rubric"}
    /\ req[q].op = "create" <=> project = None
    /\ CASE req[q].op \in {"create", "update"} ->
              /\ project' = IF project = None THEN req[q].set
                            ELSE Flush(project, req[q].loaded, req[q].set)
              /\ limits' = limits \cup {project'.limit}
              /\ UNCHANGED <<handin, rubric, grade, feedback>>
         [] req[q].op = "rubric" ->
              /\ rubric' = IF req[q].first THEN rubric \cup {q} ELSE rubric
              /\ UNCHANGED <<project, handin, grade, feedback, limits>>
         [] OTHER ->
              /\ project' = None
              /\ handin' = [i \in Handins |-> None]
              /\ rubric' = {} /\ grade' = {} /\ feedback' = {}
              /\ UNCHANGED limits

MutantNoForeignKey(q) ==
    /\ End(q)
    /\ req[q].op = "submit"
    /\ handin' = [handin EXCEPT ![req[q].place] = req[q].set]
    /\ UNCHANGED <<project, rubric, grade, feedback, limits>>

CommitSubmit(q) ==
    /\ End(q)
    /\ req[q].op = "submit"
    /\ project # None
    /\ handin' = [handin EXCEPT ![req[q].place] = req[q].set]
    /\ UNCHANGED <<project, rubric, grade, feedback, limits>>

\* A feedback row is looked up, or inserted, if there is a comment.
CommitGrade(q) ==
    /\ End(q)
    /\ req[q].op = "grade"
    /\ LET r == req[q]
           i == r.key
       IN  /\ handin[i] # None
           /\ handin' = [handin EXCEPT ![i] = Flush(@, r.row, [r.row EXCEPT !.status = "graded"])]
           /\ grade' = grade \cup r.rows
           /\ feedback' = IF r.comment /\ r.heard = {}
                          THEN feedback \cup [grade : r.rows, by : {q}] ELSE feedback
    /\ UNCHANGED <<project, rubric, limits>>

AbortProjects(q) == End(q) /\ UNCHANGED projectRows

EditProject(q) ==
    \/ \E limit \in Limits : CreateProject(q, limit) \/ UpdateProject(q, limit)
    \/ DeleteProject(q)
    \/ CommitProject(q)
    \/ AbortProjects(q)

HandInNext ==
    \E q \in Requests :
        \/ EditProject(q)
        \/ \E i \in Handins :
              \/ SubmitProject(q, i)
              \/ \E comment \in BOOLEAN : GradeSubmission(q, i, comment)
        \/ CommitSubmit(q)
        \/ CommitGrade(q)

RubricNext == \E q \in Requests : EditProject(q) \/ SetRubric(q)

ProjectsNext == HandInNext \/ RubricNext

ProjectsSpec == ProjectsInit /\ [][ProjectsNext]_<<session, projectRows>>
-----------------------------------------------------------------------------
\* The submission limit (service.py:266) is exceeded only by requests that were
\* in flight together, each by one: with the limits the project has had, there
\* are at most the largest of them plus the other requests that fit.
LimitHolds ==
    0 \notin limits =>
        \E m \in limits \cup {0} :
            Cardinality(Handed) <=
                m + (IF "submit" \in crossed THEN Cardinality(Requests) - 1 ELSE 0)

\* A submission is graded if and only if it has a grade; and unless two requests
\* wrote it at once there is one rubric, one grade of a submission and one
\* feedback on it, so the query of the next reader does not raise
\* (service.py:204, 467, 488).
GradesAgree ==
    /\ "rubric" \notin crossed => Cardinality(rubric) <= 1
    /\ \A i \in Handed :
          /\ handin[i].status = "graded" <=> GradesOf(i) # {}
          /\ i \notin crossed => /\ Cardinality(GradesOf(i)) <= 1
                                 /\ Cardinality({f \in feedback : f.grade.of = i}) <= 1
=============================================================================
