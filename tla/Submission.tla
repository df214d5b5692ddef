----------------------------- MODULE Submission -----------------------------
(***************************************************************************)
(* The submissions of one learner to one contribution assessment, their    *)
(* evaluations and grades (modules/blueprint/service.py, router.py).       *)
(* Lower-case operators are the functions of service.py: the row they leave*)
(* or Refused.  Actions are the endpoints of router.py that call them.     *)
(* An evaluation is known by its created_at, the start of the transaction  *)
(* that inserts it, which need not be the order of the commits.            *)
(***************************************************************************)
EXTENDS Session, Naturals, FiniteSets

CONSTANTS
    Submissions,     \* bound: submissions of the learner
    Packages,        \* what a submission holds
    MaxEvaluations   \* bound: evaluations inserted

VARIABLES
    sub,         \* assessment_submissions
    evaluation,  \* assessment_evaluations, by created_at
    clock,       \* created_at of the newest evaluation begun
    earlier      \* history: the submissions a new one was numbered after

submissionRows == <<sub, evaluation, clock, earlier>>

Status == {"draft", "submitted", "under_review", "graded", "revision_requested"}
Times == 1 .. MaxEvaluations

SubmissionRow == [version : Nat, status : Status, package : Packages]
EvaluationRow == [of : Submissions, finalized : BOOLEAN]

ASSUME SubmissionAssumption ==
    /\ IsFiniteSet(Submissions)
    /\ None \notin Submissions \cup SubmissionRow \cup EvaluationRow
    /\ MaxEvaluations \in Nat

SubmissionTypeOK ==
    /\ sub \in [Submissions -> SubmissionRow \cup {None}]
    /\ evaluation \in [Times -> EvaluationRow \cup {None}]
    /\ clock \in Nat
    /\ earlier \in [Submissions -> SUBSET Submissions]
    /\ \A t \in Times : evaluation[t] # None => t <= clock /\ sub[evaluation[t].of] # None

-----------------------------------------------------------------------------
Existing == {i \in Submissions : sub[i] # None}

MutantNumbering(package, submit) ==
    [version |-> Cardinality({i \in Existing : sub[i].status # "draft"}) + 1,
     status |-> IF submit THEN "submitted" ELSE "draft", package |-> package]

create_submission(package, submit) ==
    [version |-> Cardinality(Existing) + 1,
     status |-> IF submit THEN "submitted" ELSE "draft", package |-> package]

MutantEditAnything(s, package) == [s EXCEPT !.package = package]

update_submission(s, package) ==
    IF s.status \in {"draft", "revision_requested"} THEN [s EXCEPT !.package = package]
    ELSE Refused

submit_submission(s) == [s EXCEPT !.status = "submitted"]

evaluate_submission(s) ==
    IF s.status = "draft" THEN Refused ELSE [s EXCEPT !.status = "under_review"]

finalize_grade(s) == [s EXCEPT !.status = "graded"]

request_revision(s) == [s EXCEPT !.status = "revision_requested"]

EvaluationsOf(i) == {t \in Times : evaluation[t] # None /\ evaluation[t].of = i}

MutantEarliestEvaluation(i) ==
    {t \in EvaluationsOf(i) : \A u \in EvaluationsOf(i) : t <= u}

latest_evaluation(i) == {t \in EvaluationsOf(i) : \A u \in EvaluationsOf(i) : u <= t}

-----------------------------------------------------------------------------
SubmissionInit ==
    /\ SessionInit
    /\ sub = [i \in Submissions |-> None]
    /\ evaluation = [t \in Times |-> None]
    /\ clock = 0
    /\ earlier = [i \in Submissions |-> {}]

\* A request that touches the evaluations of `times`, or with none inserts one.
Review(q, i, new, times, finalize) ==
    /\ sub[i] # None /\ new # Refused
    /\ times = {} => clock < MaxEvaluations
    /\ clock' = IF times = {} THEN clock + 1 ELSE clock
    /\ Begin(q, [key |-> i, loaded |-> sub[i], set |-> new, after |-> {},
                 times |-> IF times = {} THEN {clock'} ELSE times, final |-> finalize])
    /\ UNCHANGED <<sub, evaluation, earlier>>

Edit(q, i, new) ==
    /\ sub[i] # None /\ new # Refused
    /\ Begin(q, [key |-> i, loaded |-> sub[i], set |-> new, after |-> {},
                 times |-> {}, final |-> FALSE])
    /\ UNCHANGED submissionRows

CreateSubmission(q, i, package, submit) ==
    /\ sub[i] = None
    /\ \A o \in Requests : req[o] # None => req[o].key # i
    /\ Begin(q, [key |-> i, loaded |-> None, set |-> create_submission(package, submit),
                 after |-> Existing, times |-> {}, final |-> FALSE])
    /\ UNCHANGED submissionRows

UpdateSubmission(q, i, package) == Edit(q, i, update_submission(sub[i], package))

SubmitSubmission(q, i) == Edit(q, i, submit_submission(sub[i]))

EvaluateSubmission(q, i) == Review(q, i, evaluate_submission(sub[i]), {}, FALSE)

FinalizeGrade(q, i) == Review(q, i, finalize_grade(sub[i]), latest_evaluation(i), TRUE)

RequestRevision(q, i) ==
    Review(q, i, request_revision(sub[i]), latest_evaluation(i), FALSE)

\* The commit of each of these endpoints.
CommitSubmission(q) ==
    /\ End(q)
    /\ LET r == req[q]
       IN  /\ sub' = [sub EXCEPT ![r.key] =
                        IF r.loaded = None THEN r.set ELSE Flush(@, r.loaded, r.set)]
           /\ earlier' = [earlier EXCEPT ![r.key] = @ \cup r.after]
           /\ evaluation' = [t \in Times |->
                IF t \notin r.times THEN evaluation[t]
                ELSE [of |-> r.key, finalized |-> r.final \/ (/\ evaluation[t] # None
                                                      /\ evaluation[t].finalized)]]
    /\ UNCHANGED clock

AbortSubmission(q) == End(q) /\ UNCHANGED submissionRows

SubmissionNext ==
    \E q \in Requests :
        \/ \E i \in Submissions :
              \/ \E p \in Packages : \/ \E b \in BOOLEAN : CreateSubmission(q, i, p, b)
                                     \/ UpdateSubmission(q, i, p)
              \/ SubmitSubmission(q, i)
              \/ EvaluateSubmission(q, i)
              \/ FinalizeGrade(q, i)
              \/ RequestRevision(q, i)
        \/ CommitSubmission(q)
        \/ AbortSubmission(q)

SubmissionSpec == SubmissionInit /\ [][SubmissionNext]_<<session, submissionRows>>
-----------------------------------------------------------------------------
\* A submission has a higher number than each one that was there when its
\* request began, whatever other requests were in flight: the count taken at
\* service.py:447 may give two submissions one number, never the wrong order.
NumbersAscend ==
    \A i, j \in Submissions :
        sub[i] # None /\ j \in earlier[i] => sub[j].version < sub[i].version

\* Of a graded submission the evaluation a reader is shown, the latest one, is
\* final, unless two requests crossed on it (service.py:581).
GradedIsFinal ==
    \A i \in Submissions \ crossed :
        sub[i] # None /\ sub[i].status = "graded" =>
            \E t \in EvaluationsOf(i) :
                /\ evaluation[t].finalized
                /\ \A u \in EvaluationsOf(i) : u <= t

\* What was handed in changes only while it is a draft or a revision is asked
\* for (service.py:480), unless two requests crossed on it.
SubmittedIsFrozen ==
    [][\A i \in Submissions \ crossed :
          sub[i] # None /\ sub[i].status \notin {"draft", "revision_requested"} =>
              sub'[i].package = sub[i].package]_<<session, submissionRows>>
=============================================================================
