------------------------------ MODULE Quizzes ------------------------------
(***************************************************************************)
(* A quiz on a node that stays, its questions, and a learner's attempts    *)
(* (assessments, questions and attempts of modules/content/service.py and  *)
(* router.py).  Authors may edit questions at any time; an attempt is      *)
(* graded when it is submitted and never again.                            *)
(***************************************************************************)
EXTENDS Session, Naturals, FiniteSets

CONSTANTS
    Questions,   \* bound: questions of the quiz
    Answers      \* answers, as _normalize makes them comparable

ASSUME QuizzesAssumption ==
    /\ IsFiniteSet(Questions)
    /\ {"quiz", "attempt"} \cap Questions = {} /\ {"essay", "gone", None} \cap Answers = {}

VARIABLES
    quiz,       \* the assessment is there
    question,   \* answer_key of each question: "essay" without a correct answer,
                \* None before it is added, "gone" once it is deleted
    attempt     \* the attempt committed last, or None

quizRows == <<quiz, question, attempt>>

AnswerKeys == [Questions -> Answers \cup {"essay", "gone", None}]
There(u) == question[u] \notin {None, "gone"}
Responses == [Questions -> Answers \cup {None}]

Gradable(keys) == {u \in Questions : keys[u] \in Answers}

\* A fraction of the gradable questions; None if there are none.
grade_responses(keys, responses) ==
    IF Gradable(keys) = {} THEN None
    ELSE [right |-> Cardinality({u \in Gradable(keys) : responses[u] = keys[u]}),
          of |-> Cardinality(Gradable(keys))]

\* A score is a fraction of the questions, and of at least one; an attempt hangs
\* on a quiz.
QuizzesTypeOK ==
    /\ quiz \in BOOLEAN /\ question \in AnswerKeys
    /\ ~quiz => attempt = None /\ \A u \in Questions : question[u] = None
    /\ attempt # None =>
          /\ attempt.responses \in Responses
          /\ attempt.score # None =>
                /\ attempt.score.of \in 1 .. Cardinality(Questions)
                /\ attempt.score.right \in 0 .. attempt.score.of

-----------------------------------------------------------------------------
QuizzesInit ==
    /\ SessionInit
    /\ quiz = FALSE
    /\ question = [u \in Questions |-> None]
    /\ attempt = None

CreateAssessment(q) ==
    /\ ~quiz     \* one quiz is followed
    /\ Begin(q, [key |-> "quiz", op |-> "create"])
    /\ UNCHANGED quizRows

AddQuestion(q, u, key) ==
    /\ quiz /\ question[u] = None
    /\ \A o \in Requests : req[o] # None => req[o].key # u
    /\ Begin(q, [key |-> u, op |-> "add", set |-> key])
    /\ UNCHANGED quizRows

UpdateQuestion(q, u, key) ==
    /\ There(u)
    /\ Begin(q, [key |-> u, op |-> "update", loaded |-> question[u], set |-> key])
    /\ UNCHANGED quizRows

DeleteQuestion(q, u) ==
    /\ There(u)
    /\ Begin(q, [key |-> u, op |-> "delete", set |-> "gone"])
    /\ UNCHANGED quizRows

\* One query reads the questions.
SubmitAttempt(q, responses) ==
    /\ quiz
    /\ Begin(q, [key |-> "attempt", op |-> "attempt",
                 set |-> [responses |-> responses,
                          score |-> grade_responses(question, responses)]])
    /\ UNCHANGED quizRows

\* An UPDATE that finds no row raises; so does no DELETE.
CommitQuiz(q) ==
    /\ End(q)
    /\ LET r == req[q]
       IN  CASE r.op = "create"  -> /\ ~quiz /\ quiz' = TRUE
                                    /\ UNCHANGED <<question, attempt>>
             [] r.op = "attempt" -> attempt' = r.set /\ UNCHANGED <<quiz, question>>
             [] OTHER ->
                  /\ r.op = "update" => There(r.key)
                  /\ question' = IF r.op = "update" /\ r.set = r.loaded THEN question
                                 ELSE [question EXCEPT ![r.key] = r.set]
                  /\ UNCHANGED <<quiz, attempt>>

AbortQuiz(q) == End(q) /\ UNCHANGED quizRows

QuizzesNext ==
    \E q \in Requests :
        \/ CreateAssessment(q)
        \/ \E u \in Questions :
              \/ \E key \in Answers \cup {"essay"} : AddQuestion(q, u, key)
                                                     \/ UpdateQuestion(q, u, key)
              \/ DeleteQuestion(q, u)
        \/ \E responses \in Responses : SubmitAttempt(q, responses)
        \/ CommitQuiz(q)
        \/ AbortQuiz(q)

QuizzesSpec == QuizzesInit /\ [][QuizzesNext]_<<session, quizRows>>
=============================================================================
