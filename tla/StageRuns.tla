----------------------------- MODULE StageRuns ------------------------------
(***************************************************************************)
(* Running the stages of one course (modules/stages/service.py) with a     *)
(* model or a council of models (modules/ai/council.py).  A run is one     *)
(* transaction: it reads the newest runs of its input stages one by one,   *)
(* waits for the models, and is seen by others when it commits.            *)
(*                                                                         *)
(* created_at is the start of the transaction, so runs are numbered by it. *)
(* Reviews are those of Promotion; no run asks for the review of another.  *)
(***************************************************************************)
EXTENDS Session, Naturals, Sequences, FiniteSets

CONSTANTS
    Stages,     \* bound: the stages that are run; aliases of a key are the key
    Members,    \* models of the council
    MaxRuns     \* bound: runs of the course

StageSpec(key, inputs, risk) == [key |-> key, inputs |-> inputs, risk |-> risk]

\* In their order; a stage without an artifact of an input does without.
STAGE_REGISTRY == <<
    StageSpec("intake", <<>>, "low"),
    StageSpec("clo_review", <<"intake">>, "high"),
    StageSpec("assessment_redesign", <<"intake", "clo_review">>, "high"),
    StageSpec("assessment_weighting", <<"assessment_redesign", "clo_review">>, "high"),
    StageSpec("assessment_integrity",
              <<"assessment_redesign", "assessment_weighting">>, "high"),
    StageSpec("subtopic_architecture", <<"clo_review", "assessment_redesign">>, "low"),
    StageSpec("mastery_nodes", <<"subtopic_architecture", "clo_review">>, "low"),
    StageSpec("node_evidence_logic", <<"mastery_nodes">>, "low"),
    StageSpec("node_relationships", <<"mastery_nodes">>, "low"),
    StageSpec("ai_companion", <<"mastery_nodes", "node_evidence_logic">>, "low"),
    StageSpec("readiness_gate",
              <<"mastery_nodes", "assessment_redesign", "assessment_integrity">>, "high"),
    StageSpec("assessment_submission",
              <<"assessment_redesign", "assessment_weighting", "readiness_gate">>, "low"),
    StageSpec("feedback_grading", <<"assessment_submission", "assessment_weighting">>, "high"),
    StageSpec("contribution_preparation",
              <<"feedback_grading", "assessment_redesign">>, "low"),
    StageSpec("verified_contribution", <<"contribution_preparation">>, "high"),
    StageSpec("mastery_credits", <<"mastery_nodes", "verified_contribution">>, "low"),
    StageSpec("learning_hours",
              <<"clo_review", "subtopic_architecture", "mastery_nodes">>, "low"),
    StageSpec("analytics", <<"mastery_nodes", "assessment_redesign">>, "low") >>

Order(s) == CHOOSE k \in DOMAIN STAGE_REGISTRY : STAGE_REGISTRY[k].key = s
Inputs == [s \in Stages |-> STAGE_REGISTRY[Order(s)].inputs]
HighRisk == {s \in Stages : STAGE_REGISTRY[Order(s)].risk = "high"}
InputKeys == UNION {{Inputs[s][k] : k \in DOMAIN Inputs[s]} : s \in Stages}

ASSUME StageRunsAssumption ==
    /\ MaxRuns \in Nat /\ IsFiniteSet(Members)
    /\ Stages \subseteq {spec.key : spec \in {STAGE_REGISTRY[k] : k \in DOMAIN STAGE_REGISTRY}}

\* A key names one stage, and a stage is given artifacts of earlier ones only.
ASSUME RegistryIsOrdered ==
    \A k \in DOMAIN STAGE_REGISTRY :
        /\ Order(STAGE_REGISTRY[k].key) = k
        /\ STAGE_REGISTRY[k].inputs \in Seq(STRING)
        /\ \A i \in DOMAIN STAGE_REGISTRY[k].inputs :
              \E j \in 1 .. k - 1 : STAGE_REGISTRY[j].key = STAGE_REGISTRY[k].inputs[i]

RunIds == 1 .. MaxRuns

VARIABLES
    stage_run,   \* stage_runs
    opened,      \* runs begun
    seen         \* history: for a stage and an input, the run gathered last

stageRunRows == <<stage_run, opened, seen>>

StageRun ==
    [stage : Stages, upstream : Seq(RunIds \cup {0}),
     status : {"succeeded", "failed"}, text : {"live", "stub", None}, stubbed : BOOLEAN,
     review_status : {"auto_ok", "needs_review"}]

\* Artifacts come from runs that started before or while the run did, each of its
\* stage and succeeded; and text that is not marked as stubbed is a live model's.
StageRunsTypeOK ==
    /\ stage_run \in [RunIds -> StageRun \cup {None}]
    /\ opened \in 0 .. MaxRuns
    /\ seen \in [Stages \X InputKeys -> 0 .. MaxRuns]
    /\ \A n \in RunIds : stage_run[n] # None =>
          LET run == stage_run[n]
          IN  /\ n <= opened
              /\ Len(run.upstream) = Len(Inputs[run.stage])
              /\ \A k \in DOMAIN run.upstream : run.upstream[k] # 0 =>
                    LET up == stage_run[run.upstream[k]]
                    IN  up # None /\ up.status = "succeeded" /\ up.stage = Inputs[run.stage][k]
              /\ run.status = "succeeded" /\ ~run.stubbed => run.text = "live"

-----------------------------------------------------------------------------
(* What the models answer: "live", the offline "stub", or an exception.    *)
(* The client turns an error of a provider into a stub (ai/client.py:87),  *)
(* so the last is what its callers guard against, not what it does today.  *)

Answers == {"live", "stub", "error"}
FailedRun == [status |-> "failed", text |-> None, stubbed |-> FALSE]

run_single(answer) ==
    IF answer = "error" THEN FailedRun
    ELSE [status |-> "succeeded", text |-> answer, stubbed |-> answer = "stub"]

\* Members that fail are dropped; nobody is left: the chairman answers alone; one:
\* that answer is taken; more: the chairman merges them.
run_council(answer, chairman) ==
    LET successful == {m \in Members : answer[m] # "error"}
    IN  CASE successful = {} -> run_single(chairman)
          [] Cardinality(successful) = 1 ->
                run_single(answer[CHOOSE m \in successful : TRUE])
          [] OTHER ->
                IF chairman = "error" THEN FailedRun
                ELSE [status |-> "succeeded", text |-> chairman,
                      stubbed |-> \/ chairman = "stub"
                                  \/ \A m \in successful : answer[m] = "stub"]

Results ==
    {run_single(a) : a \in Answers}
        \cup {run_council(f, c) : f \in [Members -> Answers], c \in Answers}

Succeeded(s) == {n \in RunIds : /\ stage_run[n] # None /\ stage_run[n].stage = s
                                /\ stage_run[n].status = "succeeded"}

MutantOldest(s) ==
    IF Succeeded(s) = {} THEN 0 ELSE CHOOSE n \in Succeeded(s) : \A m \in Succeeded(s) : n <= m

\* By created_at, whatever the review of the run has said.
latest_succeeded(s) ==
    IF Succeeded(s) = {} THEN 0 ELSE CHOOSE n \in Succeeded(s) : \A m \in Succeeded(s) : m <= n

-----------------------------------------------------------------------------
StageRunsInit ==
    /\ SessionInit
    /\ stage_run = [n \in RunIds |-> None]
    /\ opened = 0
    /\ seen = [x \in Stages \X InputKeys |-> 0]

OpenRun(q, s) ==
    /\ opened < MaxRuns
    /\ opened' = opened + 1
    /\ Begin(q, [key |-> "run", run |-> opened', stage |-> s, upstream |-> <<>>])
    /\ UNCHANGED <<stage_run, seen>>

\* _gather_upstream: the next input of the stage.
Gather(q) ==
    /\ req[q] # None
    /\ req[q].key = "run"
    /\ LET s == req[q].stage
           k == Len(req[q].upstream) + 1
       IN  /\ k <= Len(Inputs[s])
           /\ LET up == latest_succeeded(Inputs[s][k])
              IN  /\ req' = [req EXCEPT ![q].upstream = Append(@, up)]
                  /\ seen' = [seen EXCEPT ![<<s, Inputs[s][k]>>] = up]
    /\ UNCHANGED <<crossed, stage_run, opened>>

CommitRun(q) ==
    /\ End(q)
    /\ req[q].key = "run"
    /\ LET r == req[q]
       IN  /\ Len(r.upstream) = Len(Inputs[r.stage])
           /\ \E result \in Results :
                 stage_run' = [stage_run EXCEPT ![r.run] =
                    [stage |-> r.stage, upstream |-> r.upstream, status |-> result.status,
                     text |-> result.text, stubbed |-> result.stubbed,
                     review_status |-> IF result.status = "succeeded" /\ r.stage \in HighRisk
                                       THEN "needs_review" ELSE "auto_ok"]]
    /\ UNCHANGED <<opened, seen>>

AbortRun(q) == End(q) /\ UNCHANGED stageRunRows

StageRunsNext ==
    \E q \in Requests :
        \/ \E s \in Stages : OpenRun(q, s)
        \/ Gather(q)
        \/ CommitRun(q)
        \/ AbortRun(q)

StageRunsSpec == StageRunsInit /\ [][StageRunsNext]_<<session, stageRunRows>>
-----------------------------------------------------------------------------
\* Re-running a stage never takes an artifact back: its runs gather, in the order
\* they gather, runs of each input that started later and later, however long the
\* models keep the runs between (service.py:57).
UpstreamNeverGoesBack ==
    [][\A s \in Stages, t \in InputKeys : seen'[<<s, t>>] >= seen[<<s, t>>]]_<<session, stageRunRows>>
=============================================================================
