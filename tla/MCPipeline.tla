---------------------------- MODULE MCPipeline ------------------------------
(***************************************************************************)
(* Designing a course with the stages: settings, runs, and the approvals   *)
(* that do not write the learning graph (those are in Promotion).  The     *)
(* parts change no rows in common; the instance follows one of them at a    *)
(* time, chosen in Init, with two requests.                                *)
(***************************************************************************)
EXTENDS Settings, StageRuns, Outcomes, Design

CONSTANTS
    Parts,          \* the modules a run follows
    s1, s2, s3, k1

VARIABLE part

\* Each member typed, echoed or deleted, and a form that comes back whole.
SmallPatches ==
    {[NoPatch EXCEPT !.key = k] : k \in {k1, "delete", "blank"}}
        \cup {[NoPatch EXCEPT !.url = u] : u \in {"url", "delete"}}
        \cup {[NoPatch EXCEPT !.prompt = "prompt"],
              [key |-> "masked", url |-> "url", prompt |-> "prompt"]}

Item(code, statement, original) ==
    [code |-> code, statement |-> statement, original |-> original]

\* By code and by place, an item without a wording, one that claims an original,
\* and one that finds no row, behind two that find the same.
SmallReviews ==
    { <<Item(1, s2, None), Item(2, s3, None)>>,
      <<Item(2, s2, None), Item(None, s1, None)>>,
      <<Item(None, None, None), Item(1, s2, None)>>,
      <<Item(1, s1, s2)>>,
      <<Item(2, s2, None), Item(1, s3, None), Item(None, s2, None)>> }

SmallIntakes == {<<[code |-> 1, statement |-> s2], [code |-> 2, statement |-> s2]>>}

Init ==
    /\ part \in Parts
    /\ SettingsInit /\ StageRunsInit /\ OutcomesInit /\ DesignInit
    /\ part # "outcomes" => outcome = <<>>
    /\ \A i \in DOMAIN outcome : outcome[i].statement = s1

Next ==
    /\ UNCHANGED part
    /\ \/ /\ part = "settings"
          /\ SettingsNext
          /\ UNCHANGED <<stageRunRows, outcomeRows, designRows>>
       \/ /\ part = "runs"
          /\ StageRunsNext
          /\ UNCHANGED <<settingsRows, outcomeRows, designRows>>
       \/ /\ part = "outcomes"
          /\ OutcomesNext
          /\ UNCHANGED <<settingsRows, stageRunRows, designRows>>
       \/ /\ part = "design"
          /\ AssessmentNext
          /\ UNCHANGED <<settingsRows, stageRunRows, outcomeRows>>
       \/ /\ part = "effort"
          /\ EffortNext
          /\ UNCHANGED <<settingsRows, stageRunRows, outcomeRows>>

vars == <<part, session, settingsRows, stageRunRows, outcomeRows, designRows>>

Spec == Init /\ [][Next]_vars

Symmetry == Permutations(Requests)

\* Nothing is stored that nobody said: no mask for a key, no text marked live
\* that is not, no subtopic under an outcome of another code.
TypeOK == SettingsTypeOK /\ StageRunsTypeOK /\ OutcomesTypeOK /\ DesignTypeOK
=============================================================================
