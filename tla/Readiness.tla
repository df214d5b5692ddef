----------------------------- MODULE Readiness -----------------------------
(***************************************************************************)
(* Whether a learner is ready for a contribution assessment: the context   *)
(* profile and its review, the evidence handed in for nodes, and the check *)
(* that puts both together (modules/blueprint/service.py, router.py).      *)
(* One learner, one assessment; the required nodes exist in the version.   *)
(***************************************************************************)
EXTENDS Session, Naturals

CONSTANTS
    Required,   \* nodes the assessment's readiness gate names
    Texts,      \* context profiles a learner may write
    Evidence    \* evidence a learner may hand in: which parts it has

ASSUME ReadinessAssumption ==
    /\ Evidence \subseteq [reflection : BOOLEAN, decision : BOOLEAN, other : BOOLEAN]
    /\ {"profile", None} \cap Required = {}
    /\ None \notin Texts \cup [text : Texts, status : {"submitted", "approved", "rejected"}]

VARIABLES
    profile,    \* assessment_context_profiles: the one row, or None
    progress,   \* node_progress of the required nodes: state and readiness_state;
                \* None where the version got the node after the learner enrolled
    last,       \* node_evidence: readiness of the evidence committed last
    shown       \* history: the text the last review to decide had read

readinessRows == <<profile, progress, last, shown>>

ReadinessState == {"not_ready", "partially_ready", "ready", "advanced"}

ProfileRow == [text : Texts, status : {"submitted", "approved", "rejected"}]
ProgressRow == [state : {"locked", "available", "completed", "mastered"},
                readiness : ReadinessState \cup {None}]

ASSUME ProgressRowAssumption == None \notin ProgressRow

ReadinessTypeOK ==
    /\ profile \in ProfileRow \cup {None}
    /\ progress \in [Required -> ProgressRow \cup {None}]
    /\ last \in [Required -> ReadinessState \cup {None}]
    /\ shown \in Texts \cup {None}
    /\ profile # None /\ profile.status = "approved" => shown # None

-----------------------------------------------------------------------------
MutantKeepsStatus(row, text) ==
    IF row = None THEN [text |-> text, status |-> "submitted"] ELSE [row EXCEPT !.text = text]

MutantPreApproved(row, text) == [text |-> text, status |-> "approved"]

submit_context_profile(row, text) == [text |-> text, status |-> "submitted"]

review_context_profile(row, approve) ==
    [row EXCEPT !.status = IF approve THEN "approved" ELSE "rejected"]

\* A state the learner claims wins over what the evidence shows.
derive_readiness(e, provided) ==
    IF provided # None THEN provided
    ELSE IF e.reflection /\ e.decision THEN "ready"
    ELSE IF e.reflection \/ e.decision \/ e.other THEN "partially_ready"
    ELSE "not_ready"

MutantKeepBetter(row, readiness) ==
    IF row = None \/ row.readiness = "ready" THEN row
    ELSE [row EXCEPT !.readiness = readiness]

\* Without a progress row the evidence is kept and nothing mirrors it.
submit_node_evidence(row, readiness) ==
    IF row = None THEN None ELSE [row EXCEPT !.readiness = readiness]

Done(n) == progress[n] # None /\ progress[n].state \in {"completed", "mastered"}

NodeReady(n) ==
    \/ Done(n)
    \/ progress[n] # None /\ progress[n].readiness \in {"ready", "advanced"}

check_readiness ==
    LET nodes   == \A n \in Required : NodeReady(n)
        context == profile # None /\ profile.status = "approved"
    IN  CASE nodes /\ context -> "ready_to_submit"
          [] ~nodes /\ ~context -> "not_ready"
          [] OTHER -> "needs_targeted_support"

-----------------------------------------------------------------------------
ReadinessInit ==
    /\ SessionInit
    /\ profile = None
    /\ progress \in [Required -> {[state |-> "locked", readiness |-> None], None}]
    /\ last = [n \in Required |-> None]
    /\ shown = None

\* The session loads the profile (or none) and will write `row`.
BeginProfile(q, row, op) ==
    /\ Begin(q, [key |-> "profile", op |-> op, loaded |-> profile, set |-> row])
    /\ UNCHANGED readinessRows

SubmitContextProfile(q, text) ==
    BeginProfile(q, submit_context_profile(profile, text), "submit")

ReviewContextProfile(q, approve) ==
    /\ profile # None
    /\ BeginProfile(q, review_context_profile(profile, approve), "review")

\* The node may be locked: only that it is of the pinned version is checked.
SubmitNodeEvidence(q, n, e, provided) ==
    /\ LET state == derive_readiness(e, provided)
       IN  Begin(q, [key |-> n, op |-> "evidence", loaded |-> progress[n],
                     set |-> submit_node_evidence(progress[n], state), state |-> state])
    /\ UNCHANGED readinessRows

\* complete_node moves the traversal state of the same row (Progress.tla has its
\* steps): the row opens and is completed, a retry masters it or takes that back,
\* and the stale unlock of another request makes a row "available" whatever it is
\* by then (enrollment/service.py:496).
Traverse(n) ==
    /\ progress[n] # None
    /\ \E to \in [locked    |-> {"available"},
                 available |-> {"completed", "mastered"},
                 completed |-> {"mastered", "available"},
                 mastered  |-> {"completed", "available"}][progress[n].state] :
          progress' = [progress EXCEPT ![n].state = to]
    /\ UNCHANGED <<session, profile, last, shown>>

\* unique: (assessment, enrollment): of two first profiles one is refused.
CommitProfile(q) ==
    /\ End(q)
    /\ req[q].key = "profile"
    /\ req[q].loaded = None => profile = None
    /\ profile' = IF profile = None THEN req[q].set
                  ELSE Flush(profile, req[q].loaded, req[q].set)
    /\ shown' = IF req[q].op = "review" THEN req[q].loaded.text ELSE shown
    /\ UNCHANGED <<progress, last>>

CommitEvidence(q) ==
    /\ End(q)
    /\ req[q].op = "evidence"
    /\ LET n == req[q].key
       IN  /\ progress' = IF req[q].loaded = None THEN progress
                          ELSE [progress EXCEPT ![n] = Flush(@, req[q].loaded, req[q].set)]
           /\ last' = [last EXCEPT ![n] = req[q].state]
    /\ UNCHANGED <<profile, shown>>

AbortReadiness(q) == End(q) /\ UNCHANGED readinessRows

ReadinessNext ==
    \/ \E q \in Requests :
          \/ \E text \in Texts : SubmitContextProfile(q, text)
          \/ \E approve \in BOOLEAN : ReviewContextProfile(q, approve)
          \/ \E n \in Required, e \in Evidence, p \in {None, "advanced"} :
                SubmitNodeEvidence(q, n, e, p)
          \/ CommitProfile(q)
          \/ CommitEvidence(q)
          \/ AbortReadiness(q)
    \/ \E n \in Required : Traverse(n)

ReadinessSpec == ReadinessInit /\ [][ReadinessNext]_<<session, readinessRows>>
-----------------------------------------------------------------------------
\* An approved context profile is the text its reviewer's request had loaded,
\* unless two requests crossed on the row (service.py:182): a new text takes the
\* approval of the old one back.
ApprovedWasRead ==
    "profile" \notin crossed /\ profile # None /\ profile.status = "approved" =>
        profile.text = shown

\* The readiness of a node, if it has a progress row, is the one of the evidence
\* committed last, unless two pieces of evidence for it crossed (service.py:291).
MirrorIsLatest ==
    \A n \in Required \ crossed :
        last[n] # None /\ progress[n] # None => progress[n].readiness = last[n]

\* Handing in evidence or a profile takes no completed work back: when all
\* required nodes are completed, no request of this workflow brings the check
\* back to "not_ready", even one that loaded the row before complete_node wrote
\* to it (service.py:290).  complete_node itself may (Traverse).
CompletionCounts ==
    [][(\A n \in Required : Done(n)) /\ session' # session =>
          check_readiness' # "not_ready"]_<<session, readinessRows>>
=============================================================================
