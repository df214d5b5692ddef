---------------------------- MODULE Contribution ----------------------------
(***************************************************************************)
(* The contribution version a learner prepares from a submission, and its  *)
(* verification by an expert (modules/blueprint/service.py, router.py).    *)
(* Learner and expert write to one row.  Consent, visibility and           *)
(* verification are the columns kept here; neither side reads the columns  *)
(* of the other before it writes.                                          *)
(***************************************************************************)
EXTENDS Session

CONSTANTS Visibilities   \* visibility levels

VARIABLES
    contribution,   \* contribution_versions: the row, or None
    wish            \* history: the consent the learner asked for last

contributionRows == <<contribution, wish>>

ContributionRow == [consent : BOOLEAN, visibility : Visibilities,
                    verification : {"pending", "verified", "rejected"}]

ASSUME ContributionAssumption == None \notin ContributionRow

ContributionTypeOK ==
    /\ contribution \in ContributionRow \cup {None}
    /\ wish \in BOOLEAN

prepare_contribution(consent, level) ==
    [consent |-> consent, visibility |-> level, verification |-> "pending"]

\* Whatever fields the request gives; the verification stays.
update_contribution(row, consent, level) ==
    [row EXCEPT !.consent = consent, !.visibility = level]

verify_contribution(row, status, level) ==
    [row EXCEPT !.verification = status, !.visibility = level]

ContributionInit ==
    /\ SessionInit
    /\ contribution = None
    /\ wish = FALSE

\* The author: "learner" or "expert".
BeginContribution(q, author, row) ==
    /\ Begin(q, [key |-> author, loaded |-> contribution, set |-> row])
    /\ UNCHANGED contributionRows

PrepareContribution(q, consent, level) ==
    /\ contribution = None
    /\ BeginContribution(q, "learner", prepare_contribution(consent, level))

UpdateContribution(q, consent, level) ==
    /\ contribution # None
    /\ BeginContribution(q, "learner", update_contribution(contribution, consent, level))

VerifyContribution(q, status, level) ==
    /\ contribution # None
    /\ BeginContribution(q, "expert", verify_contribution(contribution, status, level))

CommitContribution(q) ==
    /\ End(q)
    /\ req[q].loaded = None => contribution = None   \* one row is followed
    /\ contribution' = IF contribution = None THEN req[q].set
                       ELSE Flush(contribution, req[q].loaded, req[q].set)
    /\ wish' = IF req[q].key = "learner" THEN req[q].set.consent ELSE wish

AbortContribution(q) == End(q) /\ UNCHANGED contributionRows

ContributionNext ==
    \E q \in Requests :
        \/ \E level \in Visibilities :
              \/ \E consent \in BOOLEAN : PrepareContribution(q, consent, level)
                                          \/ UpdateContribution(q, consent, level)
              \/ \E status \in {"pending", "verified", "rejected"} :
                    VerifyContribution(q, status, level)
        \/ CommitContribution(q)
        \/ AbortContribution(q)

ContributionSpec == ContributionInit /\ [][ContributionNext]_<<session, contributionRows>>
-----------------------------------------------------------------------------
\* Consent is the learner's: whatever verifications cross with it, the row holds
\* the consent of the learner's request committed last, unless two requests of
\* the learner crossed (service.py:679, 697).
ConsentIsTheLearners ==
    "learner" \notin crossed /\ contribution # None => contribution.consent = wish
=============================================================================
