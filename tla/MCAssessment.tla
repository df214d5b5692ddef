---------------------------- MODULE MCAssessment ----------------------------
(***************************************************************************)
(* The assessment workflow of one learner: readiness, submissions,         *)
(* contribution, credits.  The four keep no state in common and check      *)
(* nothing of one another (create_submission does not ask check_readiness),*)
(* so each behaviour of the product is one behaviour of each: the instance *)
(* follows one of them at a time, chosen in Init, with two requests.       *)
(***************************************************************************)
EXTENDS Submission, Readiness, Contribution, Credit, TLC

VARIABLE part

Parts == {"submission", "readiness", "contribution", "credit"}

\* No evidence, and evidence that shows readiness; "partially_ready" gates as
\* "not_ready" does.
NoneOrFull == {[reflection |-> b, decision |-> b, other |-> b] : b \in BOOLEAN}

Init ==
    /\ part \in Parts
    /\ SubmissionInit /\ ReadinessInit /\ ContributionInit /\ CreditInit

Next ==
    /\ UNCHANGED part
    /\ \/ /\ part = "submission"
          /\ SubmissionNext
          /\ UNCHANGED <<readinessRows, contributionRows, creditRows>>
       \/ /\ part = "readiness"
          /\ ReadinessNext
          /\ UNCHANGED <<submissionRows, contributionRows, creditRows>>
       \/ /\ part = "contribution"
          /\ ContributionNext
          /\ UNCHANGED <<submissionRows, readinessRows, creditRows>>
       \/ /\ part = "credit"
          /\ CreditNext
          /\ UNCHANGED <<submissionRows, readinessRows, contributionRows>>

vars == <<part, session, submissionRows, readinessRows, contributionRows, creditRows>>

Spec == Init /\ [][Next]_vars

\* Texts, visibilities and purposes are the model values that name submissions in
\* the part of these, and credits those of packages: one group is enough.
Symmetry ==
    Permutations(Requests) \cup Permutations(Submissions) \cup Permutations(Packages)

\* Every table of the workflow is well formed: no evaluation without its
\* submission, no approved profile nobody has read.
TypeOK == SubmissionTypeOK /\ ReadinessTypeOK /\ ContributionTypeOK /\ CreditTypeOK
=============================================================================
