------------------------------- MODULE Credit -------------------------------
(***************************************************************************)
(* Mastery credits: recommended, approved, redeemed (modules/blueprint/    *)
(* service.py, router.py).  Approval looks at nothing; redemption checks   *)
(* the status it loaded and writes later.                                  *)
(***************************************************************************)
EXTENDS Session, Naturals, FiniteSets

CONSTANTS
    Credits,        \* bound: credits
    Purposes,       \* what a credit can be redeemed for
    MaxApprovals    \* bound: approvals of a credit

VARIABLES
    credit,      \* mastery_credits
    approvals,   \* history: approvals of a credit that committed
    spent        \* history: redemptions of a credit that committed

creditRows == <<credit, approvals, spent>>

CreditRow == [status : {"recommended", "approved", "redeemed"}, purpose : Purposes \cup {None}]

ASSUME CreditAssumption ==
    /\ IsFiniteSet(Requests) /\ MaxApprovals \in Nat
    /\ None \notin CreditRow

CreditTypeOK ==
    /\ credit \in [Credits -> CreditRow \cup {None}]
    /\ approvals \in [Credits -> Nat]
    /\ spent \in [Credits -> Nat]

award_credit == [status |-> "recommended", purpose |-> None]

approve_credit(c) == [c EXCEPT !.status = "approved"]

MutantRedeemAgain(c, purpose) ==
    IF c.status = "recommended" THEN Refused
    ELSE [c EXCEPT !.status = "redeemed", !.purpose = purpose]

redeem_credit(c, purpose) ==
    IF c.status = "approved" THEN [c EXCEPT !.status = "redeemed", !.purpose = purpose]
    ELSE Refused

CreditInit ==
    /\ SessionInit
    /\ credit = [c \in Credits |-> None]
    /\ approvals = [c \in Credits |-> 0]
    /\ spent = [c \in Credits |-> 0]

BeginCredit(q, c, row, op) ==
    /\ row # Refused
    /\ Begin(q, [key |-> c, op |-> op, loaded |-> credit[c], set |-> row])
    /\ UNCHANGED creditRows

AwardCredit(q, c) ==
    /\ credit[c] = None
    /\ \A o \in Requests : req[o] # None => req[o].key # c
    /\ BeginCredit(q, c, award_credit, "award")

ApproveCredit(q, c) ==
    /\ credit[c] # None
    /\ approvals[c] < MaxApprovals
    /\ BeginCredit(q, c, approve_credit(credit[c]), "approve")

RedeemCredit(q, c, purpose) ==
    /\ credit[c] # None
    /\ BeginCredit(q, c, redeem_credit(credit[c], purpose), "redeem")

CommitCredit(q) ==
    /\ End(q)
    /\ LET r == req[q]
           Counted(op) == IF r.op = op THEN 1 ELSE 0
       IN  /\ credit' = [credit EXCEPT ![r.key] =
                           IF @ = None THEN r.set ELSE Flush(@, r.loaded, r.set)]
           /\ approvals' = [approvals EXCEPT ![r.key] = @ + Counted("approve")]
           /\ spent' = [spent EXCEPT ![r.key] = @ + Counted("redeem")]

AbortCredit(q) == End(q) /\ UNCHANGED creditRows

CreditNext ==
    \E q \in Requests :
        \/ \E c \in Credits : \/ AwardCredit(q, c)
                              \/ ApproveCredit(q, c)
                              \/ \E p \in Purposes : RedeemCredit(q, c, p)
        \/ CommitCredit(q)
        \/ AbortCredit(q)

CreditSpec == CreditInit /\ [][CreditNext]_<<session, creditRows>>
-----------------------------------------------------------------------------
\* An approval pays once: a credit is not redeemed more often than it was
\* approved.  Where requests on it have crossed, each request that could be in
\* flight may have spent the same approval (service.py:820), and no more.
SpendingIsBounded ==
    \A c \in Credits :
        spent[c] <= approvals[c] * (IF c \in crossed THEN Cardinality(Requests) ELSE 1)
=============================================================================
