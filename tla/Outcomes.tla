------------------------------ MODULE Outcomes ------------------------------
(***************************************************************************)
(* The learning outcomes (CLOs) of a course and a subtopic under one, as   *)
(* approving stage runs changes them: intake, clo_review and               *)
(* subtopic_architecture (courses/service.py, blueprint/promotion.py).     *)
(* A code "CLO-n" is the number n.  Items of artifacts are objects.        *)
(***************************************************************************)
EXTENDS Session, Naturals, SequencesExt

CONSTANTS
    Wordings,      \* statements
    Intakes,       \* artifacts of intake: sequences of items as normalized
    Reviews,       \* artifacts of clo_review: sequences of items
    Subtopics,     \* codes an artifact of subtopic_architecture names
    MaxOutcomes,   \* bound: outcomes of the course, and items of an artifact
    MaxApprovals   \* bound: approvals of intake and clo_review

Codes == 1 .. MaxOutcomes
Placeholder == "(refined outcome)"
Statements == Wordings \cup {Placeholder}

IntakeItem == [code : Codes, statement : Wordings]

\* Any of its members may be missing.
ReviewItem ==
    [code : Codes \cup {None}, statement : Wordings \cup {None}, original : Wordings \cup {None}]

ASSUME OutcomesAssumption ==
    /\ MaxOutcomes \in Nat /\ MaxOutcomes >= 2
    /\ MaxApprovals \in Nat /\ Subtopics \subseteq Codes
    /\ \A a \in Intakes : a \in Seq(IntakeItem) /\ Len(a) <= MaxOutcomes
    /\ \A a \in Reviews : a \in Seq(ReviewItem) /\ Len(a) <= MaxOutcomes

VARIABLES
    outcome,     \* learning_outcomes, in the order of their inserts
    subtopic,    \* course_subtopics: the row, its outcome_id 0 for NULL, or None
    approvals,   \* approvals of intake and clo_review begun
    applied      \* history: the review artifact approved last, until two requests met

outcomeRows == <<outcome, subtopic, approvals, applied>>

\* `first` and `claimed` are history: the wording of the insert, and that an
\* artifact has given an original_statement itself.
OutcomeRow ==
    [code : Codes, position : 0 .. MaxOutcomes, statement : Statements,
     attributes : [original : Statements \cup {None}, refined : BOOLEAN],
     first : Statements, claimed : BOOLEAN]

SubtopicRow == [clo_code : Codes, outcome : 0 .. MaxOutcomes]

ASSUME OutcomeRowAssumption ==
    None \notin Codes /\ None \notin Statements /\ None \notin SubtopicRow /\ None \notin Reviews

\* A subtopic hangs on an outcome with its code, or on none, unless two reviews
\* wrote it at once, a column each.
OutcomesTypeOK ==
    /\ approvals \in 0 .. MaxApprovals
    /\ outcome \in Seq(OutcomeRow) /\ Len(outcome) <= MaxOutcomes
    /\ subtopic \in SubtopicRow \cup {None}
    /\ subtopic # None /\ subtopic.outcome # 0 =>
          /\ subtopic.outcome \in DOMAIN outcome
          /\ "subtopic" \notin crossed => outcome[subtopic.outcome].code = subtopic.clo_code

-----------------------------------------------------------------------------
NewOutcome(code, position, statement) ==
    [code |-> code, position |-> position, statement |-> statement, first |-> statement,
     attributes |-> [original |-> None, refined |-> FALSE], claimed |-> FALSE]

\* Adds the outcomes whose code is not there yet.
promote_intake(items) ==
    LET Add(table, item) ==
          IF \E i \in DOMAIN table : table[i].code = item.code THEN table
          ELSE Append(table, NewOutcome(item.code, Len(table), item.statement))
    IN  FoldLeft(Add, outcome, items)

\* The rows by position; created_at, the start of the transaction, parts two on one
\* position: by their inserts, but if requests met in either order.
Orders(table) ==
    {f \in [DOMAIN table -> DOMAIN table] :
        \A i, j \in DOMAIN table : i < j =>
            /\ f[i] # f[j]
            /\ \/ table[f[i]].position < table[f[j]].position
               \/ /\ table[f[i]].position = table[f[j]].position
                  /\ f[i] < f[j] \/ "outcomes" \in crossed}

MutantRefine(row, item) ==
    LET new == item.statement # None /\ item.statement # row.statement
    IN  [row EXCEPT !.statement = IF new THEN item.statement ELSE @,
                    !.attributes = [refined |-> TRUE,
                                    original |-> IF item.original # None THEN item.original
                                                 ELSE IF new THEN row.statement ELSE @.original],
                    !.claimed = @ \/ item.original # None]

\* setdefault keeps the first original_statement; that of the artifact goes over it.
Refine(row, item) ==
    LET new  == item.statement # None /\ item.statement # row.statement
        kept == row.attributes.original
    IN  [row EXCEPT !.statement = IF new THEN item.statement ELSE @,
                    !.attributes = [refined |-> TRUE,
                                    original |-> IF item.original # None THEN item.original
                                                 ELSE IF new /\ kept = None THEN row.statement
                                                 ELSE kept],
                    !.claimed = @ \/ item.original # None]

\* The row of item i: the last with its code, else the one in its place, else new.
RowOf(items, i, order) ==
    LET same == {k \in DOMAIN order : outcome[order[k]].code = items[i].code}
    IN  IF same # {} THEN order[Max(same)]
        ELSE IF i \in DOMAIN order THEN order[i] ELSE 0

apply_refined_clos(items, order) ==
    LET Take(table, i) ==
          LET item == items[i]
              row  == RowOf(items, i, order)
          IN  IF row # 0 THEN [table EXCEPT ![row] = Refine(@, item)]
              ELSE Append(table,
                     Refine(NewOutcome(IF item.code = None THEN i ELSE item.code, i - 1,
                                       IF item.statement = None THEN Placeholder
                                       ELSE item.statement), item))
    IN  FoldLeftDomain(Take, outcome, items)

-----------------------------------------------------------------------------
\* A course as its form leaves it, or the syllabus: positions in order.
OutcomesInit ==
    /\ SessionInit
    /\ \E n \in 0 .. 2 : \E w \in [1 .. n -> Wordings] :
          outcome = [i \in 1 .. n |-> NewOutcome(i, i - 1, w[i])]
    /\ subtopic = None
    /\ approvals = 0
    /\ applied = None

BeginOutcomes(q, items, table) ==
    /\ approvals < MaxApprovals
    /\ approvals' = approvals + 1
    /\ Begin(q, [key |-> "outcomes", of |-> items, loaded |-> outcome, set |-> table])
    /\ Len(table) <= MaxOutcomes
    /\ UNCHANGED <<outcome, subtopic, applied>>

ApproveIntake(q, items) == BeginOutcomes(q, None, promote_intake(items))

ApproveReview(q, items) ==
    \E order \in Orders(outcome) : BeginOutcomes(q, items, apply_refined_clos(items, order))

\* The outcome with the code of the artifact: of several, the last one read.
ApproveSubtopics(q, code) ==
    /\ \E id \in 0 .. MaxOutcomes :
          /\ IF \E i \in DOMAIN outcome : outcome[i].code = code
             THEN id \in DOMAIN outcome /\ outcome[id].code = code ELSE id = 0
          /\ Begin(q, [key |-> "subtopic", loaded |-> subtopic,
                       set |-> [clo_code |-> code, outcome |-> id]])
    /\ UNCHANGED outcomeRows

\* No constraint but the primary key: every insert succeeds.
CommitOutcomes(q) ==
    /\ End(q)
    /\ req[q].key = "outcomes"
    /\ LET r   == req[q]
           new == SubSeq(r.set, Len(r.loaded) + 1, Len(r.set))
       IN  /\ Len(outcome) + Len(new) <= MaxOutcomes
           /\ outcome' = [i \in DOMAIN outcome |->
                            IF i \in DOMAIN r.loaded THEN Flush(outcome[i], r.loaded[i], r.set[i])
                            ELSE outcome[i]] \o new
           /\ applied' = IF "outcomes" \in crossed THEN None ELSE r.of
    /\ UNCHANGED <<subtopic, approvals>>

\* Unique: the key of the subtopic.  Its columns are of one UPDATE.
CommitSubtopics(q) ==
    /\ End(q)
    /\ req[q].key = "subtopic"
    /\ req[q].loaded = None => subtopic = None
    /\ subtopic' = IF subtopic = None THEN req[q].set
                   ELSE Flush(subtopic, req[q].loaded, req[q].set)
    /\ UNCHANGED <<outcome, approvals, applied>>

AbortOutcomes(q) == End(q) /\ UNCHANGED outcomeRows

OutcomesNext ==
    \E q \in Requests :
        \/ \E items \in Intakes : ApproveIntake(q, items)
        \/ \E items \in Reviews : ApproveReview(q, items)
        \/ \E code \in Subtopics : ApproveSubtopics(q, code)
        \/ CommitOutcomes(q)
        \/ CommitSubtopics(q)
        \/ AbortOutcomes(q)

OutcomesSpec == OutcomesInit /\ [][OutcomesNext]_<<session, outcomeRows>>
-----------------------------------------------------------------------------
DistinctCodes(items) ==
    LET code(i) == IF items[i].code = None THEN i ELSE items[i].code
    IN  \A i, j \in DOMAIN items : code(i) = code(j) => i = j

\* Every outcome has its place as its position.
AtPlaces(table) == \A i \in DOMAIN table : table[i].position = i - 1

\* However runs are approved and approved again, unless two reviews met, the
\* wording an outcome came with is kept beside its refined one (service.py:455)
\* if no artifact claims another; and approving the last artifact once more would
\* change nothing (promotion.py:8), if its items have different codes, of their own
\* or by their places, and it left no gap in the positions of the outcomes.
FirstWordingIsKept ==
    "outcomes" \notin crossed =>
        /\ \A i \in DOMAIN outcome :
              \/ outcome[i].claimed \/ outcome[i].statement = outcome[i].first
              \/ outcome[i].attributes.original = outcome[i].first
        /\ applied # None /\ DistinctCodes(applied) /\ AtPlaces(outcome) =>
              \A order \in Orders(outcome) : apply_refined_clos(applied, order) = outcome
=============================================================================
