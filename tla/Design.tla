------------------------------- MODULE Design -------------------------------
(***************************************************************************)
(* One contribution assessment and the effort maps of a course, built up   *)
(* by approving the runs of five stages and by hand (blueprint/promotion.py*)
(* and service.py).  Three JSON columns of the assessment have two authors *)
(* each, who must leave one another's part alone:                          *)
(*                                                                         *)
(*   rubric      criteria (redesign)   weighted criteria (weighting)       *)
(*   integrity   features (redesign)   layers (integrity)                  *)
(*   gate        needs (redesign)      required nodes, checks (readiness)  *)
(***************************************************************************)
EXTENDS Session

CONSTANTS
    Columns,   \* of "rubric", "integrity", "gate"
    Words      \* what a part may say

ASSUME DesignAssumption ==
    /\ Columns \subseteq {"rubric", "integrity", "gate"}
    /\ None \notin Words /\ "design" \notin Columns

VARIABLES
    design,    \* contribution_assessments: the row, or None
    effort,    \* learning_effort_maps: whose insert, for a version or for none
    written    \* history: each part as it was written last, until two requests met

designRows == <<design, effort, written>>

\* A part is None where the document of the column does not have it.
Part == Words \cup {None}
Column == [redesign : Part, stage : Part]
EffortRow == [by : Requests, pinned : BOOLEAN]

ASSUME DesignRowAssumption == None \notin [Columns -> Column]

\* A version has one effort map: unique (course, version), where it is not NULL.
DesignTypeOK ==
    /\ design \in [Columns -> Column] \cup {None}
    /\ written \in [Columns -> Column]
    /\ effort \subseteq EffortRow
    /\ \A x, y \in effort : x.pinned /\ y.pinned => x = y

-----------------------------------------------------------------------------
NoDesign == [c \in Columns |-> [redesign |-> None, stage |-> None]]
get_or_create_assessment == IF design = None THEN NoDesign ELSE design

MutantRewrite(row, says) ==
    [c \in Columns |-> IF says[c] = None THEN row[c]
                       ELSE [redesign |-> says[c], stage |-> None]]

\* assessment_redesign: the parts its artifact has, each into its column.
redesigned(row, says) ==
    [c \in Columns |-> IF says[c] = None THEN row[c]
                       ELSE [row[c] EXCEPT !.redesign = says[c]]]

\* assessment_weighting, assessment_integrity, readiness_gate: the last writes its
\* part even when its artifact has nothing for it.
staged(row, c, word) ==
    [row EXCEPT ![c].stage = IF word = None /\ c # "gate" THEN @ ELSE word]

\* PATCH: a column whole.
patched(row, c, column) == [row EXCEPT ![c] = column]

-----------------------------------------------------------------------------
DesignInit ==
    /\ SessionInit
    /\ design = None
    /\ effort = {}
    /\ written = NoDesign

BeginDesign(q, row, said) ==
    /\ Begin(q, [key |-> "design", loaded |-> design, set |-> row, said |-> said])
    /\ UNCHANGED designRows

ApproveRedesign(q, says) ==
    BeginDesign(q, redesigned(get_or_create_assessment, says),
                [c \in Columns |-> [redesign |-> says[c] # None, stage |-> FALSE]])

ApproveStage(q, c, word) ==
    BeginDesign(q, staged(get_or_create_assessment, c, word),
                [d \in Columns |-> [redesign |-> FALSE,
                                    stage |-> d = c /\ (word # None \/ c = "gate")]])

UpdateAssessment(q, c, column) ==
    /\ design # None
    /\ BeginDesign(q, patched(design, c, column),
                   [d \in Columns |-> [redesign |-> d = c, stage |-> d = c]])

\* With two maps of the course that name no version the query raises.
ApproveEffort(q, pinned) ==
    LET found == {e \in effort : e.pinned = pinned}
    IN  /\ \A x, y \in found : x = y
        /\ Begin(q, [key |-> IF pinned THEN "pinned_effort" ELSE "effort",
                     new |-> IF found = {} THEN {[by |-> q, pinned |-> pinned]} ELSE {}])
        /\ UNCHANGED designRows

\* Unique: (course, key of the assessment).
CommitDesign(q) ==
    /\ End(q)
    /\ req[q].key = "design"
    /\ LET r == req[q]
       IN  /\ r.loaded = None => design = None
           /\ design' = IF design = None THEN r.set ELSE Flush(design, r.loaded, r.set)
           /\ written' = IF "design" \in crossed THEN NoDesign ELSE
                         [c \in Columns |-> [p \in {"redesign", "stage"} |->
                            IF r.said[c][p] THEN r.set[c][p] ELSE written[c][p]]]
    /\ UNCHANGED effort

CommitEffort(q) ==
    /\ End(q)
    /\ req[q].key \in {"effort", "pinned_effort"}
    /\ \A e \in req[q].new : e.pinned => \A x \in effort : ~x.pinned
    /\ effort' = effort \cup req[q].new
    /\ UNCHANGED <<design, written>>

AbortDesign(q) == End(q) /\ UNCHANGED designRows

AssessmentNext ==
    \E q \in Requests :
        \/ \E says \in [Columns -> Part] : ApproveRedesign(q, says)
        \/ \E c \in Columns : \/ \E word \in Part : ApproveStage(q, c, word)
                              \/ \E column \in Column : UpdateAssessment(q, c, column)
        \/ CommitDesign(q)
        \/ AbortDesign(q)

EffortNext ==
    \E q \in Requests :
        \/ \E pinned \in BOOLEAN : ApproveEffort(q, pinned)
        \/ CommitEffort(q)
        \/ AbortDesign(q)

DesignNext == AssessmentNext \/ EffortNext

DesignSpec == DesignInit /\ [][DesignNext]_<<session, designRows>>
-----------------------------------------------------------------------------
\* Five stages and the editor build one design: each part says what was written
\* to it last, in whatever order runs are approved, re-approved and edited, and
\* the course has one effort map that names no version - unless two requests met
\* on the row (promotion.py:212).
PartsSurvive ==
    /\ "design" \notin crossed => written = get_or_create_assessment
    /\ "effort" \notin crossed => \A x, y \in effort : x.pinned \/ y.pinned \/ x = y
=============================================================================
