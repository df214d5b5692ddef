---------------------------- MODULE MCPromotion ----------------------------
(***************************************************************************)
(* Instances of Promotion.  The artifacts include overlapping node sets (a *)
(* re-run that adds a key), relations in both directions, a relation of a  *)
(* type that does not lock, and a relation to a key without a node.        *)
(***************************************************************************)
EXTENDS Promotion, TLC

CONSTANTS a, b, c

Rel(s, t, ty) == [source |-> s, target |-> t, type |-> ty]

PairNodes == {{a}, {a, b}}
PairRelations ==
    {{Rel(a, b, "requires"), Rel(b, a, "requires")},
     {Rel(b, a, "requires"), Rel(b, a, "bridge"), Rel(b, c, "requires")}}

TriangleNodes == {{a, b, c}}
TriangleRelations ==
    {{Rel(a, b, "requires"), Rel(b, c, "requires"), Rel(c, a, "requires")}}

RunSymmetry == Permutations(RunIds)
=============================================================================
