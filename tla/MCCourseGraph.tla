--------------------------- MODULE MCCourseGraph ---------------------------
(***************************************************************************)
(* Instances of CourseGraph.  Labels are interchangeable, so are the       *)
(* dependency types and the designers' requests.                           *)
(***************************************************************************)
EXTENDS CourseGraph, TLC

LabelSymmetry == Permutations(Labels)
RaceSymmetry == Permutations(Labels) \cup Permutations(Editors)
=============================================================================
