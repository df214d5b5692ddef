---------------------------- MODULE CycleSearch ----------------------------
(***************************************************************************)
(* The search of _creates_cycle (modules/courses/service.py): depth first  *)
(* from `target` along the version's dependencies, looking for `source`.   *)
(* The order of the stack is left open, as it follows the order in which   *)
(* the database returned the rows; a second copy of a node on the stack is *)
(* skipped when popped, so the stack is the set of nodes on it.            *)
(***************************************************************************)
EXTENDS DependencyGraph

VARIABLES
    pairs,           \* the version's dependencies
    source, target,  \* the dependency asked about
    stack, seen,
    answer           \* "searching", or the returned BOOLEAN

searchVars == <<pairs, source, target, stack, seen, answer>>

\* The search stays within the nodes of the version.
SearchTypeOK ==
    /\ pairs \subseteq Labels \X Labels
    /\ source \in Labels /\ target \in Labels
    /\ stack \subseteq Labels /\ seen \subseteq Labels
    /\ answer \in {"searching", "yes", "no"}

SearchInit ==
    /\ pairs \in SUBSET (Labels \X Labels)
    /\ source \in Labels /\ target \in Labels
    /\ answer = IF source = target THEN "yes" ELSE "searching"
    /\ stack = {target}
    /\ seen = {}

MutantSuccessors(x) == {y \in Labels : <<y, x>> \in pairs}

\* The adjacency list of x.
Successors(x) == {y \in Labels : <<x, y>> \in pairs}

Hit(current) ==
    /\ current = source
    /\ answer' = "yes"
    /\ stack' = stack \ {current}
    /\ UNCHANGED <<pairs, source, target, seen>>

MutantNeverSeen(current) ==
    /\ current # source /\ current \in seen
    /\ stack' = (stack \ {current}) \cup Successors(current)
    /\ UNCHANGED <<pairs, source, target, seen, answer>>

Skip(current) ==
    /\ current # source /\ current \in seen
    /\ stack' = stack \ {current}
    /\ UNCHANGED <<pairs, source, target, seen, answer>>

Visit(current) ==
    /\ current # source /\ current \notin seen
    /\ seen' = seen \cup {current}
    /\ stack' = (stack \ {current}) \cup Successors(current)
    /\ UNCHANGED <<pairs, source, target, answer>>

\* The loop ends with the stack empty.
Exhausted ==
    /\ stack = {}
    /\ answer' = "no"
    /\ UNCHANGED <<pairs, source, target, stack, seen>>

SearchNext ==
    /\ answer = "searching"
    /\ \/ \E current \in stack : Hit(current) \/ Skip(current) \/ Visit(current)
       \/ Exhausted

SearchSpec == SearchInit /\ [][SearchNext]_searchVars

\* The function runs without an await: its steps are taken.
SearchFairSpec == SearchSpec /\ WF_searchVars(SearchNext)
-----------------------------------------------------------------------------
\* Whatever the graph, cyclic or not, and whatever the order of the rows, the
\* search answers the question its docstring asks: can target already reach
\* source?  (service.py:783)
AnswersRight ==
    /\ answer = "yes" => CreatesCycle(pairs, source, target)
    /\ answer = "no" => ~CreatesCycle(pairs, source, target)

\* The search ends, on graphs that have cycles too (the `seen` set).
Terminates == <>(answer # "searching")
=============================================================================
