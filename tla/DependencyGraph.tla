-------------------------- MODULE DependencyGraph --------------------------
(***************************************************************************)
(* Reachability and cycles in one version's learning graph, given as a set *)
(* of <<source, target>> pairs: what the cycle check of                    *)
(* modules/courses/service.py means, without its search.  CycleSearch.tla  *)
(* is the search; CourseGraph.tla uses the meaning.                        *)
(*                                                                         *)
(* Reachability is stated by closed sets, not by recursion or by paths: it *)
(* is evaluated by TLC on a few nodes and unfolds in one step in a proof.  *)
(***************************************************************************)
EXTENDS TLAPS

CONSTANT Labels   \* learning nodes of one version

Closed(E, C) == \A x, y \in Labels : x \in C /\ <<x, y>> \in E => y \in C

\* y lies in every set that contains x and is closed under E.
Reaches(E, x, y) == \A C \in SUBSET Labels : x \in C /\ Closed(E, C) => y \in C

MutantTwoCyclesOnly(E, source, target) == source = target \/ <<target, source>> \in E

\* Does adding source -> target to E close a directed cycle?
CreatesCycle(E, source, target) == source = target \/ Reaches(E, target, source)

\* Every non-empty set of nodes has one without a successor in the set.
AcyclicPairs(E) ==
    \A S \in SUBSET Labels :
        S # {} => \E x \in S : \A y \in S : <<x, y>> \notin E
-----------------------------------------------------------------------------
(* Facts about both, for any set of nodes, finite or not.                  *)

\* A node reaches itself, and whatever is next to what it reaches: the two
\* facts the search of _creates_cycle rests on.
LEMMA ReachesSelf ==
    ASSUME NEW E, NEW x
    PROVE  Reaches(E, x, x)
BY DEF Reaches

\* What lies next to a reachable node is reachable.
LEMMA ReachesNext ==
    ASSUME NEW E, NEW x, NEW y \in Labels, NEW z \in Labels,
           Reaches(E, x, y), <<y, z>> \in E
    PROVE  Reaches(E, x, z)
BY DEF Reaches, Closed

\* A set closed under the dependencies that holds x and not y separates them.
LEMMA ClosedSeparates ==
    ASSUME NEW E, NEW x, NEW y, NEW C \in SUBSET Labels,
           x \in C, y \notin C, Closed(E, C)
    PROVE  ~Reaches(E, x, y)
BY DEF Reaches

\* Removing dependencies closes no cycle (delete_dependency, delete_node, and
\* the dependencies a clone leaves out).
LEMMA FewerPairsAcyclic ==
    ASSUME NEW E, NEW F, F \subseteq E, AcyclicPairs(E)
    PROVE  AcyclicPairs(F)
BY DEF AcyclicPairs

\* A version without dependencies has no cycle.
LEMMA NoPairsAcyclic == AcyclicPairs({})
BY DEF AcyclicPairs

\* Adding a dependency the cycle check lets through closes no cycle.
LEMMA CheckedPairAcyclic ==
    ASSUME NEW E, NEW s \in Labels, NEW t \in Labels,
           AcyclicPairs(E), ~CreatesCycle(E, s, t)
    PROVE  AcyclicPairs(E \cup {<<s, t>>})
<1>1. PICK C \in SUBSET Labels : t \in C /\ Closed(E, C) /\ s \notin C
    BY DEF CreatesCycle, Reaches
<1>2. SUFFICES ASSUME NEW S \in SUBSET Labels, S # {}
               PROVE  \E x \in S : \A y \in S : <<x, y>> \notin E \cup {<<s, t>>}
    BY DEF AcyclicPairs
\* A node of S \cap C without successor there has none in S: C is closed, and
\* the new dependency leaves from outside C.
<1>3. CASE S \cap C # {}
    <2>1. PICK x \in S \cap C : \A y \in S \cap C : <<x, y>> \notin E
        BY <1>3 DEF AcyclicPairs
    <2>2. \A y \in S : <<x, y>> \notin E
        BY <1>1, <2>1 DEF Closed
    <2>3. x # s
        BY <1>1, <2>1
    <2> QED BY <2>1, <2>2, <2>3
\* If S avoids C it does not hold t, so the new dependency stays outside S.
<1>4. CASE S \cap C = {}
    <2>1. PICK x \in S : \A y \in S : <<x, y>> \notin E
        BY <1>2 DEF AcyclicPairs
    <2>2. t \notin S
        BY <1>1, <1>4
    <2> QED BY <2>1, <2>2
<1> QED BY <1>3, <1>4

\* Where there is no cycle, nothing leads back to the source of a dependency.
LEMMA NoLoop ==
    ASSUME NEW E, AcyclicPairs(E), NEW x \in Labels, NEW y \in Labels, <<y, x>> \in E
    PROVE  ~Reaches(E, x, y)
<1> SUFFICES ASSUME Reaches(E, x, y) PROVE FALSE
    OBVIOUS
\* The nodes on the way from x to y: one of them has no successor among them.
<1> DEFINE T == {z \in Labels : Reaches(E, x, z) /\ Reaches(E, z, y)}
<1>1. x \in T /\ y \in T
    BY ReachesSelf
<1>2. PICK z \in T : \A w \in T : <<z, w>> \notin E
    BY <1>1 DEF AcyclicPairs
<1>3. z # y
    BY <1>1, <1>2
\* Then z and what it reaches off the way is closed, and y is not in it.
<1> DEFINE D == {z} \cup {w \in Labels : Reaches(E, x, w) /\ ~Reaches(E, w, y)}
<1>4. Closed(E, D)
    <2> SUFFICES ASSUME NEW a \in Labels, NEW b \in Labels, a \in D, <<a, b>> \in E
                 PROVE  b \in D
        BY DEF Closed
    <2>1. Reaches(E, x, a)
        BY <1>2
    <2>2. Reaches(E, x, b)
        BY <2>1, ReachesNext
    <2>3. CASE a = z
        BY <1>2, <2>2, <2>3
    <2>4. CASE a # z
        <3>1. ~Reaches(E, a, y)
            BY <2>4
        <3>2. ~Reaches(E, b, y)
            BY <3>1 DEF Reaches, Closed
        <3> QED BY <2>2, <3>2
    <2> QED BY <2>3, <2>4
<1>5. y \notin D
    BY <1>3, ReachesSelf
<1>6. ~Reaches(E, z, y)
    BY <1>4, <1>5, ClosedSeparates
<1> QED BY <1>2, <1>6
=============================================================================
