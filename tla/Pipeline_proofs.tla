-------------------------- MODULE Pipeline_proofs --------------------------
(***************************************************************************)
(* Proofs about the AI pipeline of a course: the settings of its tenant,   *)
(* the runs of its stages, the outcomes that approved runs write, and the  *)
(* design of an assessment that approved runs and the editor write, for    *)
(* any number of requests in flight; at the end, all of them together.     *)
(*                                                                         *)
(* What a request writes depends on what it read before others committed.  *)
(* The invariants therefore say what a request in flight carries: in       *)
(* Settings the document it read and its change to it, in Design the row   *)
(* and the parts it does not touch - while nobody has met it on the row -  *)
(* and in StageRuns, where runs never meet on a row, a number of its own   *)
(* and artifacts that succeeded.  There the property is about the newest   *)
(* artifact of a stage, which no step takes back (LatestGrows).            *)
(*                                                                         *)
(* In Outcomes an artifact is applied item by item: the folds of the model *)
(* are chains of tables (Applies), of which every row is a chain of        *)
(* refinements.  A second approval sends each item to the row it refined   *)
(* the first time (PlacesKept), and refinements repeated leave what they   *)
(* have left (RefinedTwice).                                               *)
(***************************************************************************)
EXTENDS MCPipeline, FiniteSetTheorems, TLAPS

-----------------------------------------------------------------------------
(* Numbers                                                                 *)

\* Natural numbers have a least one among them.
LEMMA Least ==
  ASSUME NEW S \in SUBSET Nat, S # {}
  PROVE  \E k \in S : \A m \in S : k <= m
<1> DEFINE T == {0 .. k : k \in S}
           Below == StrictSubsetOrdering(Nat)
<1>1. T \subseteq FiniteSubsetsOf(Nat) /\ T # {}
  <2>1. ASSUME NEW k \in S PROVE 0 .. k \in FiniteSubsetsOf(Nat)
    <3>1. 0 .. k \in SUBSET Nat
      OBVIOUS
    <3>2. IsFiniteSet(0 .. k)
      BY FS_Interval
    <3> QED
      BY <3>1, <3>2 DEF FiniteSubsetsOf
  <2> QED
    BY <2>1
<1>2. PICK x \in T : \A y \in T : ~(<<y, x>> \in Below)
  <2>1. IsWellFoundedOn(Below, FiniteSubsetsOf(Nat))
    BY FS_StrictSubsetOrderingWellFounded
  <2> HIDE DEF T, Below
  <2> QED
    BY <1>1, <2>1, WFMin
<1>3. PICK k \in S : x = 0 .. k
  OBVIOUS
<1>4. ASSUME NEW m \in S, ~(k <= m) PROVE FALSE
  <2>1. 0 .. m \in T
    OBVIOUS
  <2>2. k \in 0 .. k /\ k \notin 0 .. m /\ 0 .. m \subseteq 0 .. k /\ 0 .. k \subseteq Nat
    BY <1>4
  <2>3. <<0 .. m, 0 .. k>> \in Below
    BY <2>2 DEF StrictSubsetOrdering
  <2> QED
    BY <1>2, <1>3, <2>1, <2>3
<1> QED
  BY <1>4

\* Numbers up to n have a greatest one among them.
LEMMA Greatest ==
  ASSUME NEW n \in Nat, NEW S \in SUBSET (1 .. n), S # {}
  PROVE  \E k \in S : \A m \in S : m <= k
<1> DEFINE T == {n - k : k \in S}
<1>1. T \in SUBSET Nat /\ T # {}
  <2>1. \A k \in S : k \in Nat /\ k <= n
    OBVIOUS
  <2>2. \A k \in S : n - k \in Nat
    BY <2>1
  <2> QED
    BY <2>2
<1>2. PICK x \in T : \A y \in T : x <= y
  <2> HIDE DEF T
  <2> QED
    BY <1>1, Least
<1>3. PICK k \in S : x = n - k
  OBVIOUS
<1>4. ASSUME NEW m \in S PROVE m <= k
  <2>1. n - m \in T
    OBVIOUS
  <2>2. n - k <= n - m
    BY <1>2, <1>3, <2>1
  <2> QED
    BY <2>2
<1> QED
  BY <1>4

\* Counting up to m: what holds of 0 and passes from each number to the next.
LEMMA UpTo ==
  ASSUME NEW m \in Nat, NEW S, 0 \in S, \A k \in 1 .. m : k - 1 \in S => k \in S
  PROVE  \A k \in 0 .. m : k \in S
<1> DEFINE Bad == {k \in 0 .. m : k \notin S}
<1> SUFFICES ASSUME Bad # {} PROVE FALSE
  OBVIOUS
<1>1. PICK k \in Bad : \A j \in Bad : k <= j
  <2>1. Bad \in SUBSET Nat
    OBVIOUS
  <2> HIDE DEF Bad
  <2> QED
    BY <2>1, Least
<1>2. k \in 1 .. m /\ k - 1 \in 0 .. m
  BY <1>1
<1>3. k - 1 \notin Bad
  BY <1>1, <1>2
<1> QED
  BY <1>1, <1>2, <1>3

\* Max is the greatest.
LEMMA MaxIs ==
  ASSUME NEW n \in Nat, NEW S \in SUBSET (1 .. n), S # {}
  PROVE  Max(S) \in S /\ \A x \in S : x <= Max(S)
<1>1. \E k \in S : \A x \in S : k >= x
  BY Greatest
<1> QED
  BY <1>1 DEF Max

\* A fold over the places of a sequence has a value for every set of them: the step
\* for the last of a set from the value of the others.
IsFold(h, T, m, b, G) ==
    /\ h \in [SUBSET (1 .. m) -> T]
    /\ \A s \in SUBSET (1 .. m) : h[s] = IF s = {} THEN b ELSE G[<<h[s \ {Max(s)}], Max(s)>>]

\* A step on values of T gives such a function.
LEMMA FoldExists ==
  ASSUME NEW T, NEW m \in Nat, NEW b \in T, NEW G \in [T \X (1 .. m) -> T]
  PROVE  \E h : IsFold(h, T, m, b, G)
<1> DEFINE Is(n, h) == \A s \in SUBSET (1 .. n) :
                          h[s] = IF s = {} THEN b ELSE G[<<h[s \ {Max(s)}], Max(s)>>]
           Good == {n \in 0 .. m : \E h \in [SUBSET (1 .. n) -> T] : Is(n, h)}
<1>1. 0 \in Good
  <2>1. SUBSET (1 .. 0) = {{}}
    OBVIOUS
  <2>2. [s \in SUBSET (1 .. 0) |-> b] \in [SUBSET (1 .. 0) -> T] /\ Is(0, [s \in SUBSET (1 .. 0) |-> b])
    BY <2>1
  <2>3. 0 \in 0 .. m
    OBVIOUS
  <2> HIDE DEF Is
  <2> QED
    BY <2>2, <2>3
<1>2. ASSUME NEW n \in 1 .. m, n - 1 \in Good PROVE n \in Good
  <2>1. PICK h \in [SUBSET (1 .. n - 1) -> T] : Is(n - 1, h)
    BY <1>2
  <2> DEFINE g == [s \in SUBSET (1 .. n) |-> IF n \in s THEN G[<<h[s \ {n}], n>>] ELSE h[s]]
  <2>2. ASSUME NEW s \in SUBSET (1 .. n)
        PROVE  /\ s \ {n} \in SUBSET (1 .. n - 1)
               /\ n \notin s => s \in SUBSET (1 .. n - 1) /\ g[s] = h[s]
               /\ n \in s => g[s] = G[<<h[s \ {n}], n>>]
               /\ g[s] \in T
    <3>1. \A x \in 1 .. n : x # n => x \in 1 .. n - 1
      OBVIOUS
    <3>2. s \ {n} \in SUBSET (1 .. n - 1) /\ (n \notin s => s \in SUBSET (1 .. n - 1))
      BY <3>1
    <3> QED
      BY <3>2
  <2>3. g \in [SUBSET (1 .. n) -> T]
    BY <2>2
  <2>4. ASSUME NEW s \in SUBSET (1 .. n)
        PROVE  g[s] = IF s = {} THEN b ELSE G[<<g[s \ {Max(s)}], Max(s)>>]
    <3>0. \A x \in s \ {n} : n \notin s \ {n}
      OBVIOUS
    <3>1. CASE s = {}
      BY <2>1, <2>2, <3>1
    <3>2. CASE n \in s
      <4>1. Max(s) = n
        <5> HIDE DEF g, Is
        <5>1. n \in Nat /\ s # {}
          BY <3>2
        <5>2. Max(s) \in s /\ \A x \in s : x <= Max(s)
          BY <5>1, MaxIs
        <5>3. Max(s) \in 1 .. n /\ n <= Max(s)
          BY <5>2, <3>2
        <5> QED
          BY <5>1, <5>3
      <4>2. s \ {n} \in SUBSET (1 .. n) /\ n \notin s \ {n}
        OBVIOUS
      <4>3. g[s \ {n}] = h[s \ {n}]
        BY <4>2, <2>2
      <4> HIDE DEF g
      <4> QED
        BY <2>2, <3>2, <4>1, <4>3
    <3>3. CASE s # {} /\ n \notin s
      <4>1. s \in SUBSET (1 .. n - 1) /\ n - 1 \in Nat
        BY <2>2, <3>3
      <4>2. Max(s) \in s
        BY <4>1, <3>3, MaxIs
      <4>3. s \ {Max(s)} \in SUBSET (1 .. n) /\ n \notin s \ {Max(s)}
        BY <3>3
      <4>4. g[s \ {Max(s)}] = h[s \ {Max(s)}] /\ g[s] = h[s]
        BY <4>3, <2>2, <3>3
      <4>5. h[s] = G[<<h[s \ {Max(s)}], Max(s)>>]
        BY <2>1, <4>1, <3>3
      <4> HIDE DEF g
      <4> QED
        BY <4>4, <4>5, <3>3
    <3> QED
      BY <3>1, <3>2, <3>3
  <2>5. Is(n, g)
    <3> HIDE DEF g
    <3> QED
      BY <2>4
  <2> HIDE DEF g, Is
  <2> QED
    BY <2>3, <2>5
<1>3. m \in Good
  <2> HIDE DEF Good
  <2>1. \A k \in 1 .. m : k - 1 \in Good => k \in Good
    BY <1>2
  <2>2. \A k \in 0 .. m : k \in Good
    BY <1>1, <2>1, UpTo
  <2> QED
    BY <2>2
<1>4. PICK h \in [SUBSET (1 .. m) -> T] : Is(m, h)
  BY <1>3
<1> QED
  BY <1>4 DEF IsFold

\* The first k of m places: the last of them, and the others.
LEMMA FirstPlaces ==
  ASSUME NEW m \in Nat, NEW k \in 1 .. m
  PROVE  /\ k - 1 \in 0 .. m /\ k \in 0 .. m /\ 1 .. k \in SUBSET (1 .. m) /\ 1 .. k # {}
         /\ Max(1 .. k) = k /\ (1 .. k) \ {k} = 1 .. k - 1
<1>1. k - 1 \in 0 .. m /\ k \in 0 .. m /\ k \in Nat
  OBVIOUS
<1>2. 1 .. k # {} /\ (1 .. k) \ {k} = 1 .. k - 1 /\ 1 .. k \in SUBSET (1 .. m)
  BY <1>1
<1>3. Max(1 .. k) = k
  <2> DEFINE K == 1 .. k
  <2>1. K \in SUBSET (1 .. k) /\ K # {} /\ k \in K
    BY <1>1, <1>2
  <2> HIDE DEF K
  <2>2. Max(K) \in K /\ \A x \in K : x <= Max(K)
    BY <1>1, <2>1, MaxIs
  <2>3. k <= Max(K) /\ Max(K) \in 1 .. k
    BY <2>1, <2>2
  <2>4. \A x \in 1 .. k : k <= x => x = k
    BY <1>1
  <2> QED
    BY <2>3, <2>4 DEF K
<1> QED
  BY <1>1, <1>2, <1>3

-----------------------------------------------------------------------------
(* Settings                                                                *)

settingsVars == <<session, settingsRows>>

\* A member of the document after a change: the mask of a key changes nothing.
Changed(value, change) == IF change = "masked" THEN value ELSE Member(value, change)

Applied(base, change) ==
    [key |-> Changed(base.key, change.key), url |-> Changed(base.url, change.url),
     prompt |-> Changed(base.prompt, change.prompt)]

\* What a request has read and is going to write.
SettingsShape(r) ==
    /\ r.key = "settings"
    /\ r.loaded \in Document \cup {None}
    /\ r.set \in Document
    /\ r.change \in Patch

\* It has read the document there is, and writes it with its change.
SettingsFresh(r) == r.loaded = config /\ r.set = Applied(get_or_create, r.change)

SettingsRequests ==
    \A q \in Requests : req[q] # None =>
        SettingsShape(req[q]) /\ ("settings" \notin crossed => SettingsFresh(req[q]))

\* What a stage runs with is what was said, with or without a row.
SaidIsKept == "settings" \notin crossed => resolve_stage(get_or_create) = resolve_stage(said)

SettingsInv ==
    /\ SessionOK
    /\ SettingsTypeOK
    /\ SettingsRequests
    /\ SaidIsKept

-----------------------------------------------------------------------------
\* A document is one after any change.
LEMMA AppliedIsDocument ==
  ASSUME NEW base \in Document, NEW change \in Patch
  PROVE  Applied(base, change) \in Document
<1>1. Changed(base.key, change.key) \in Keys \cup {None, "blank"}
  BY SettingsAssumption DEF Document, Patch, Changed, Member
<1>2. Changed(base.url, change.url) \in {None, "url"}
  BY DEF Document, Patch, Changed, Member
<1>3. Changed(base.prompt, change.prompt) \in {None, "prompt"}
  BY DEF Document, Patch, Changed, Member
<1> QED
  BY <1>1, <1>2, <1>3 DEF Applied, Document

\* Documents that resolve alike do so after the same change.
LEMMA AppliedAlike ==
  ASSUME NEW a \in Document, NEW b \in Document, NEW change \in Patch,
         resolve_stage(a) = resolve_stage(b)
  PROVE  resolve_stage(Applied(a, change)) = resolve_stage(Applied(b, change))
<1>1. a.url = b.url /\ a.prompt = b.prompt
  BY DEF resolve_stage
<1>2. (IF a.key \in {None, "blank"} THEN EnvKey ELSE a.key) =
      (IF b.key \in {None, "blank"} THEN EnvKey ELSE b.key)
  BY DEF resolve_stage
<1> DEFINE ka == Changed(a.key, change.key)
           kb == Changed(b.key, change.key)
<1>3. (IF ka \in {None, "blank"} THEN EnvKey ELSE ka) =
      (IF kb \in {None, "blank"} THEN EnvKey ELSE kb)
  <2>1. CASE change.key \in {"absent", "masked"}
    BY <1>2, <2>1 DEF Changed, Member
  <2>2. CASE change.key \notin {"absent", "masked"}
    BY <2>2 DEF Changed, Member
  <2> QED
    BY <2>1, <2>2
<1> QED
  BY <1>1, <1>3 DEF Applied, resolve_stage

\* The document there is, or an empty one.
LEMMA BaseIsDocument ==
  ASSUME SettingsTypeOK
  PROVE  get_or_create \in Document
  BY DEF SettingsTypeOK, get_or_create, Blank, Document

\* At the start there is no row and nothing was said.
LEMMA SettingsStarts == SettingsInit => SettingsInv
<1> SUFFICES ASSUME SettingsInit PROVE SettingsInv
  OBVIOUS
<1>1. SettingsTypeOK
  BY DEF SettingsInit, SettingsTypeOK, Blank, Document
<1>2. SaidIsKept
  BY DEF SettingsInit, SaidIsKept, get_or_create
<1> QED
  BY <1>1, <1>2, SessionStarts DEF SettingsInit, SessionInit, SettingsInv, SettingsRequests

\* A request begins that will write its change into the document it has read.
LEMMA SettingsBegins ==
  ASSUME SettingsInv, NEW q \in Requests, NEW change \in Patch, NEW set,
         set = Applied(get_or_create, change), BeginSettings(q, change, set)
  PROVE  SettingsInv'
<1>1. PICK r : r = [key |-> "settings", change |-> change, loaded |-> config, set |-> set]
  OBVIOUS
<1>2. Begin(q, r) /\ UNCHANGED <<config, said>>
  BY <1>1 DEF BeginSettings, settingsRows
<1>3. /\ SessionOK'
      /\ crossed \subseteq crossed'
      /\ req'[q] = r
      /\ \A o \in Requests \ {q} : req'[o] = req[o]
  BY <1>2, BeginKeepsAlone DEF SettingsInv
<1>4. SettingsShape(r) /\ SettingsFresh(r)
  <2>1. set \in Document
    BY BaseIsDocument, AppliedIsDocument DEF SettingsInv
  <2> QED
    BY <1>1, <2>1 DEF SettingsShape, SettingsFresh, SettingsInv, SettingsTypeOK
<1>5. SettingsRequests'
  <2> SUFFICES ASSUME NEW o \in Requests, req'[o] # None
               PROVE  SettingsShape(req[o])' /\ ("settings" \notin crossed' => SettingsFresh(req[o])')
    BY DEF SettingsRequests
  <2>1. PICK s : /\ s = req'[o] /\ SettingsShape(s)
                 /\ "settings" \notin crossed' => SettingsFresh(s)
    BY <1>3, <1>4 DEF SettingsInv, SettingsRequests
  <2> QED
    BY <1>2, <2>1 DEF SettingsShape, SettingsFresh, get_or_create
<1>6. (SettingsTypeOK /\ SaidIsKept)'
  BY <1>2, <1>3 DEF SettingsInv, SettingsTypeOK, SaidIsKept, get_or_create
<1> QED
  BY <1>3, <1>5, <1>6 DEF SettingsInv

\* A document is written: whole, or not at all.
LEMMA SettingsCommits ==
  ASSUME SettingsInv, NEW q \in Requests, CommitSettings(q)
  PROVE  SettingsInv'
<1>1. PICK r : r = req[q]
  OBVIOUS
<1>2. /\ End(q)
      /\ r.loaded = None => config = None
      /\ config' = IF config = None \/ r.set # r.loaded THEN r.set ELSE config
      /\ said' = IF "settings" \in crossed THEN said
                 ELSE [m \in DOMAIN said |->
                         IF r.change[m] = "masked" THEN said[m]
                         ELSE Member(said[m], r.change[m])]
  BY <1>1 DEF CommitSettings
<1>3. /\ SessionOK'
      /\ crossed' = crossed
      /\ req[q] # None /\ req'[q] = None
      /\ \A o \in Requests \ {q} : req'[o] = req[o]
  BY <1>2, EndKeepsAlone DEF SettingsInv
<1>4. SettingsShape(r) /\ ("settings" \notin crossed => SettingsFresh(r))
  BY <1>1, <1>3 DEF SettingsInv, SettingsRequests
<1>5. said \in Document /\ config \in Document \cup {None}
  BY DEF SettingsInv, SettingsTypeOK
<1>6. config' \in Document /\ config' # None
  BY <1>2, <1>4, <1>5, DocumentAssumption DEF SettingsShape
<1>7. ASSUME "settings" \notin crossed PROVE said' = Applied(said, r.change)
  <2>1. DOMAIN said = {"key", "url", "prompt"}
    BY <1>5 DEF Document
  <2>2. said' = [m \in {"key", "url", "prompt"} |-> Changed(said[m], r.change[m])]
    BY <1>2, <1>7, <2>1 DEF Changed
  <2>3. Applied(said, r.change) =
          [m \in {"key", "url", "prompt"} |-> Changed(said[m], r.change[m])]
    BY DEF Applied
  <2> QED
    BY <2>2, <2>3
<1>8. said' \in Document
  BY <1>2, <1>4, <1>5, <1>7, AppliedIsDocument DEF SettingsShape
<1>9. SettingsTypeOK'
  BY <1>6, <1>8 DEF SettingsTypeOK
<1>10. SaidIsKept'
  <2> SUFFICES ASSUME "settings" \notin crossed
               PROVE  resolve_stage(get_or_create)' = resolve_stage(said)'
    BY <1>3 DEF SaidIsKept
  <2>1. PICK base, was, change : base = get_or_create /\ was = said /\ change = r.change
    OBVIOUS
  <2>2. /\ base \in Document /\ was \in Document /\ change \in Patch
        /\ resolve_stage(base) = resolve_stage(was)
    BY <1>4, <1>5, <2>1, BaseIsDocument DEF SettingsInv, SaidIsKept, SettingsShape
  <2>3. config' = Applied(base, change)
    BY <1>2, <1>4, <2>1 DEF SettingsFresh
  <2>4. said' = Applied(was, change)
    BY <1>7, <2>1
  <2>5. get_or_create' = config'
    BY <1>6 DEF get_or_create
  <2> QED
    BY <2>2, <2>3, <2>4, <2>5, AppliedAlike DEF resolve_stage
<1>11. SettingsRequests'
  <2> SUFFICES ASSUME NEW o \in Requests, req'[o] # None
               PROVE  SettingsShape(req[o])' /\ ("settings" \notin crossed' => SettingsFresh(req[o])')
    BY DEF SettingsRequests
  <2>1. PICK s : s = req'[o] /\ SettingsShape(s) /\ s = req[o] /\ o # q
    BY <1>3 DEF SettingsInv, SettingsRequests
  <2>2. "settings" \in crossed
    BY <1>1, <1>3, <1>4, <2>1, OthersCrossed DEF SettingsInv, SettingsShape
  <2> QED
    BY <1>3, <2>1, <2>2 DEF SettingsShape
<1> QED
  BY <1>3, <1>9, <1>10, <1>11 DEF SettingsInv

\* Every step of every request keeps the invariant.
LEMMA SettingsSteps == SettingsInv /\ [SettingsNext]_settingsVars => SettingsInv'
<1> SUFFICES ASSUME SettingsInv, [SettingsNext]_settingsVars PROVE SettingsInv'
  OBVIOUS
<1>0. PICK base : base = get_or_create /\ base \in Document
  BY BaseIsDocument DEF SettingsInv
<1>a. DOMAIN base = {"key", "url", "prompt"}
      /\ base = [key |-> base.key, url |-> base.url, prompt |-> base.prompt]
  BY <1>0 DEF Document
<1>1. ASSUME NEW q \in Requests, GetSettings(q) PROVE SettingsInv'
  <2>1. PICK change : change = NoPatch
    OBVIOUS
  <2>2. change \in Patch
    BY <2>1 DEF NoPatch, Patch
  <2>3. base = Blank /\ BeginSettings(q, change, Blank)
    BY <1>0, <1>1, <2>1 DEF GetSettings, get_or_create
  <2>4. Blank = Applied(base, change)
    BY <2>1, <2>3 DEF Applied, Changed, Member, NoPatch, Blank
  <2> QED
    BY <1>0, <2>2, <2>3, <2>4, SettingsBegins DEF Blank
<1>2. ASSUME NEW q \in Requests, NEW patch \in Patches, UpdateSettings(q, patch)
      PROVE  SettingsInv'
  <2>1. patch \in Patch
    BY SettingsAssumption
  <2>2. PICK p : p = _strip_masked_secrets(patch)
    OBVIOUS
  <2>3. BeginSettings(q, patch, _merge(base, p))
    BY <1>0, <1>2, <2>2 DEF UpdateSettings
  <2>4. /\ Member(base.key, p.key) = Changed(base.key, patch.key)
        /\ Member(base.url, p.url) = Changed(base.url, patch.url)
        /\ Member(base.prompt, p.prompt) = Changed(base.prompt, patch.prompt)
    <3>1. patch.url # "masked" /\ patch.prompt # "masked"
      BY <2>1 DEF Patch
    <3>2. CASE patch.key = "masked"
      <4>1. p = [key |-> "absent", url |-> patch.url, prompt |-> patch.prompt]
        BY <2>1, <2>2, <3>2 DEF _strip_masked_secrets, Patch
      <4> QED
        BY <3>1, <3>2, <4>1 DEF Changed, Member
    <3>3. CASE patch.key # "masked"
      <4>1. p = patch
        BY <2>2, <3>3 DEF _strip_masked_secrets
      <4> QED
        BY <3>1, <3>3, <4>1 DEF Changed
    <3> QED
      BY <3>2, <3>3
  <2>5. _merge(base, p) = [key |-> Member(base.key, p.key), url |-> Member(base.url, p.url),
                           prompt |-> Member(base.prompt, p.prompt)]
    BY <1>a DEF _merge
  <2>6. PICK set : set = _merge(base, p)
    OBVIOUS
  <2>7. set = Applied(base, patch)
    BY <2>4, <2>5, <2>6 DEF Applied
  <2> QED
    BY <1>0, <2>1, <2>3, <2>6, <2>7, SettingsBegins
<1>3. ASSUME NEW q \in Requests, ResetPrompts(q) PROVE SettingsInv'
  <2>1. PICK change : change = [key |-> "absent", url |-> "absent", prompt |-> "delete"]
    OBVIOUS
  <2>2. change \in Patch
    BY <2>1 DEF Patch
  <2>3. PICK set : set = [base EXCEPT !.prompt = None]
    OBVIOUS
  <2>4. BeginSettings(q, change, set)
    BY <1>0, <1>3, <2>1, <2>3 DEF ResetPrompts, NoPatch
  <2>5. set = Applied(base, change)
    BY <1>0, <1>a, <2>1, <2>3 DEF Applied, Changed, Member
  <2> QED
    BY <1>0, <2>2, <2>4, <2>5, SettingsBegins
<1>4. ASSUME NEW q \in Requests, NEW k \in Keys, TestConnection(q, k) PROVE SettingsInv'
  <2>1. PICK change : change = [key |-> k, url |-> "absent", prompt |-> "absent"]
    OBVIOUS
  <2>2. change \in Patch /\ change.key # "masked"
    BY <2>1, SettingsAssumption DEF Patch
  <2>3. PICK set : set = _merge(base, change)
    OBVIOUS
  <2>4. BeginSettings(q, change, set)
    BY <1>0, <1>4, <2>1, <2>3 DEF TestConnection, NoPatch, get_or_create
  <2>5. set = [key |-> Member(base.key, change.key), url |-> Member(base.url, change.url),
               prompt |-> Member(base.prompt, change.prompt)]
    BY <1>a, <2>3 DEF _merge
  <2>6. set = Applied(base, change)
    BY <2>1, <2>2, <2>5 DEF Applied, Changed
  <2> QED
    BY <1>0, <2>2, <2>4, <2>6, SettingsBegins
<1>5. ASSUME NEW q \in Requests, CommitSettings(q) PROVE SettingsInv'
  BY <1>5, SettingsCommits
<1>6. ASSUME NEW q \in Requests, AbortSettings(q) PROVE SettingsInv'
  <2>1. End(q) /\ UNCHANGED <<config, said>>
    BY <1>6 DEF AbortSettings, settingsRows
  <2>2. /\ SessionOK'
        /\ crossed' = crossed
        /\ req'[q] = None
        /\ \A o \in Requests \ {q} : req'[o] = req[o]
    BY <2>1, EndKeepsAlone DEF SettingsInv
  <2>3. SettingsRequests'
    <3> SUFFICES ASSUME NEW o \in Requests, req'[o] # None
                 PROVE  /\ SettingsShape(req[o])'
                        /\ "settings" \notin crossed' => SettingsFresh(req[o])'
      BY DEF SettingsRequests
    <3>1. PICK s : /\ s = req'[o] /\ SettingsShape(s)
                   /\ "settings" \notin crossed' => SettingsFresh(s)
      BY <2>2 DEF SettingsInv, SettingsRequests
    <3> QED
      BY <2>1, <3>1 DEF SettingsShape, SettingsFresh, get_or_create
  <2>4. (SettingsTypeOK /\ SaidIsKept)'
    BY <2>1, <2>2 DEF SettingsInv, SettingsTypeOK, SaidIsKept, get_or_create
  <2> QED
    BY <2>2, <2>3, <2>4 DEF SettingsInv
<1>7. CASE UNCHANGED settingsVars
  <2>1. UNCHANGED <<session, req, crossed, config, said>>
    BY <1>7 DEF settingsVars, session, settingsRows
  <2>2. SessionOK'
    BY <2>1, StillAlone DEF SettingsInv
  <2>3. SettingsRequests'
    <3> SUFFICES ASSUME NEW o \in Requests, req'[o] # None
                 PROVE  /\ SettingsShape(req[o])'
                        /\ "settings" \notin crossed' => SettingsFresh(req[o])'
      BY DEF SettingsRequests
    <3>1. PICK s : /\ s = req'[o] /\ SettingsShape(s)
                   /\ "settings" \notin crossed' => SettingsFresh(s)
      BY <2>1 DEF SettingsInv, SettingsRequests
    <3> QED
      BY <2>1, <3>1 DEF SettingsShape, SettingsFresh, get_or_create
  <2>4. (SettingsTypeOK /\ SaidIsKept)'
    BY <2>1 DEF SettingsInv, SettingsTypeOK, SaidIsKept, get_or_create
  <2> QED
    BY <2>2, <2>3, <2>4 DEF SettingsInv
<1> QED
  BY <1>1, <1>2, <1>3, <1>4, <1>5, <1>6, <1>7 DEF SettingsNext

\* A stage runs with each setting as the last request about it left it, unless two
\* requests met, and always with a key that was typed or that of the environment
\* (integrations/service.py: update_settings).
THEOREM SettingsAreKept == SettingsSpec => []SettingsAddUp
<1>1. SettingsInv => SettingsAddUp
  <2> SUFFICES ASSUME SettingsInv, config # None PROVE SettingsAddUp
    BY DEF SettingsAddUp
  <2>1. config.key \in Keys \cup {None, "blank"} /\ get_or_create = config
    BY DEF SettingsInv, SettingsTypeOK, Document, get_or_create
  <2>2. resolve_stage(config).key \in Keys \cup {EnvKey}
    BY <2>1 DEF resolve_stage
  <2> QED
    BY <2>1, <2>2 DEF SettingsInv, SaidIsKept, SettingsAddUp
<1> QED
  BY SettingsStarts, SettingsSteps, <1>1, PTL DEF SettingsSpec, settingsVars

\* The mask a form shows for a key and sends back is never stored as one, whatever
\* requests merge (integrations/service.py: _strip_masked_secrets).
THEOREM MasksAreNotKept == SettingsSpec => []SettingsTypeOK
<1>1. SettingsInv => SettingsTypeOK
  BY DEF SettingsInv
<1> QED
  BY SettingsStarts, SettingsSteps, <1>1, PTL DEF SettingsSpec, settingsVars

-----------------------------------------------------------------------------
(* Stage runs                                                              *)

stageRunVars == <<session, stageRunRows>>

\* What a run of a stage has gathered: of its inputs, in their order, runs that
\* succeeded.
UpstreamOK(s, upstream) ==
    /\ upstream \in Seq(RunIds \cup {0})
    /\ Len(upstream) <= Len(Inputs[s])
    /\ \A k \in DOMAIN upstream :
          upstream[k] # 0 => upstream[k] \in Succeeded(Inputs[s][k])

\* A run in flight has a number of its own, and no row yet.
RunShape(r) ==
    /\ r = [key |-> "run", run |-> r.run, stage |-> r.stage, upstream |-> r.upstream]
    /\ r.run \in 1 .. opened
    /\ r.stage \in Stages
    /\ stage_run[r.run] = None
    /\ UpstreamOK(r.stage, r.upstream)

RunRequests == \A q \in Requests : req[q] # None => RunShape(req[q])

RunsApart ==
    \A q, o \in Requests :
        q # o /\ req[q] # None /\ req[o] # None => req[q].run # req[o].run

\* A run that was committed.
RunOK(n) ==
    stage_run[n] # None =>
        /\ n <= opened
        /\ UpstreamOK(stage_run[n].stage, stage_run[n].upstream)
        /\ Len(stage_run[n].upstream) = Len(Inputs[stage_run[n].stage])
        /\ stage_run[n].status = "succeeded" /\ ~stage_run[n].stubbed =>
              stage_run[n].text = "live"

\* What was gathered last of an input is not newer than what there is of it.
SeenIsPast ==
    \A s \in Stages, t \in InputKeys : seen[<<s, t>>] <= latest_succeeded(t)

StageRunsInv ==
    /\ SessionOK
    /\ stage_run \in [RunIds -> StageRun \cup {None}]
    /\ opened \in 0 .. MaxRuns
    /\ seen \in [Stages \X InputKeys -> 0 .. MaxRuns]
    /\ \A n \in RunIds : RunOK(n)
    /\ RunRequests
    /\ RunsApart
    /\ SeenIsPast

-----------------------------------------------------------------------------
\* The inputs of a stage are keys of stages, in their order.
LEMMA InputsAre ==
  ASSUME NEW s \in Stages
  PROVE  /\ Inputs[s] \in Seq(STRING)
         /\ \A k \in 1 .. Len(Inputs[s]) : Inputs[s][k] \in InputKeys
<1>1. PICK k \in DOMAIN STAGE_REGISTRY : STAGE_REGISTRY[k].key = s
  BY StageRunsAssumption
<1>2. Inputs[s] = STAGE_REGISTRY[k].inputs
  BY <1>1, RegistryIsOrdered DEF Inputs
<1>3. Inputs[s] \in Seq(STRING)
  BY <1>2, RegistryIsOrdered
<1>4. \A n \in 1 .. Len(Inputs[s]) : Inputs[s][n] \in InputKeys
  BY <1>3 DEF InputKeys
<1> QED
  BY <1>3, <1>4

\* The newest run of a stage that succeeded, if one did.
LEMMA LatestIs ==
  ASSUME NEW t
  PROVE  /\ latest_succeeded(t) \in 0 .. MaxRuns
         /\ latest_succeeded(t) # 0 => latest_succeeded(t) \in Succeeded(t)
         /\ \A m \in Succeeded(t) : m <= latest_succeeded(t)
<1>1. Succeeded(t) \in SUBSET (1 .. MaxRuns) /\ MaxRuns \in Nat
  BY StageRunsAssumption DEF Succeeded, RunIds
<1>2. CASE Succeeded(t) = {}
  BY <1>1, <1>2 DEF latest_succeeded
<1>3. CASE Succeeded(t) # {}
  <2>1. \E k \in Succeeded(t) : \A m \in Succeeded(t) : m <= k
    BY <1>1, <1>3, Greatest
  <2>2. /\ latest_succeeded(t) \in Succeeded(t)
        /\ \A m \in Succeeded(t) : m <= latest_succeeded(t)
    BY <1>3, <2>1 DEF latest_succeeded
  <2> QED
    BY <1>1, <2>2
<1> QED
  BY <1>2, <1>3

\* So it is in the next state.
LEMMA LatestIsNext ==
  ASSUME NEW t
  PROVE  /\ latest_succeeded(t)' \in 0 .. MaxRuns
         /\ \A m \in Succeeded(t)' : m <= latest_succeeded(t)'
<1>1. PICK S : S = Succeeded(t)'
  OBVIOUS
<1>2. S \in SUBSET (1 .. MaxRuns) /\ MaxRuns \in Nat
  BY <1>1, StageRunsAssumption DEF Succeeded, RunIds
<1>3. latest_succeeded(t)' = IF S = {} THEN 0 ELSE CHOOSE n \in S : \A m \in S : m <= n
  BY <1>1 DEF latest_succeeded
<1>4. CASE S = {}
  BY <1>1, <1>2, <1>3, <1>4
<1>5. CASE S # {}
  <2>1. \E k \in S : \A m \in S : m <= k
    BY <1>2, <1>5, Greatest
  <2>2. latest_succeeded(t)' \in S /\ \A m \in S : m <= latest_succeeded(t)'
    BY <1>3, <1>5, <2>1
  <2> QED
    BY <1>1, <1>2, <2>2
<1> QED
  BY <1>4, <1>5

\* While no run is taken back, the newest one only becomes newer.
LEMMA LatestGrows ==
  ASSUME NEW t, Succeeded(t) \subseteq Succeeded(t)'
  PROVE  latest_succeeded(t) <= latest_succeeded(t)'
<1>1. latest_succeeded(t)' \in 0 .. MaxRuns /\ \A m \in Succeeded(t)' : m <= latest_succeeded(t)'
  BY LatestIsNext
<1>2. latest_succeeded(t) \in 0 .. MaxRuns
      /\ (latest_succeeded(t) # 0 => latest_succeeded(t) \in Succeeded(t))
  BY LatestIs
<1> QED
  BY <1>1, <1>2

\* What the models answer: text that is not marked as stubbed is a live model's.
LEMMA ResultsAre ==
  ASSUME NEW result \in Results
  PROVE  /\ result.status \in {"succeeded", "failed"}
         /\ result.text \in {"live", "stub", None}
         /\ result.stubbed \in BOOLEAN
         /\ result.status = "succeeded" /\ ~result.stubbed => result.text = "live"
<1> DEFINE Right(x) ==
             /\ x.status \in {"succeeded", "failed"}
             /\ x.text \in {"live", "stub", None}
             /\ x.stubbed \in BOOLEAN
             /\ x.status = "succeeded" /\ ~x.stubbed => x.text = "live"
<1>1. ASSUME NEW a \in Answers PROVE Right(run_single(a))
  BY DEF Answers, run_single, FailedRun
<1>2. ASSUME NEW f \in [Members -> Answers], NEW c \in Answers
      PROVE  Right(run_council(f, c))
  <2> DEFINE successful == {m \in Members : f[m] # "error"}
  <2>1. CASE successful = {}
    <3>1. run_council(f, c) = run_single(c)
      BY <2>1, FS_EmptySet DEF run_council
    <3> QED
      BY <1>1, <3>1
  <2>2. CASE successful # {} /\ Cardinality(successful) = 1
    <3>1. PICK m : m = CHOOSE x \in successful : TRUE
      OBVIOUS
    <3>2. m \in Members
      BY <2>2, <3>1
    <3>3. run_council(f, c) = run_single(f[m])
      BY <2>2, <3>1 DEF run_council
    <3>4. f[m] \in Answers
      BY <3>2
    <3> QED
      BY <1>1, <3>3, <3>4
  <2>3. CASE successful # {} /\ Cardinality(successful) # 1
    <3>1. PICK all \in BOOLEAN : all = (\A m \in successful : f[m] = "stub")
      OBVIOUS
    <3>2. run_council(f, c) =
            IF c = "error" THEN FailedRun
            ELSE [status |-> "succeeded", text |-> c, stubbed |-> c = "stub" \/ all]
      BY <2>3, <3>1 DEF run_council
    <3>3. CASE c = "error"
      BY <3>2, <3>3 DEF FailedRun
    <3>4. CASE c # "error"
      <4>1. PICK stub \in BOOLEAN : stub = (c = "stub" \/ all)
        OBVIOUS
      <4>2. run_council(f, c) = [status |-> "succeeded", text |-> c, stubbed |-> stub]
        BY <3>2, <3>4, <4>1
      <4>3. c = "live" \/ c = "stub"
        BY <3>4 DEF Answers
      <4>4. c = "stub" => stub
        BY <4>1, Zenon
      <4>5. c = "stub" => stub = TRUE
        BY <4>4
      <4> QED
        BY <4>2, <4>3, <4>5
    <3> QED
      BY <3>3, <3>4
  <2> QED
    BY <2>1, <2>2, <2>3
<1> HIDE DEF Right
<1>3. Right(result)
  BY <1>1, <1>2 DEF Results
<1> USE DEF Right
<1> QED
  BY <1>3

\* No run has begun at the start.
LEMMA StageRunsStart == StageRunsInit => StageRunsInv
<1> SUFFICES ASSUME StageRunsInit PROVE StageRunsInv
  OBVIOUS
<1>1. SeenIsPast
  <2> SUFFICES ASSUME NEW s \in Stages, NEW t \in InputKeys
               PROVE  seen[<<s, t>>] <= latest_succeeded(t)
    BY DEF SeenIsPast
  <2>1. seen[<<s, t>>] = 0
    BY DEF StageRunsInit
  <2> QED
    BY <2>1, LatestIs
<1>2. MaxRuns \in Nat
  BY StageRunsAssumption
<1> QED
  BY <1>1, <1>2, SessionStarts
     DEF StageRunsInit, SessionInit, StageRunsInv, RunOK, RunRequests, RunsApart

\* A run begins, with the next number.
LEMMA RunOpened ==
  ASSUME StageRunsInv, NEW q \in Requests, NEW s \in Stages, OpenRun(q, s)
  PROVE  StageRunsInv'
<1>1. PICK r : r = [key |-> "run", run |-> opened + 1, stage |-> s, upstream |-> <<>>]
  OBVIOUS
<1>2. /\ opened \in 0 .. MaxRuns /\ MaxRuns \in Nat /\ opened < MaxRuns
      /\ opened' = opened + 1
      /\ Begin(q, r)
      /\ UNCHANGED <<stage_run, seen>>
  BY <1>1, StageRunsAssumption DEF OpenRun, StageRunsInv
<1>3. /\ SessionOK'
      /\ req'[q] = r
      /\ \A o \in Requests \ {q} : req'[o] = req[o]
  BY <1>2, BeginKeepsAlone DEF StageRunsInv
<1>4. opened' \in RunIds /\ stage_run[opened'] = None
  <2>1. opened' \in RunIds /\ ~(opened' <= opened)
    BY <1>2 DEF RunIds
  <2> QED
    BY <2>1 DEF StageRunsInv, RunOK
<1>5. \A t : Succeeded(t)' = Succeeded(t)
  BY <1>2 DEF Succeeded
<1>6. \A t, u : UpstreamOK(t, u)' <=> UpstreamOK(t, u)
  BY <1>5 DEF UpstreamOK
<1>7. RunShape(r)'
  <2>1. Len(Inputs[s]) \in Nat
    BY InputsAre
  <2>2. UpstreamOK(s, <<>>)
    BY <2>1 DEF UpstreamOK
  <2> QED
    BY <1>1, <1>2, <1>4, <1>6, <2>2 DEF RunShape
<1>8. RunRequests'
  <2> SUFFICES ASSUME NEW o \in Requests, req'[o] # None PROVE RunShape(req[o])'
    BY DEF RunRequests
  <2>1. CASE o = q
    BY <1>3, <1>7, <2>1 DEF RunShape
  <2>2. CASE o # q
    <3>1. PICK t : t = req[o] /\ t = req'[o] /\ RunShape(t)
      BY <1>3, <2>2 DEF StageRunsInv, RunRequests
    <3>2. RunShape(t)'
      BY <1>2, <1>6, <3>1 DEF RunShape
    <3> QED
      BY <3>1, <3>2 DEF RunShape
  <2> QED
    BY <2>1, <2>2
<1>9. RunsApart'
  <2>1. ASSUME NEW o \in Requests \ {q}, req'[o] # None PROVE req'[o].run # r.run
    <3>1. PICK x : x = req'[o] /\ RunShape(x)
      BY <1>3, <2>1 DEF StageRunsInv, RunRequests
    <3>2. x.run \in 1 .. opened /\ r.run = opened + 1
      BY <1>1, <3>1 DEF RunShape
    <3> QED
      BY <1>2, <3>1, <3>2
  <2> QED
    BY <1>3, <2>1 DEF StageRunsInv, RunsApart
<1>10. \A n \in RunIds : RunOK(n)'
  BY <1>2, <1>6 DEF StageRunsInv, RunOK, RunIds
<1>11. SeenIsPast'
  BY <1>2, <1>5 DEF StageRunsInv, SeenIsPast, latest_succeeded
<1>12. opened' \in 0 .. MaxRuns
  BY <1>2
<1> QED
  BY <1>2, <1>3, <1>8, <1>9, <1>10, <1>11, <1>12 DEF StageRunsInv

\* A run gathers the newest artifact of its next input: none older than the last.
LEMMA InputGathered ==
  ASSUME StageRunsInv, NEW q \in Requests, Gather(q)
  PROVE  /\ StageRunsInv'
         /\ \A s \in Stages, t \in InputKeys : seen'[<<s, t>>] >= seen[<<s, t>>]
<1>1. PICK r : r = req[q]
  OBVIOUS
<1>2. PICK s, k, t, up : /\ s = r.stage /\ k = Len(r.upstream) + 1 /\ t = Inputs[s][k]
                         /\ up = latest_succeeded(t)
  OBVIOUS
<1>3. PICK u : u = Append(r.upstream, up)
  OBVIOUS
<1>4. /\ req[q] # None /\ r.key = "run" /\ k <= Len(Inputs[s])
      /\ req' = [req EXCEPT ![q].upstream = u]
      /\ seen' = [seen EXCEPT ![<<s, t>>] = up]
      /\ UNCHANGED <<crossed, stage_run, opened>>
  BY <1>1, <1>2, <1>3 DEF Gather
<1>5. /\ RunShape(r) /\ s \in Stages
      /\ r.upstream \in Seq(RunIds \cup {0}) /\ UpstreamOK(s, r.upstream)
  BY <1>1, <1>2, <1>4 DEF StageRunsInv, RunRequests, RunShape, UpstreamOK
<1>6. /\ up \in 0 .. MaxRuns
      /\ up # 0 => up \in Succeeded(t)
  BY <1>2, LatestIs
<1>7. k \in 1 .. Len(Inputs[s]) /\ t \in InputKeys
  <2>1. Len(r.upstream) \in Nat /\ Len(Inputs[s]) \in Nat
    BY <1>5, InputsAre
  <2>2. k \in 1 .. Len(Inputs[s])
    BY <1>2, <1>4, <2>1
  <2> QED
    BY <1>2, <1>5, <2>2, InputsAre
<1>8. \A x : Succeeded(x)' = Succeeded(x)
  BY <1>4 DEF Succeeded
<1>9. \A x, y : UpstreamOK(x, y)' <=> UpstreamOK(x, y)
  BY <1>8 DEF UpstreamOK
<1>10. UpstreamOK(s, u)
  <2>1. up \in RunIds \cup {0}
    BY <1>6, StageRunsAssumption DEF RunIds
  <2>2. u \in Seq(RunIds \cup {0}) /\ Len(u) = k
        /\ u[k] = up /\ \A n \in 1 .. (k - 1) : u[n] = r.upstream[n]
    BY <1>2, <1>3, <1>5, <2>1
  <2>3. DOMAIN u = 1 .. k /\ DOMAIN r.upstream = 1 .. (k - 1)
    BY <1>2, <1>5, <2>2
  <2>4. \A n \in 1 .. k : u[n] # 0 => u[n] \in Succeeded(Inputs[s][n])
    <3> SUFFICES ASSUME NEW n \in 1 .. k, u[n] # 0 PROVE u[n] \in Succeeded(Inputs[s][n])
      OBVIOUS
    <3>1. CASE n = k
      BY <1>2, <1>6, <2>2, <3>1
    <3>2. CASE n # k
      <4>1. n \in 1 .. (k - 1)
        BY <1>7, <3>2
      <4> QED
        BY <1>5, <2>2, <2>3, <4>1 DEF UpstreamOK
    <3> QED
      BY <3>1, <3>2
  <2> QED
    BY <1>7, <2>2, <2>3, <2>4 DEF UpstreamOK
<1>11. /\ req' = [o \in Requests |-> req'[o]]
       /\ req'[q] = [key |-> "run", run |-> r.run, stage |-> s, upstream |-> u]
       /\ \A o \in Requests \ {q} : req'[o] = req[o]
  <2>1. req = [o \in Requests |-> req[o]]
    BY DEF StageRunsInv, SessionOK
  <2>2. [r EXCEPT !.upstream = u] = [key |-> "run", run |-> r.run, stage |-> s, upstream |-> u]
    BY <1>2, <1>5 DEF RunShape
  <2>3. req' = [req EXCEPT ![q] = [r EXCEPT !.upstream = u]]
    BY <1>1, <1>4
  <2> QED
    BY <2>1, <2>2, <2>3
<1>12. SessionOK'
  <2>1. \A o \in Requests : /\ req'[o] # None => req[o] # None
                            /\ req[o] # None => req'[o].key = req[o].key
    BY <1>1, <1>4, <1>11
  <2> QED
    BY <1>4, <1>11, <2>1 DEF StageRunsInv, SessionOK, Alone
<1>13. RunRequests'
  <2> SUFFICES ASSUME NEW o \in Requests, req'[o] # None PROVE RunShape(req[o])'
    BY DEF RunRequests
  <2>1. CASE o = q
    <3>1. PICK x : x = [key |-> "run", run |-> r.run, stage |-> s, upstream |-> u]
      OBVIOUS
    <3>2. RunShape(x)'
      BY <1>2, <1>4, <1>5, <1>9, <1>10, <3>1 DEF RunShape
    <3> QED
      BY <1>11, <2>1, <3>1, <3>2 DEF RunShape
  <2>2. CASE o # q
    <3>1. PICK x : x = req[o] /\ x = req'[o] /\ RunShape(x)
      BY <1>11, <2>2 DEF StageRunsInv, RunRequests
    <3>2. RunShape(x)'
      BY <1>4, <1>9, <3>1 DEF RunShape
    <3> QED
      BY <3>1, <3>2 DEF RunShape
  <2> QED
    BY <2>1, <2>2
<1>14. RunsApart'
  <2>1. \A o \in Requests : /\ req'[o] # None => req[o] # None
                            /\ req[o] # None => req'[o].run = req[o].run
    BY <1>1, <1>4, <1>11
  <2> QED
    BY <2>1 DEF StageRunsInv, RunsApart
<1>15. \A n \in RunIds : RunOK(n)'
  BY <1>4, <1>9 DEF StageRunsInv, RunOK
<1>16. seen \in [Stages \X InputKeys -> 0 .. MaxRuns]
  BY DEF StageRunsInv
<1>17. /\ seen' \in [Stages \X InputKeys -> 0 .. MaxRuns]
       /\ seen'[<<s, t>>] = up
       /\ \A p \in Stages \X InputKeys : p # <<s, t>> => seen'[p] = seen[p]
  BY <1>4, <1>5, <1>6, <1>7, <1>16
<1>18. ASSUME NEW x PROVE latest_succeeded(x)' = latest_succeeded(x)
  <2>1. PICK S : S = Succeeded(x) /\ S = Succeeded(x)'
    BY <1>8
  <2> QED
    BY <2>1 DEF latest_succeeded
<1>19. seen[<<s, t>>] <= up
  BY <1>2, <1>5, <1>7 DEF StageRunsInv, SeenIsPast
<1>20. ASSUME NEW a \in Stages, NEW b \in InputKeys
       PROVE  seen'[<<a, b>>] >= seen[<<a, b>>] /\ seen'[<<a, b>>] <= latest_succeeded(b)'
  <2>1. CASE <<a, b>> = <<s, t>>
    <3>1. a = s /\ b = t /\ latest_succeeded(b)' = up
      BY <1>2, <1>18, <2>1
    <3> QED
      BY <1>6, <1>16, <1>17, <1>19, <3>1
  <2>2. CASE <<a, b>> # <<s, t>>
    <3>1. seen'[<<a, b>>] = seen[<<a, b>>] /\ seen[<<a, b>>] \in 0 .. MaxRuns
      BY <1>16, <1>17, <2>2
    <3>2. seen[<<a, b>>] <= latest_succeeded(b)
      BY DEF StageRunsInv, SeenIsPast
    <3>3. latest_succeeded(b)' = latest_succeeded(b)
      BY <1>18
    <3> QED
      BY <3>1, <3>2, <3>3
  <2> QED
    BY <2>1, <2>2
<1>21. SeenIsPast'
  BY <1>20 DEF SeenIsPast
<1> QED
  BY <1>4, <1>12, <1>13, <1>14, <1>15, <1>17, <1>20, <1>21 DEF StageRunsInv

\* A run is committed: none that succeeded is taken back.
LEMMA RunCommitted ==
  ASSUME StageRunsInv, NEW q \in Requests, CommitRun(q)
  PROVE  StageRunsInv'
<1>1. PICK r : r = req[q]
  OBVIOUS
<1>2. PICK result \in Results :
        stage_run' = [stage_run EXCEPT ![r.run] =
           [stage |-> r.stage, upstream |-> r.upstream, status |-> result.status,
            text |-> result.text, stubbed |-> result.stubbed,
            review_status |-> IF result.status = "succeeded" /\ r.stage \in HighRisk
                              THEN "needs_review" ELSE "auto_ok"]]
  BY <1>1 DEF CommitRun
<1>3. PICK row : row = [stage |-> r.stage, upstream |-> r.upstream, status |-> result.status,
                        text |-> result.text, stubbed |-> result.stubbed,
                        review_status |-> IF result.status = "succeeded" /\ r.stage \in HighRisk
                                          THEN "needs_review" ELSE "auto_ok"]
  OBVIOUS
<1>4. /\ End(q) /\ Len(r.upstream) = Len(Inputs[r.stage])
      /\ stage_run' = [stage_run EXCEPT ![r.run] = row]
      /\ UNCHANGED <<opened, seen>>
  BY <1>1, <1>2, <1>3 DEF CommitRun
<1>5. /\ SessionOK'
      /\ req[q] # None /\ req'[q] = None
      /\ \A o \in Requests \ {q} : req'[o] = req[o]
  BY <1>4, EndKeepsAlone DEF StageRunsInv
<1>6. RunShape(r)
  BY <1>1, <1>5 DEF StageRunsInv, RunRequests
<1>7. /\ stage_run \in [RunIds -> StageRun \cup {None}]
      /\ opened \in 0 .. MaxRuns /\ MaxRuns \in Nat
      /\ r.run \in RunIds /\ r.run <= opened /\ stage_run[r.run] = None
  BY <1>6, StageRunsAssumption DEF StageRunsInv, RunShape, RunIds
<1>8. row \in StageRun
  <2>1. (IF result.status = "succeeded" /\ r.stage \in HighRisk THEN "needs_review"
         ELSE "auto_ok") \in {"auto_ok", "needs_review"}
    OBVIOUS
  <2> QED
    BY <1>3, <1>6, <2>1, ResultsAre DEF StageRun, RunShape, UpstreamOK
<1>9. /\ stage_run'[r.run] = row
      /\ \A n \in RunIds \ {r.run} : stage_run'[n] = stage_run[n]
      /\ stage_run' \in [RunIds -> StageRun \cup {None}]
  BY <1>4, <1>7, <1>8
<1>10. \A t : Succeeded(t) \subseteq Succeeded(t)'
  BY <1>7, <1>9 DEF Succeeded
<1>11. ASSUME NEW x, NEW y, UpstreamOK(x, y) PROVE UpstreamOK(x, y)'
  BY <1>10, <1>11 DEF UpstreamOK
<1>12. RunRequests'
  <2> SUFFICES ASSUME NEW o \in Requests, req'[o] # None PROVE RunShape(req[o])'
    BY DEF RunRequests
  <2>1. PICK x : x = req[o] /\ x = req'[o] /\ RunShape(x) /\ o # q
    BY <1>5 DEF StageRunsInv, RunRequests
  <2>2. x.run # r.run
    BY <1>1, <1>5, <2>1 DEF StageRunsInv, RunsApart
  <2>3. x.run \in RunIds
    BY <1>7, <2>1 DEF RunShape, RunIds
  <2>4. RunShape(x)'
    BY <1>4, <1>9, <1>11, <2>1, <2>2, <2>3 DEF RunShape
  <2> QED
    BY <2>1, <2>4 DEF RunShape
<1>13. RunsApart'
  BY <1>5 DEF StageRunsInv, RunsApart
<1>14. ASSUME NEW n \in RunIds PROVE RunOK(n)'
  <2>1. CASE n = r.run
    <3>1. /\ row.stage = r.stage /\ row.upstream = r.upstream
          /\ row.status = "succeeded" /\ ~row.stubbed => row.text = "live"
      BY <1>3, ResultsAre
    <3>2. UpstreamOK(r.stage, r.upstream)'
      BY <1>6, <1>11 DEF RunShape
    <3> QED
      BY <1>4, <1>7, <1>9, <2>1, <3>1, <3>2 DEF RunOK
  <2>2. CASE n # r.run
    <3>1. PICK x : x = stage_run[n] /\ x = stage_run'[n]
      BY <1>9, <2>2
    <3>2. x # None => UpstreamOK(x.stage, x.upstream)
      BY <3>1 DEF StageRunsInv, RunOK
    <3>3. x # None => UpstreamOK(x.stage, x.upstream)'
      BY <1>11, <3>2
    <3> QED
      BY <1>4, <3>1, <3>3 DEF StageRunsInv, RunOK
  <2> QED
    BY <2>1, <2>2
<1>15. SeenIsPast'
  <2> SUFFICES ASSUME NEW s \in Stages, NEW t \in InputKeys
               PROVE  seen'[<<s, t>>] <= latest_succeeded(t)'
    BY DEF SeenIsPast
  <2>1. seen[<<s, t>>] <= latest_succeeded(t) /\ seen[<<s, t>>] \in 0 .. MaxRuns
    BY DEF StageRunsInv, SeenIsPast
  <2>2. latest_succeeded(t) <= latest_succeeded(t)' /\ latest_succeeded(t) \in 0 .. MaxRuns
    BY <1>10, LatestGrows, LatestIs
  <2>3. latest_succeeded(t)' \in Int
    <3>1. latest_succeeded(t)' \in 0 .. MaxRuns
      BY LatestIsNext
    <3> QED
      BY <3>1
  <2> QED
    BY <1>4, <2>1, <2>2, <2>3
<1> QED
  BY <1>4, <1>5, <1>9, <1>12, <1>13, <1>14, <1>15 DEF StageRunsInv

\* A step that commits no run leaves what was gathered right.
LEMMA RunsStay ==
  ASSUME StageRunsInv, UNCHANGED <<stage_run, opened, seen>>,
         \A o \in Requests : req'[o] # None => req'[o] = req[o]
  PROVE  RunRequests' /\ RunsApart' /\ (\A n \in RunIds : RunOK(n))' /\ SeenIsPast'
<1>1. \A t : Succeeded(t)' = Succeeded(t)
  BY DEF Succeeded
<1>2. \A t, u : UpstreamOK(t, u)' <=> UpstreamOK(t, u)
  BY <1>1 DEF UpstreamOK
<1>3. RunRequests'
  <2> SUFFICES ASSUME NEW o \in Requests, req'[o] # None PROVE RunShape(req[o])'
    BY DEF RunRequests
  <2>1. PICK x : x = req'[o] /\ RunShape(x)
    BY DEF StageRunsInv, RunRequests
  <2>2. RunShape(x)'
    BY <1>2, <2>1 DEF RunShape
  <2> QED
    BY <2>1, <2>2 DEF RunShape
<1>4. RunsApart'
  BY DEF StageRunsInv, RunsApart
<1>5. \A n \in RunIds : RunOK(n)'
  BY <1>2 DEF StageRunsInv, RunOK
<1>6. ASSUME NEW t PROVE latest_succeeded(t)' = latest_succeeded(t)
  <2>1. PICK S : S = Succeeded(t) /\ S = Succeeded(t)'
    BY <1>1
  <2> QED
    BY <2>1 DEF latest_succeeded
<1>7. SeenIsPast'
  BY <1>6 DEF StageRunsInv, SeenIsPast
<1> QED
  BY <1>3, <1>4, <1>5, <1>7

\* Every step of every run keeps the invariant, and gathers nothing older.
LEMMA StageRunsSteps ==
  StageRunsInv /\ [StageRunsNext]_stageRunVars =>
      /\ StageRunsInv'
      /\ \A s \in Stages, t \in InputKeys : seen'[<<s, t>>] >= seen[<<s, t>>]
<1> SUFFICES ASSUME StageRunsInv, [StageRunsNext]_stageRunVars
             PROVE  /\ StageRunsInv'
                    /\ \A s \in Stages, t \in InputKeys : seen'[<<s, t>>] >= seen[<<s, t>>]
  OBVIOUS
<1>0. ASSUME seen' = seen, NEW s \in Stages, NEW t \in InputKeys
      PROVE  seen'[<<s, t>>] >= seen[<<s, t>>]
  <2>1. seen[<<s, t>>] \in 0 .. MaxRuns
    BY DEF StageRunsInv
  <2> QED
    BY <1>0, <2>1
<1>1. ASSUME NEW q \in Requests, NEW s \in Stages, OpenRun(q, s)
      PROVE  StageRunsInv' /\ seen' = seen
  BY <1>1, RunOpened DEF OpenRun
<1>2. ASSUME NEW q \in Requests, Gather(q)
      PROVE  /\ StageRunsInv'
             /\ \A s \in Stages, t \in InputKeys : seen'[<<s, t>>] >= seen[<<s, t>>]
  BY <1>2, InputGathered
<1>3. ASSUME NEW q \in Requests, CommitRun(q) PROVE StageRunsInv' /\ seen' = seen
  BY <1>3, RunCommitted DEF CommitRun
<1>4. ASSUME NEW q \in Requests, AbortRun(q) PROVE StageRunsInv' /\ seen' = seen
  <2>1. End(q) /\ UNCHANGED <<stage_run, opened, seen>>
    BY <1>4 DEF AbortRun, stageRunRows
  <2>2. /\ SessionOK'
        /\ req'[q] = None
        /\ \A o \in Requests \ {q} : req'[o] = req[o]
    BY <2>1, EndKeepsAlone DEF StageRunsInv
  <2>3. RunRequests' /\ RunsApart' /\ (\A n \in RunIds : RunOK(n))' /\ SeenIsPast'
    BY <2>1, <2>2, RunsStay
  <2> QED
    BY <2>1, <2>2, <2>3 DEF StageRunsInv
<1>5. CASE UNCHANGED stageRunVars
  <2>1. UNCHANGED <<session, req, stage_run, opened, seen>>
    BY <1>5 DEF stageRunVars, session, stageRunRows
  <2>2. SessionOK'
    BY <2>1, StillAlone DEF StageRunsInv
  <2>3. RunRequests' /\ RunsApart' /\ (\A n \in RunIds : RunOK(n))' /\ SeenIsPast'
    BY <2>1, RunsStay
  <2>4. StageRunsInv'
    BY <2>1, <2>2, <2>3 DEF StageRunsInv
  <2> QED
    BY <1>0, <2>1, <2>4
<1> QED
  BY <1>0, <1>1, <1>2, <1>3, <1>4, <1>5 DEF StageRunsNext

\* Runs are well formed, read off the invariant.
LEMMA RunsAre == StageRunsInv => StageRunsTypeOK
<1> SUFFICES ASSUME StageRunsInv, NEW n \in RunIds, stage_run[n] # None
             PROVE  /\ n <= opened
                    /\ Len(stage_run[n].upstream) = Len(Inputs[stage_run[n].stage])
                    /\ \A k \in DOMAIN stage_run[n].upstream :
                          stage_run[n].upstream[k] # 0 =>
                            LET up == stage_run[stage_run[n].upstream[k]]
                            IN  /\ up # None /\ up.status = "succeeded"
                                /\ up.stage = Inputs[stage_run[n].stage][k]
                    /\ stage_run[n].status = "succeeded" /\ ~stage_run[n].stubbed =>
                          stage_run[n].text = "live"
  BY DEF StageRunsInv, StageRunsTypeOK
<1>1. RunOK(n)
  BY DEF StageRunsInv
<1> QED
  BY <1>1 DEF RunOK, UpstreamOK, Succeeded

\* The artifacts a run was given come from runs of its inputs, in their order, that
\* succeeded, and text not marked as stubbed is a live model's
\* (stages/service.py: _gather_upstream, ai/council.py).
THEOREM RunsAreWellFounded == StageRunsSpec => []StageRunsTypeOK
  BY StageRunsStart, StageRunsSteps, RunsAre, PTL DEF StageRunsSpec, stageRunVars

\* A stage that is run again is never given an older artifact of an input than
\* before (stages/service.py:57).
THEOREM UpstreamOnlyAdvances == StageRunsSpec => UpstreamNeverGoesBack
<1>1. StageRunsInv /\ [StageRunsNext]_stageRunVars =>
        [\A s \in Stages, t \in InputKeys : seen'[<<s, t>>] >= seen[<<s, t>>]]_stageRunVars
  BY StageRunsSteps
<1> QED
  BY StageRunsStart, StageRunsSteps, <1>1, PTL
     DEF StageRunsSpec, UpstreamNeverGoesBack, stageRunVars

-----------------------------------------------------------------------------
(* The design of an assessment                                             *)

designVars == <<session, designRows>>

Row == [Columns -> Column]
Marks == [Columns -> [redesign : BOOLEAN, stage : BOOLEAN]]

\* What a request has read and is going to write.
DesignShape(r) ==
    \/ /\ r.key = "design"
       /\ r.loaded \in Row \cup {None}
       /\ r.set \in Row
       /\ r.said \in Marks
    \/ /\ r.key \in {"effort", "pinned_effort"}
       /\ r.new \subseteq EffortRow
       /\ \A x, y \in r.new : x = y
       /\ \A x \in r.new : x.pinned = (r.key = "pinned_effort")

\* It has read the row there is, and leaves the parts it does not write; or it adds
\* an effort map where there is none.
DesignFresh(r) ==
    /\ r.key = "design" /\ "design" \notin crossed =>
          /\ r.loaded = design
          /\ \A c \in Columns :
                /\ ~r.said[c].redesign =>
                      r.set[c].redesign = get_or_create_assessment[c].redesign
                /\ ~r.said[c].stage => r.set[c].stage = get_or_create_assessment[c].stage
    /\ r.key = "effort" /\ "effort" \notin crossed =>
          \A x \in effort : ~x.pinned => r.new = {}

DesignRequests ==
    \A q \in Requests : req[q] # None => DesignShape(req[q]) /\ DesignFresh(req[q])

DesignInv ==
    /\ SessionOK
    /\ DesignTypeOK
    /\ DesignRequests
    /\ PartsSurvive

-----------------------------------------------------------------------------
\* The row there is, or an empty one.
LEMMA BaseIsRow ==
  ASSUME DesignTypeOK
  PROVE  get_or_create_assessment \in Row
  BY DEF DesignTypeOK, get_or_create_assessment, NoDesign, Row, Column, Part

\* The UPDATE of a row is a row, and what the request set if nothing moved.
LEMMA DesignFlush ==
  ASSUME NEW now \in Row, NEW loaded \in Row, NEW set \in Row
  PROVE  /\ Flush(now, loaded, set) \in Row
         /\ now = loaded => Flush(now, loaded, set) = set
  BY DEF Flush, Row

\* At the start there is no row, and nothing was written.
LEMMA DesignStarts == DesignInit => DesignInv
<1> SUFFICES ASSUME DesignInit PROVE DesignInv
  OBVIOUS
<1>1. DesignTypeOK
  BY DEF DesignInit, DesignTypeOK, NoDesign, Column, Part
<1>2. PartsSurvive
  BY DEF DesignInit, PartsSurvive, get_or_create_assessment
<1> QED
  BY <1>1, <1>2, SessionStarts DEF DesignInit, SessionInit, DesignInv, DesignRequests

\* A request begins.
LEMMA DesignBegins ==
  ASSUME DesignInv, NEW q \in Requests, NEW r, Begin(q, r), UNCHANGED designRows,
         DesignShape(r), DesignFresh(r)
  PROVE  DesignInv'
<1>1. /\ SessionOK'
      /\ crossed \subseteq crossed'
      /\ req'[q] = r
      /\ \A o \in Requests \ {q} : req'[o] = req[o]
  BY BeginKeepsAlone DEF DesignInv
<1>2. UNCHANGED <<design, effort, written>>
  BY DEF designRows
<1>3. DesignRequests'
  <2> SUFFICES ASSUME NEW o \in Requests, req'[o] # None
               PROVE  DesignShape(req[o])' /\ DesignFresh(req[o])'
    BY DEF DesignRequests
  <2>1. PICK s : s = req'[o] /\ DesignShape(s) /\ DesignFresh(s)
    BY <1>1 DEF DesignInv, DesignRequests
  <2>2. get_or_create_assessment' = get_or_create_assessment
    BY <1>2 DEF get_or_create_assessment
  <2>3. DesignFresh(s)'
    BY <1>1, <1>2, <2>1, <2>2 DEF DesignFresh
  <2> QED
    BY <2>1, <2>3 DEF DesignShape, DesignFresh
<1>4. (DesignTypeOK /\ PartsSurvive)'
  BY <1>1, <1>2 DEF DesignInv, DesignTypeOK, PartsSurvive, get_or_create_assessment
<1> QED
  BY <1>1, <1>3, <1>4 DEF DesignInv

\* A request begins that has read the row and writes some of its parts.
LEMMA PartsBegin ==
  ASSUME DesignInv, NEW q \in Requests, NEW row \in Row, NEW says \in Marks,
         BeginDesign(q, row, says),
         \A c \in Columns :
            /\ ~says[c].redesign => row[c].redesign = get_or_create_assessment[c].redesign
            /\ ~says[c].stage => row[c].stage = get_or_create_assessment[c].stage
  PROVE  DesignInv'
<1>1. PICK r : r = [key |-> "design", loaded |-> design, set |-> row, said |-> says]
  OBVIOUS
<1>2. Begin(q, r) /\ UNCHANGED designRows
  BY <1>1 DEF BeginDesign
<1>3. design \in Row \cup {None}
  BY DEF DesignInv, DesignTypeOK, Row
<1>4. DesignShape(r) /\ DesignFresh(r)
  BY <1>1, <1>3 DEF DesignShape, DesignFresh
<1> QED
  BY <1>2, <1>4, DesignBegins

\* The columns of an assessment are written that the request has changed.
LEMMA DesignCommits ==
  ASSUME DesignInv, NEW q \in Requests, CommitDesign(q)
  PROVE  DesignInv'
<1>1. PICK r : r = req[q]
  OBVIOUS
<1>2. /\ End(q) /\ r.key = "design"
      /\ r.loaded = None => design = None
      /\ design' = IF design = None THEN r.set ELSE Flush(design, r.loaded, r.set)
      /\ written' = IF "design" \in crossed THEN NoDesign ELSE
                    [c \in Columns |-> [p \in {"redesign", "stage"} |->
                       IF r.said[c][p] THEN r.set[c][p] ELSE written[c][p]]]
      /\ effort' = effort
  BY <1>1 DEF CommitDesign
<1>3. /\ SessionOK'
      /\ crossed' = crossed
      /\ req[q] # None /\ req'[q] = None
      /\ \A o \in Requests \ {q} : req'[o] = req[o]
  BY <1>2, EndKeepsAlone DEF DesignInv
<1>4. /\ r.loaded \in Row \cup {None} /\ r.set \in Row /\ r.said \in Marks
      /\ DesignFresh(r)
  BY <1>1, <1>2, <1>3 DEF DesignInv, DesignRequests, DesignShape
<1>5. design' \in Row /\ ("design" \notin crossed => design' = r.set)
  <2>1. CASE design = None
    BY <1>2, <1>4, <2>1
  <2>2. CASE design # None
    <3>1. design \in Row /\ r.loaded \in Row
      BY <1>2, <1>4, <2>2 DEF DesignInv, DesignTypeOK, Row
    <3> QED
      BY <1>2, <1>4, <2>2, <3>1, DesignFlush DEF DesignFresh
  <2> QED
    BY <2>1, <2>2
<1>6. design' # None /\ get_or_create_assessment' = design'
  BY <1>5, DesignRowAssumption DEF Row, get_or_create_assessment
<1>7. ASSUME "design" \notin crossed PROVE written' = design'
  <2>1. written = get_or_create_assessment
    BY <1>7 DEF DesignInv, PartsSurvive
  <2>2. \A c \in Columns : r.set[c] \in Column
    BY <1>4 DEF Row
  <2>3. ASSUME NEW c \in Columns
        PROVE  [p \in {"redesign", "stage"} |->
                  IF r.said[c][p] THEN r.set[c][p] ELSE written[c][p]] = r.set[c]
    <3>1. ~r.said[c].redesign => written[c].redesign = r.set[c].redesign
      BY <1>2, <1>4, <1>7, <2>1 DEF DesignFresh
    <3>2. ~r.said[c].stage => written[c].stage = r.set[c].stage
      BY <1>2, <1>4, <1>7, <2>1 DEF DesignFresh
    <3>3. r.set[c] = [p \in {"redesign", "stage"} |-> r.set[c][p]]
      BY <2>2 DEF Column
    <3> QED
      BY <3>1, <3>2, <3>3
  <2>4. written' = [c \in Columns |-> r.set[c]]
    BY <1>2, <1>7, <2>3
  <2> QED
    BY <1>4, <1>5, <1>7, <2>4 DEF Row
<1>8. written' \in Row
  <2>1. CASE "design" \in crossed
    BY <1>2, <2>1 DEF NoDesign, Row, Column, Part
  <2>2. CASE "design" \notin crossed
    BY <1>5, <1>7, <2>2
  <2> QED
    BY <2>1, <2>2
<1>9. DesignTypeOK'
  BY <1>2, <1>5, <1>8 DEF DesignInv, DesignTypeOK, Row
<1>10. PartsSurvive'
  BY <1>2, <1>3, <1>6, <1>7 DEF DesignInv, PartsSurvive
<1>11. DesignRequests'
  <2> SUFFICES ASSUME NEW o \in Requests, req'[o] # None
               PROVE  DesignShape(req[o])' /\ DesignFresh(req[o])'
    BY DEF DesignRequests
  <2>1. PICK s : s = req'[o] /\ s = req[o] /\ o # q /\ DesignShape(s) /\ DesignFresh(s)
    BY <1>3 DEF DesignInv, DesignRequests
  <2>2. s.key = "design" => "design" \in crossed
    BY <1>1, <1>2, <1>3, <2>1, OthersCrossed DEF DesignInv
  <2>3. DesignFresh(s)'
    BY <1>2, <1>3, <2>1, <2>2 DEF DesignFresh
  <2> QED
    BY <2>1, <2>3 DEF DesignShape, DesignFresh
<1> QED
  BY <1>3, <1>9, <1>10, <1>11 DEF DesignInv

\* An effort map is inserted, or the one there is updated.
LEMMA EffortCommits ==
  ASSUME DesignInv, NEW q \in Requests, CommitEffort(q)
  PROVE  DesignInv'
<1>1. PICK r : r = req[q]
  OBVIOUS
<1>2. /\ End(q) /\ r.key \in {"effort", "pinned_effort"}
      /\ \A e \in r.new : e.pinned => \A x \in effort : ~x.pinned
      /\ effort' = effort \cup r.new
      /\ UNCHANGED <<design, written>>
  BY <1>1 DEF CommitEffort
<1>3. /\ SessionOK'
      /\ crossed' = crossed
      /\ req[q] # None /\ req'[q] = None
      /\ \A o \in Requests \ {q} : req'[o] = req[o]
  BY <1>2, EndKeepsAlone DEF DesignInv
<1>4. /\ r.new \subseteq EffortRow
      /\ \A x, y \in r.new : x = y
      /\ \A x \in r.new : x.pinned = (r.key = "pinned_effort")
      /\ DesignFresh(r)
  BY <1>1, <1>2, <1>3 DEF DesignInv, DesignRequests, DesignShape
<1>5. DesignTypeOK'
  BY <1>2, <1>4 DEF DesignInv, DesignTypeOK
<1>6. ASSUME "effort" \notin crossed PROVE \A x, y \in effort' : x.pinned \/ y.pinned \/ x = y
  <2>1. \A x, y \in effort : x.pinned \/ y.pinned \/ x = y
    BY <1>6 DEF DesignInv, PartsSurvive
  <2>2. CASE r.key = "pinned_effort"
    BY <1>2, <1>4, <2>1, <2>2
  <2>3. CASE r.key = "effort"
    <3>1. \A x \in effort : ~x.pinned => r.new = {}
      BY <1>4, <1>6, <2>3 DEF DesignFresh
    <3> QED
      BY <1>2, <1>4, <2>1, <3>1
  <2> QED
    BY <1>2, <2>2, <2>3
<1>7. PartsSurvive'
  <2>1. get_or_create_assessment' = get_or_create_assessment
    BY <1>2 DEF get_or_create_assessment
  <2> QED
    BY <1>2, <1>3, <1>6, <2>1 DEF DesignInv, PartsSurvive
<1>8. DesignRequests'
  <2> SUFFICES ASSUME NEW o \in Requests, req'[o] # None
               PROVE  DesignShape(req[o])' /\ DesignFresh(req[o])'
    BY DEF DesignRequests
  <2>1. PICK s : s = req'[o] /\ s = req[o] /\ o # q /\ DesignShape(s) /\ DesignFresh(s)
    BY <1>3 DEF DesignInv, DesignRequests
  <2>2. s.key = "effort" /\ "effort" \notin crossed => r.key = "pinned_effort"
    BY <1>1, <1>2, <1>3, <2>1, OthersCrossed DEF DesignInv
  <2>3. get_or_create_assessment' = get_or_create_assessment
    BY <1>2 DEF get_or_create_assessment
  <2>4. DesignFresh(s)'
    BY <1>2, <1>3, <1>4, <2>1, <2>2, <2>3 DEF DesignFresh
  <2> QED
    BY <2>1, <2>4 DEF DesignShape, DesignFresh
<1> QED
  BY <1>3, <1>5, <1>7, <1>8 DEF DesignInv

\* Every step of every request keeps the invariant.
LEMMA DesignSteps == DesignInv /\ [DesignNext]_designVars => DesignInv'
<1> SUFFICES ASSUME DesignInv, [DesignNext]_designVars PROVE DesignInv'
  OBVIOUS
<1>0. PICK base : base = get_or_create_assessment /\ base \in Row
  BY BaseIsRow DEF DesignInv
<1>1. ASSUME NEW q \in Requests, NEW says \in [Columns -> Part], ApproveRedesign(q, says)
      PROVE  DesignInv'
  <2>1. PICK row : row = redesigned(base, says)
    OBVIOUS
  <2>2. PICK marks : marks = [c \in Columns |-> [redesign |-> says[c] # None, stage |-> FALSE]]
    OBVIOUS
  <2>3. BeginDesign(q, row, marks)
    BY <1>0, <1>1, <2>1, <2>2 DEF ApproveRedesign
  <2>4. ASSUME NEW c \in Columns
        PROVE  /\ row[c] \in Column
               /\ says[c] = None => row[c].redesign = base[c].redesign
               /\ row[c].stage = base[c].stage
    <3>1. base[c] \in Column /\ says[c] \in Part
      BY <1>0 DEF Row
    <3>2. row[c] = IF says[c] = None THEN base[c] ELSE [base[c] EXCEPT !.redesign = says[c]]
      BY <2>1 DEF redesigned
    <3> QED
      BY <3>1, <3>2 DEF Column
  <2>5. row \in Row
    BY <2>1, <2>4 DEF Row, redesigned
  <2>6. marks \in Marks
    BY <2>2 DEF Marks
  <2>7. \A c \in Columns :
          /\ ~marks[c].redesign => row[c].redesign = base[c].redesign
          /\ ~marks[c].stage => row[c].stage = base[c].stage
    BY <2>2, <2>4
  <2> QED
    BY <1>0, <2>3, <2>5, <2>6, <2>7, PartsBegin
<1>2. ASSUME NEW q \in Requests, NEW c \in Columns, NEW word \in Part, ApproveStage(q, c, word)
      PROVE  DesignInv'
  <2>1. PICK row : row = staged(base, c, word)
    OBVIOUS
  <2>2. PICK marks : marks = [d \in Columns |-> [redesign |-> FALSE,
                                stage |-> d = c /\ (word # None \/ c = "gate")]]
    OBVIOUS
  <2>3. BeginDesign(q, row, marks)
    BY <1>0, <1>2, <2>1, <2>2 DEF ApproveStage
  <2>4. PICK new : new = IF word = None /\ c # "gate" THEN base[c].stage ELSE word
    OBVIOUS
  <2>5. base[c] \in Column /\ new \in Part
    BY <1>0, <2>4 DEF Row, Column
  <2>6. row = [base EXCEPT ![c] = [base[c] EXCEPT !.stage = new]]
    BY <1>0, <2>1, <2>4 DEF staged, Row
  <2>7. /\ row[c] \in Column /\ row[c].redesign = base[c].redesign /\ row[c].stage = new
        /\ \A d \in Columns \ {c} : row[d] = base[d]
        /\ row \in Row
    <3>1. [base[c] EXCEPT !.stage = new] = [redesign |-> base[c].redesign, stage |-> new]
      BY <2>5 DEF Column
    <3> QED
      BY <1>0, <2>5, <2>6, <3>1 DEF Row, Column
  <2>8. marks \in Marks
    BY <2>2 DEF Marks
  <2>9. \A d \in Columns :
          /\ ~marks[d].redesign => row[d].redesign = base[d].redesign
          /\ ~marks[d].stage => row[d].stage = base[d].stage
    BY <2>2, <2>4, <2>7
  <2> QED
    BY <1>0, <2>3, <2>7, <2>8, <2>9, PartsBegin
<1>3. ASSUME NEW q \in Requests, NEW c \in Columns, NEW column \in Column,
             UpdateAssessment(q, c, column)
      PROVE  DesignInv'
  <2>1. PICK row : row = patched(base, c, column)
    OBVIOUS
  <2>2. PICK marks : marks = [d \in Columns |-> [redesign |-> d = c, stage |-> d = c]]
    OBVIOUS
  <2>3. BeginDesign(q, row, marks)
    BY <1>0, <1>3, <2>1, <2>2 DEF UpdateAssessment, get_or_create_assessment
  <2>4. row \in Row /\ \A d \in Columns \ {c} : row[d] = base[d]
    BY <1>0, <2>1 DEF patched, Row
  <2>5. marks \in Marks
    BY <2>2 DEF Marks
  <2>6. \A d \in Columns :
          /\ ~marks[d].redesign => row[d].redesign = base[d].redesign
          /\ ~marks[d].stage => row[d].stage = base[d].stage
    BY <2>2, <2>4
  <2> QED
    BY <1>0, <2>3, <2>4, <2>5, <2>6, PartsBegin
<1>4. ASSUME NEW q \in Requests, CommitDesign(q) PROVE DesignInv'
  BY <1>4, DesignCommits
<1>5. ASSUME NEW q \in Requests, AbortDesign(q) PROVE DesignInv'
  <2>1. End(q) /\ UNCHANGED <<design, effort, written>>
    BY <1>5 DEF AbortDesign, designRows
  <2>2. /\ SessionOK'
        /\ crossed' = crossed
        /\ req'[q] = None
        /\ \A o \in Requests \ {q} : req'[o] = req[o]
    BY <2>1, EndKeepsAlone DEF DesignInv
  <2>3. DesignRequests'
    <3> SUFFICES ASSUME NEW o \in Requests, req'[o] # None
                 PROVE  DesignShape(req[o])' /\ DesignFresh(req[o])'
      BY DEF DesignRequests
    <3>1. PICK s : s = req'[o] /\ DesignShape(s) /\ DesignFresh(s)
      BY <2>2 DEF DesignInv, DesignRequests
    <3>2. DesignFresh(s)'
      BY <2>1, <2>2, <3>1 DEF DesignFresh, get_or_create_assessment
    <3> QED
      BY <3>1, <3>2 DEF DesignShape, DesignFresh
  <2>4. (DesignTypeOK /\ PartsSurvive)'
    BY <2>1, <2>2 DEF DesignInv, DesignTypeOK, PartsSurvive, get_or_create_assessment
  <2> QED
    BY <2>2, <2>3, <2>4 DEF DesignInv
<1>6. ASSUME NEW q \in Requests, NEW pinned \in BOOLEAN, ApproveEffort(q, pinned)
      PROVE  DesignInv'
  <2>1. PICK found : found = {e \in effort : e.pinned = pinned}
    OBVIOUS
  <2>2. PICK r : r = [key |-> IF pinned THEN "pinned_effort" ELSE "effort",
                      new |-> IF found = {} THEN {[by |-> q, pinned |-> pinned]} ELSE {}]
    OBVIOUS
  <2>3. Begin(q, r) /\ UNCHANGED designRows
    BY <1>6, <2>1, <2>2 DEF ApproveEffort
  <2>4. r.new \subseteq {[by |-> q, pinned |-> pinned]} /\ (found # {} => r.new = {})
    BY <2>2
  <2>5. r.new \subseteq EffortRow /\ (\A x, y \in r.new : x = y)
    BY <2>4 DEF EffortRow
  <2>6. CASE pinned
    <3>1. r.key = "pinned_effort"
      BY <2>2, <2>6
    <3>2. \A x \in r.new : x.pinned = TRUE
      BY <2>4, <2>6
    <3>3. DesignShape(r) /\ DesignFresh(r)
      BY <2>5, <3>1, <3>2 DEF DesignShape, DesignFresh
    <3> QED
      BY <2>3, <3>3, DesignBegins
  <2>7. CASE ~pinned
    <3>1. r.key = "effort"
      BY <2>2, <2>7
    <3>2. \A x \in r.new : x.pinned = FALSE
      BY <2>4, <2>7
    <3>3. \A x \in effort : ~x.pinned => r.new = {}
      BY <2>1, <2>4, <2>7 DEF DesignInv, DesignTypeOK, EffortRow
    <3>4. DesignShape(r) /\ DesignFresh(r)
      BY <2>5, <3>1, <3>2, <3>3 DEF DesignShape, DesignFresh
    <3> QED
      BY <2>3, <3>4, DesignBegins
  <2> QED
    BY <2>6, <2>7
<1>7. ASSUME NEW q \in Requests, CommitEffort(q) PROVE DesignInv'
  BY <1>7, EffortCommits
<1>8. CASE UNCHANGED designVars
  <2>1. UNCHANGED <<session, req, crossed, design, effort, written>>
    BY <1>8 DEF designVars, session, designRows
  <2>2. SessionOK'
    BY <2>1, StillAlone DEF DesignInv
  <2>3. DesignRequests'
    <3> SUFFICES ASSUME NEW o \in Requests, req'[o] # None
                 PROVE  DesignShape(req[o])' /\ DesignFresh(req[o])'
      BY DEF DesignRequests
    <3>1. PICK s : s = req'[o] /\ DesignShape(s) /\ DesignFresh(s)
      BY <2>1 DEF DesignInv, DesignRequests
    <3>2. DesignFresh(s)'
      BY <2>1, <3>1 DEF DesignFresh, get_or_create_assessment
    <3> QED
      BY <3>1, <3>2 DEF DesignShape, DesignFresh
  <2>4. (DesignTypeOK /\ PartsSurvive)'
    BY <2>1 DEF DesignInv, DesignTypeOK, PartsSurvive, get_or_create_assessment
  <2> QED
    BY <2>2, <2>3, <2>4 DEF DesignInv
<1> QED
  BY <1>1, <1>2, <1>3, <1>4, <1>5, <1>6, <1>7, <1>8
     DEF DesignNext, AssessmentNext, EffortNext

\* Each part of an assessment says what was written to it last, and a course has
\* one effort map that names no version, unless two requests met on the row
\* (blueprint/promotion.py, service.py).
THEOREM PartsAreKept == DesignSpec => []PartsSurvive
<1>1. DesignInv => PartsSurvive
  BY DEF DesignInv
<1> QED
  BY DesignStarts, DesignSteps, <1>1, PTL DEF DesignSpec, designVars

-----------------------------------------------------------------------------
(* Outcomes                                                                *)

Table == Seq(OutcomeRow)

Code(items, i) == IF items[i].code = None THEN i ELSE items[i].code

\* The row an item without one gets.
Base(items, i) ==
    NewOutcome(Code(items, i), i - 1,
               IF items[i].statement = None THEN Placeholder ELSE items[i].statement)

RowAt(rows, items, i, order) ==
    LET same == {k \in DOMAIN order : rows[order[k]].code = items[i].code}
    IN  IF same # {} THEN order[Max(same)]
        ELSE IF i \in DOMAIN order THEN order[i] ELSE 0

TakeItem(rows, items, order, table, i) ==
    LET row == RowAt(rows, items, i, order)
    IN  IF row # 0 THEN [table EXCEPT ![row] = Refine(@, items[i])]
        ELSE Append(table, Refine(Base(items, i), items[i]))

\* What a review makes of the rows, item by item.
Chain(items, order, rows, t) ==
    /\ t \in [0 .. Len(items) -> Table]
    /\ t[0] = rows
    /\ \A k \in 1 .. Len(items) : t[k] = TakeItem(rows, items, order, t[k - 1], k)

ReviewedBy(items, order, rows, table) ==
    \E t : Chain(items, order, rows, t) /\ t[Len(items)] = table

\* An artifact of clo_review is a sequence of items.
LEMMA ReviewIs ==
  ASSUME NEW items \in Reviews
  PROVE  /\ items \in Seq(ReviewItem) /\ Len(items) \in Nat /\ Len(items) <= MaxOutcomes
         /\ DOMAIN items = 1 .. Len(items)
         /\ \A i \in 1 .. Len(items) :
               /\ items[i] \in ReviewItem
               /\ items[i].code \in Codes \cup {None}
               /\ items[i].statement \in Wordings \cup {None}
               /\ items[i].original \in Wordings \cup {None}
<1>1. items \in Seq(ReviewItem) /\ Len(items) <= MaxOutcomes
  BY OutcomesAssumption
<1>2. DOMAIN items = 1 .. Len(items) /\ \A i \in 1 .. Len(items) : items[i] \in ReviewItem
  BY <1>1
<1> QED
  BY <1>1, <1>2 DEF ReviewItem

\* What refining a row keeps.
LEMMA RefineIs ==
  ASSUME NEW row \in OutcomeRow, NEW item \in ReviewItem
  PROVE  /\ Refine(row, item) \in OutcomeRow
         /\ Refine(row, item).code = row.code
         /\ Refine(row, item).position = row.position
         /\ Refine(row, item).first = row.first
         /\ Refine(row, item).statement =
               IF item.statement # None THEN item.statement ELSE row.statement
         /\ Refine(row, item).attributes.refined = TRUE
         /\ Refine(row, item).attributes.original =
               IF item.original # None THEN item.original
               ELSE IF item.statement # None /\ item.statement # row.statement
                       /\ row.attributes.original = None THEN row.statement
               ELSE row.attributes.original
         /\ item.original # None => Refine(row, item).claimed = TRUE
         /\ item.original = None => Refine(row, item).claimed = row.claimed
<1> DEFINE new == item.statement # None /\ item.statement # row.statement
           orig == IF item.original # None THEN item.original
                   ELSE IF new /\ row.attributes.original = None THEN row.statement
                   ELSE row.attributes.original
           st == IF new THEN item.statement ELSE row.statement
           cl == row.claimed \/ item.original # None
<1>1. /\ item.statement \in Wordings \cup {None} /\ item.original \in Wordings \cup {None}
  BY DEF ReviewItem
<1>2. /\ row.statement \in Statements /\ row.attributes.original \in Statements \cup {None}
      /\ row.claimed \in BOOLEAN
      /\ row = [code |-> row.code, position |-> row.position, statement |-> row.statement,
                attributes |-> row.attributes, first |-> row.first, claimed |-> row.claimed]
  BY DEF OutcomeRow
<1>3. st \in Statements /\ orig \in Statements \cup {None} /\ cl \in BOOLEAN
  BY <1>1, <1>2 DEF Statements
<1> DEFINE given == [code |-> row.code, position |-> row.position, statement |-> row.statement,
                     attributes |-> row.attributes, first |-> row.first, claimed |-> row.claimed]
<1>4. Refine(row, item) = [code |-> row.code, position |-> row.position, statement |-> st,
                           attributes |-> [refined |-> TRUE, original |-> orig],
                           first |-> row.first, claimed |-> cl]
  <2>1. Refine(given, item) = [code |-> row.code, position |-> row.position, statement |-> st,
                               attributes |-> [refined |-> TRUE, original |-> orig],
                               first |-> row.first, claimed |-> cl]
    <3>1. Refine(given, item) =
             [given EXCEPT !.statement = st, !.attributes = [refined |-> TRUE, original |-> orig],
                           !.claimed = cl]
      BY <1>2 DEF Refine
    <3> HIDE DEF st, orig, cl
    <3> QED
      BY <3>1
  <2> HIDE DEF st, orig, cl
  <2> QED
    BY <1>2, <2>1
<1>5. [refined |-> TRUE, original |-> orig] \in [original : Statements \cup {None}, refined : BOOLEAN]
  BY <1>3
<1>6. Refine(row, item) \in OutcomeRow
  <2> HIDE DEF st, orig, cl
  <2> QED
    BY <1>3, <1>4, <1>5 DEF OutcomeRow
<1>7. item.original # None => cl = TRUE
  OBVIOUS
<1>8. item.original = None => cl = row.claimed
  BY <1>2
<1>9. st = IF item.statement # None THEN item.statement ELSE row.statement
  OBVIOUS
<1> HIDE DEF cl, st
<1> QED
  BY <1>4, <1>6, <1>7, <1>8, <1>9

\* The row an item gets before it refines it.
LEMMA BaseIs ==
  ASSUME NEW items \in Reviews, NEW i \in 1 .. Len(items)
  PROVE  /\ Base(items, i) \in OutcomeRow
         /\ Base(items, i).code = Code(items, i) /\ Base(items, i).position = i - 1
         /\ Base(items, i).statement = Base(items, i).first
<1>1. Code(items, i) \in Codes /\ i - 1 \in 0 .. MaxOutcomes
  BY ReviewIs, OutcomesAssumption DEF Code, Codes
<1> DEFINE s == IF items[i].statement = None THEN Placeholder ELSE items[i].statement
<1>2. s \in Statements
  BY ReviewIs DEF Statements
<1> HIDE DEF s
<1>3. Base(items, i) = NewOutcome(Code(items, i), i - 1, s)
  BY DEF Base, s
<1> QED
  BY <1>1, <1>2, <1>3 DEF NewOutcome, OutcomeRow

\* An item leaves a table.
LEMMA TakeIs ==
  ASSUME NEW items \in Reviews, NEW i \in 1 .. Len(items), NEW rows, NEW order,
         NEW table \in Table
  PROVE  TakeItem(rows, items, order, table, i) \in Table
<1> DEFINE row == RowAt(rows, items, i, order)
<1>1. items[i] \in ReviewItem
  BY ReviewIs
<1>2. CASE row # 0
  <2>1. TakeItem(rows, items, order, table, i) = [table EXCEPT ![row] = Refine(table[row], items[i])]
    BY <1>2 DEF TakeItem
  <2>2. row \in DOMAIN table => Refine(table[row], items[i]) \in OutcomeRow
    <3>1. row \in DOMAIN table => table[row] \in OutcomeRow
      BY DEF Table
    <3> QED
      BY <1>1, <3>1, RefineIs
  <2>3. table \in [1 .. Len(table) -> OutcomeRow] /\ Len(table) \in Nat
    BY DEF Table
  <2> HIDE DEF row
  <2>4. TakeItem(rows, items, order, table, i) \in [1 .. Len(table) -> OutcomeRow]
    BY <2>1, <2>2, <2>3
  <2> QED
    BY <2>3, <2>4 DEF Table
<1>3. CASE row = 0
  <2>1. TakeItem(rows, items, order, table, i) = Append(table, Refine(Base(items, i), items[i]))
    BY <1>3 DEF TakeItem
  <2>2. Refine(Base(items, i), items[i]) \in OutcomeRow
    BY <1>1, BaseIs, RefineIs
  <2> QED
    BY <2>1, <2>2 DEF Table
<1> QED
  BY <1>2, <1>3

\* The fold in the model goes item by item.
LEMMA Applies ==
  ASSUME outcome \in Table, NEW items \in Reviews, NEW order
  PROVE  ReviewedBy(items, order, outcome, apply_refined_clos(items, order))
<1> DEFINE m == Len(items)
           D == 1 .. m
           G == [p \in Table \X D |-> TakeItem(outcome, items, order, p[1], p[2])]
           seq == [i \in DOMAIN items |-> i]
           Value(h) == [s \in SUBSET D |->
                          IF s = {} THEN outcome
                          ELSE TakeItem(outcome, items, order, h[s \ {Max(s)}], seq[Max(s)])]
           iter == CHOOSE h : h = Value(h)
<1>1. m \in Nat /\ DOMAIN items = D
  BY ReviewIs
<1>2. G \in [Table \X D -> Table]
  <2>1. ASSUME NEW p \in Table \X D
        PROVE  TakeItem(outcome, items, order, p[1], p[2]) \in Table
    <3>1. p[1] \in Table /\ p[2] \in D
      OBVIOUS
    <3> QED
      BY <3>1, TakeIs
  <2> QED
    BY <2>1
<1>3. PICK h : IsFold(h, Table, m, outcome, G)
  <2> HIDE DEF G
  <2> QED
    BY <1>1, <1>2, FoldExists
<1>4. h = Value(h)
  <2>1. ASSUME NEW s \in SUBSET D, s # {}
        PROVE  h[s] = TakeItem(outcome, items, order, h[s \ {Max(s)}], seq[Max(s)])
    <3>0. h \in [SUBSET D -> Table]
      BY <1>3 DEF IsFold
    <3>1. Max(s) \in D /\ h[s \ {Max(s)}] \in Table
      BY <1>1, <2>1, <3>0, MaxIs
    <3>2. h[s] = G[<<h[s \ {Max(s)}], Max(s)>>]
      <4> HIDE DEF G
      <4> QED
        BY <1>3, <2>1 DEF IsFold
    <3>3. G[<<h[s \ {Max(s)}], Max(s)>>] = TakeItem(outcome, items, order, h[s \ {Max(s)}], Max(s))
      BY <3>1
    <3>4. seq[Max(s)] = Max(s)
      BY <3>1, <1>1
    <3> HIDE DEF G, seq
    <3> QED
      BY <3>2, <3>3, <3>4
  <2>2. \A s \in SUBSET D : h[s] = Value(h)[s]
    BY <2>1, <1>3 DEF IsFold
  <2> QED
    BY <2>2, <1>3 DEF IsFold
<1>5. iter = Value(iter)
  <2> HIDE DEF Value
  <2> QED
    BY <1>4
<1>6. apply_refined_clos(items, order) = iter[D]
  BY <1>1 DEF apply_refined_clos, FoldLeftDomain, FoldLeft, MapThenFoldSet, TakeItem, RowAt, RowOf, Base, Code
<1> DEFINE t == [k \in 0 .. m |-> h[1 .. k]]
<1>7. \A k \in 0 .. m : 1 .. k \in SUBSET D
  BY <1>1
<1>8. t \in [0 .. m -> Table]
  BY <1>3, <1>7 DEF IsFold
<1>9. t[0] = outcome /\ t[m] = h[D]
  <2>1. 0 \in 0 .. m /\ m \in 0 .. m /\ 1 .. 0 = {} /\ {} \in SUBSET D
    BY <1>1
  <2>2. h[{}] = outcome
    <3> HIDE DEF G
    <3> QED
      BY <2>1, <1>3 DEF IsFold
  <2> HIDE DEF D, G
  <2>3. t[0] = h[1 .. 0] /\ t[m] = h[1 .. m]
    BY <2>1
  <2> QED
    BY <2>1, <2>2, <2>3 DEF D
<1>10. ASSUME NEW k \in 1 .. m
       PROVE  /\ k - 1 \in 0 .. m /\ k \in 0 .. m /\ 1 .. k \in SUBSET D /\ 1 .. k # {}
              /\ Max(1 .. k) = k /\ (1 .. k) \ {k} = 1 .. k - 1
  BY <1>1, FirstPlaces
<1>11. ASSUME NEW k \in 1 .. m PROVE t[k] = TakeItem(outcome, items, order, t[k - 1], k)
  <2>1. h[1 .. k] = G[<<h[1 .. k - 1], k>>]
    <3> HIDE DEF G
    <3> QED
      BY <1>3, <1>10 DEF IsFold
  <2>2. h[1 .. k - 1] \in Table
    BY <1>3, <1>7, <1>10 DEF IsFold
  <2>3. G[<<h[1 .. k - 1], k>>] = TakeItem(outcome, items, order, h[1 .. k - 1], k)
    BY <2>2
  <2> HIDE DEF G
  <2> QED
    BY <1>10, <2>1, <2>3
<1>12. iter[D] = h[D]
  <2> DEFINE Same == {k \in 0 .. m : iter[1 .. k] = h[1 .. k]}
  <2>1. 0 \in Same
    <3>1. iter[{}] = Value(iter)[{}] /\ h[{}] = Value(h)[{}] /\ {} \in SUBSET D
      BY <1>4, <1>5
    <3>2. 1 .. 0 = {} /\ 0 \in 0 .. m
      BY <1>1
    <3> HIDE DEF iter
    <3> QED
      BY <3>1, <3>2
  <2>2. ASSUME NEW k \in 1 .. m, k - 1 \in Same PROVE k \in Same
    <3>1. k \in 0 .. m /\ 1 .. k \in SUBSET D /\ 1 .. k # {} /\ (1 .. k) \ {Max(1 .. k)} = 1 .. k - 1
      BY <1>10
    <3>2. iter[1 .. k] = Value(iter)[1 .. k] /\ h[1 .. k] = Value(h)[1 .. k]
      BY <1>4, <1>5
    <3>3. iter[1 .. k - 1] = h[1 .. k - 1]
      BY <2>2
    <3> HIDE DEF iter, seq
    <3> QED
      BY <3>1, <3>2, <3>3
  <2>3. \A k \in 0 .. m : k \in Same
    <3> HIDE DEF Same
    <3> QED
      BY <1>1, <2>1, <2>2, UpTo
  <2>4. m \in 0 .. m
    BY <1>1
  <2> QED
    BY <2>3, <2>4
<1> HIDE DEF t
<1> QED
  BY <1>6, <1>8, <1>9, <1>11, <1>12 DEF ReviewedBy, Chain

-----------------------------------------------------------------------------
\* Outcomes with the same columns are the same.
LEMMA SameRow ==
  ASSUME NEW r \in OutcomeRow, NEW s \in OutcomeRow,
         r.code = s.code, r.position = s.position, r.first = s.first,
         r.statement = s.statement, r.claimed = s.claimed,
         r.attributes.refined = s.attributes.refined,
         r.attributes.original = s.attributes.original
  PROVE  r = s
<1>1. r.attributes = s.attributes
  BY DEF OutcomeRow
<1>2. ASSUME NEW u \in OutcomeRow
      PROVE  u = [code |-> u.code, position |-> u.position, statement |-> u.statement,
                  attributes |-> u.attributes, first |-> u.first, claimed |-> u.claimed]
  BY DEF OutcomeRow
<1>3. /\ r = [code |-> r.code, position |-> r.position, statement |-> r.statement,
               attributes |-> r.attributes, first |-> r.first, claimed |-> r.claimed]
      /\ s = [code |-> s.code, position |-> s.position, statement |-> s.statement,
               attributes |-> s.attributes, first |-> s.first, claimed |-> s.claimed]
  BY <1>2
<1> QED
  BY <1>1, <1>3

\* No original wording after an item: none before, and the same wording.
LEMMA StaysPlain ==
  ASSUME NEW row \in OutcomeRow, NEW item \in ReviewItem,
         Refine(row, item).attributes.original = None
  PROVE  row.attributes.original = None /\ Refine(row, item).statement = row.statement
<1> DEFINE new == Refine(row, item)
<1>1. row.statement # None
  BY OutcomeRowAssumption DEF OutcomeRow
<1>2. new.statement = IF item.statement # None THEN item.statement ELSE row.statement
  BY RefineIs
<1>3. new.attributes.original =
         IF item.original # None THEN item.original
         ELSE IF item.statement # None /\ item.statement # row.statement
                 /\ row.attributes.original = None THEN row.statement
         ELSE row.attributes.original
  BY RefineIs
<1>4. new.attributes.original = None
  OBVIOUS
<1> HIDE DEF new
<1>5. row.attributes.original = None /\ new.statement = row.statement
  BY <1>1, <1>2, <1>3, <1>4
<1> QED
  BY <1>5 DEF new

\* Of a row x on its way to A, and y that A becomes on the same way.
Follows(A, x, y) ==
    /\ y.code = A.code /\ y.position = A.position /\ y.first = A.first
    /\ y.statement \in {A.statement, x.statement}
    /\ y.attributes.refined \in {A.attributes.refined, x.attributes.refined}
    /\ y.claimed \in {A.claimed, x.claimed}
    /\ A.attributes.original # None =>
          /\ y.attributes.original # None
          /\ y.attributes.original \in {A.attributes.original, x.attributes.original}
    /\ A.attributes.original = None =>
          y.attributes.original = None /\ y.statement = A.statement

\* Refined by the same item, a second row goes on following the first.
LEMMA FollowsOn ==
  ASSUME NEW A \in OutcomeRow, NEW x \in OutcomeRow, NEW y \in OutcomeRow,
         NEW item \in ReviewItem, Follows(A, x, y),
         A.attributes.original = None =>
            /\ x.attributes.original = None /\ x.statement = A.statement
            /\ Refine(x, item).attributes.original = None
            /\ Refine(x, item).statement = A.statement
  PROVE  Follows(A, Refine(x, item), Refine(y, item))
<1> DEFINE a == Refine(x, item)
           b == Refine(y, item)
<1>1. y.attributes.original \in Statements \cup {None} /\ None \notin Statements
      /\ y.statement \in Statements /\ x.statement \in Statements
  BY OutcomeRowAssumption DEF OutcomeRow
<1>2. /\ b.code = y.code /\ b.position = y.position /\ b.first = y.first
      /\ a.attributes.refined = TRUE /\ b.attributes.refined = TRUE
  BY RefineIs
<1>3. /\ a.statement = IF item.statement # None THEN item.statement ELSE x.statement
      /\ b.statement = IF item.statement # None THEN item.statement ELSE y.statement
  BY RefineIs
<1>4. b.claimed \in {A.claimed, a.claimed}
  <2>1. CASE item.original = None
    <3>1. a.claimed = x.claimed /\ b.claimed = y.claimed
      BY <2>1, RefineIs
    <3> QED
      BY <3>1 DEF Follows
  <2>2. CASE item.original # None
    BY <2>2, RefineIs
  <2> QED
    BY <2>1, <2>2
<1>5. /\ a.attributes.original =
            IF item.original # None THEN item.original
            ELSE IF item.statement # None /\ item.statement # x.statement
                    /\ x.attributes.original = None THEN x.statement
            ELSE x.attributes.original
      /\ b.attributes.original =
            IF item.original # None THEN item.original
            ELSE IF item.statement # None /\ item.statement # y.statement
                    /\ y.attributes.original = None THEN y.statement
            ELSE y.attributes.original
  BY RefineIs
<1> HIDE DEF a, b
<1>6. A.attributes.original # None =>
         /\ b.attributes.original # None
         /\ b.attributes.original \in {A.attributes.original, a.attributes.original}
  BY <1>1, <1>5 DEF Follows
<1>7. A.attributes.original = None =>
         b.attributes.original = None /\ b.statement = A.statement
  BY <1>1, <1>3, <1>5 DEF Follows, a
<1>8. b.statement \in {A.statement, a.statement}
  BY <1>3 DEF Follows
<1>9. Follows(A, a, b)
  BY <1>2, <1>4, <1>6, <1>7, <1>8 DEF Follows
<1> QED
  BY <1>9 DEF a, b

\* What becomes of one row when the items H refine it.
Refinements(items, H, a) ==
    /\ a \in [0 .. Len(items) -> OutcomeRow]
    /\ \A k \in 1 .. Len(items) : a[k] = IF k \in H THEN Refine(a[k - 1], items[k]) ELSE a[k - 1]

\* A row a review has refined stays what it is when the same items refine it again.
LEMMA RefinedTwice ==
  ASSUME NEW items \in Reviews, NEW H, NEW a, NEW b,
         Refinements(items, H, a), Refinements(items, H, b), b[0] = a[Len(items)]
  PROVE  b[Len(items)] = a[Len(items)]
<1> DEFINE m == Len(items)
           A == a[m]
<1>1. m \in Nat /\ m \in 0 .. m /\ 0 \in 0 .. m
  BY ReviewIs
<1>2. ASSUME NEW k \in 1 .. m
      PROVE  /\ k \in 0 .. m /\ k - 1 \in 0 .. m /\ items[k] \in ReviewItem
             /\ a[k] \in OutcomeRow /\ a[k - 1] \in OutcomeRow
             /\ b[k] \in OutcomeRow /\ b[k - 1] \in OutcomeRow
  <2>1. k \in 0 .. m /\ k - 1 \in 0 .. m
    BY <1>1
  <2> QED
    BY <2>1, ReviewIs DEF Refinements
<1> DEFINE Plain == {j \in 0 .. m : a[m - j].attributes.original = None
                                    /\ a[m - j].statement = A.statement}
<1>3. ASSUME A.attributes.original = None, NEW k \in 0 .. m
      PROVE  a[k].attributes.original = None /\ a[k].statement = A.statement
  <2>1. 0 \in Plain
    BY <1>1, <1>3
  <2>2. ASSUME NEW j \in 1 .. m, j - 1 \in Plain PROVE j \in Plain
    <3> DEFINE i == m - (j - 1)
    <3>1. i \in 1 .. m /\ i - 1 = m - j /\ j \in 0 .. m
      BY <1>1
    <3>2. a[i].attributes.original = None /\ a[i].statement = A.statement
      BY <2>2
    <3> HIDE DEF i, A
    <3>4. CASE i \in H
      <4>1. a[i] = Refine(a[i - 1], items[i])
        BY <3>1, <3>4 DEF Refinements
      <4>2. items[i] \in ReviewItem /\ a[i - 1] \in OutcomeRow
        BY <1>2, <3>1
      <4>3. a[i - 1].attributes.original = None /\ a[i].statement = a[i - 1].statement
        BY <3>2, <4>1, <4>2, StaysPlain
      <4> QED
        BY <3>1, <3>2, <4>3
    <3>5. CASE i \notin H
      BY <3>1, <3>2, <3>5 DEF Refinements
    <3> QED
      BY <3>4, <3>5
  <2>3. \A j \in 0 .. m : j \in Plain
    <3> HIDE DEF Plain
    <3> QED
      BY <1>1, <2>1, <2>2, UpTo
  <2>4. m - k \in 0 .. m /\ m - (m - k) = k
    BY <1>1
  <2>5. m - k \in Plain
    BY <2>3, <2>4
  <2> QED
    BY <2>4, <2>5
<1> DEFINE Good == {k \in 0 .. m : Follows(A, a[k], b[k])}
<1>4. 0 \in Good
  BY <1>1 DEF Follows
<1>5. ASSUME NEW k \in 1 .. m, k - 1 \in Good PROVE k \in Good
  <2> DEFINE x == a[k - 1]
             y == b[k - 1]
             item == items[k]
  <2>1. Follows(A, x, y) /\ k \in 0 .. m
    BY <1>2, <1>5
  <2>2. x \in OutcomeRow /\ y \in OutcomeRow /\ item \in ReviewItem
    BY <1>2
  <2>3. CASE k \notin H
    <3>1. a[k] = x /\ b[k] = y
      BY <2>3 DEF Refinements
    <3> QED
      BY <2>1, <3>1
  <2>4. CASE k \in H
    <3>1. a[k] = Refine(x, item) /\ b[k] = Refine(y, item)
      BY <2>4 DEF Refinements
    <3>2. A.attributes.original = None =>
             /\ x.attributes.original = None /\ x.statement = A.statement
             /\ a[k].attributes.original = None /\ a[k].statement = A.statement
      BY <1>2, <1>3
    <3>3. A \in OutcomeRow
      BY <1>1 DEF Refinements
    <3> HIDE DEF x, y, item, A
    <3>4. Follows(A, Refine(x, item), Refine(y, item))
      BY <2>1, <2>2, <3>1, <3>2, <3>3, FollowsOn
    <3> QED
      BY <2>1, <3>1, <3>4
  <2> QED
    BY <2>3, <2>4
<1>6. Follows(A, A, b[m])
  <2>1. \A k \in 0 .. m : k \in Good
    <3> HIDE DEF Good
    <3> QED
      BY <1>1, <1>4, <1>5, UpTo
  <2> QED
    BY <1>1, <2>1
<1>7. /\ b[m].code = A.code /\ b[m].position = A.position /\ b[m].first = A.first
      /\ b[m].statement = A.statement /\ b[m].claimed = A.claimed
      /\ b[m].attributes.refined = A.attributes.refined
      /\ b[m].attributes.original = A.attributes.original
  <2> HIDE DEF A
  <2> QED
    BY <1>6 DEF Follows
<1>8. A \in OutcomeRow /\ b[m] \in OutcomeRow
  BY <1>1 DEF Refinements
<1>9. b[m] = A
  <2> HIDE DEF A
  <2> QED
    BY <1>7, <1>8, SameRow
<1> QED
  BY <1>9

-----------------------------------------------------------------------------
\* What one item does to the rows.
LEMMA TakeRows ==
  ASSUME NEW items \in Reviews, NEW k \in 1 .. Len(items), NEW rows, NEW order,
         NEW table \in Table
  PROVE  LET row  == RowAt(rows, items, k, order)
             next == TakeItem(rows, items, order, table, k)
         IN  /\ next \in Table /\ Len(table) \in Nat /\ DOMAIN table = 1 .. Len(table)
             /\ row # 0 => /\ Len(next) = Len(table)
                           /\ \A i \in 1 .. Len(table) :
                                 next[i] = IF i = row THEN Refine(table[i], items[k]) ELSE table[i]
             /\ row = 0 => /\ Len(next) = Len(table) + 1
                           /\ next[Len(table) + 1] = Refine(Base(items, k), items[k])
                           /\ \A i \in 1 .. Len(table) : next[i] = table[i]
<1> DEFINE row  == RowAt(rows, items, k, order)
           next == TakeItem(rows, items, order, table, k)
<1>1. next \in Table /\ Len(table) \in Nat /\ DOMAIN table = 1 .. Len(table)
  BY TakeIs DEF Table
<1>2. CASE row # 0
  <2>1. next = [table EXCEPT ![row] = Refine(table[row], items[k])]
    BY <1>2 DEF TakeItem
  <2> HIDE DEF row, next
  <2>2. DOMAIN next = 1 .. Len(table)
    BY <1>1, <2>1
  <2>3. Len(next) = Len(table)
    BY <1>1, <2>2 DEF Table
  <2>4. \A i \in 1 .. Len(table) :
           next[i] = IF i = row THEN Refine(table[i], items[k]) ELSE table[i]
    BY <1>1, <2>1
  <2> QED
    BY <1>1, <1>2, <2>3, <2>4 DEF row, next
<1>3. CASE row = 0
  <2>1. next = Append(table, Refine(Base(items, k), items[k]))
    BY <1>3 DEF TakeItem
  <2>2. Refine(Base(items, k), items[k]) \in OutcomeRow
    BY BaseIs, RefineIs, ReviewIs
  <2> HIDE DEF row, next
  <2>3. /\ Len(next) = Len(table) + 1
        /\ next[Len(table) + 1] = Refine(Base(items, k), items[k])
        /\ \A i \in 1 .. Len(table) : next[i] = table[i]
    BY <2>1, <2>2 DEF Table
  <2> QED
    BY <1>1, <1>3, <2>3 DEF row, next
<1> QED
  BY <1>2, <1>3

\* Of the rows there are, an item refines the one it finds.
LEMMA TakeRow ==
  ASSUME NEW items \in Reviews, NEW k \in 1 .. Len(items), NEW rows, NEW order,
         NEW table \in Table, NEW i \in 1 .. Len(table)
  PROVE  TakeItem(rows, items, order, table, k)[i] =
            IF RowAt(rows, items, k, order) = i THEN Refine(table[i], items[k]) ELSE table[i]
<1> DEFINE row == RowAt(rows, items, k, order)
<1>1. i # 0
  BY DEF Table
<1>2. CASE row = 0
  <2>1. TakeItem(rows, items, order, table, k)[i] = table[i]
    BY <1>2, TakeRows
  <2> HIDE DEF row
  <2> QED
    BY <1>1, <1>2, <2>1 DEF row
<1>3. CASE row # 0
  BY <1>3, TakeRows
<1> QED
  BY <1>2, <1>3

\* The wording of the insert is there, unless an artifact claims another.
WordingKept(row) ==
    \/ row.claimed
    \/ row.attributes.original = row.first
    \/ row.attributes.original = None /\ row.statement = row.first

\* Rows keep their code, their place and that wording; new ones come behind them.
Grown(rows, table) ==
    /\ Len(rows) <= Len(table)
    /\ \A i \in 1 .. Len(rows) : /\ table[i].code = rows[i].code
                                 /\ table[i].position = rows[i].position
                                 /\ table[i].first = rows[i].first
                                 /\ WordingKept(rows[i]) => WordingKept(table[i])
    /\ \A i \in 1 .. Len(table) : i > Len(rows) => WordingKept(table[i])

\* Refining a row keeps the wording it came with.
LEMMA RefineKeeps ==
  ASSUME NEW row \in OutcomeRow, NEW item \in ReviewItem, WordingKept(row)
  PROVE  WordingKept(Refine(row, item))
<1> DEFINE new == Refine(row, item)
<1>1. row.first # None /\ row.claimed \in BOOLEAN
  BY OutcomeRowAssumption DEF OutcomeRow
<1>2. new.statement = IF item.statement # None THEN item.statement ELSE row.statement
  BY RefineIs
<1>3. new.attributes.original =
         IF item.original # None THEN item.original
         ELSE IF item.statement # None /\ item.statement # row.statement
                 /\ row.attributes.original = None THEN row.statement
         ELSE row.attributes.original
  BY RefineIs
<1>4. new.first = row.first
  BY RefineIs
<1>5. CASE item.original # None
  <2>1. new.claimed = TRUE
    BY <1>5, RefineIs
  <2> QED
    BY <2>1 DEF WordingKept
<1>6. CASE item.original = None
  <2>1. new.claimed = row.claimed
    BY <1>6, RefineIs
  <2> HIDE DEF new
  <2>2. WordingKept(new)
    BY <1>1, <1>2, <1>3, <1>4, <1>6, <2>1 DEF WordingKept
  <2> QED
    BY <2>2 DEF new
<1> QED
  BY <1>5, <1>6

\* A new row has the wording it came with.
LEMMA BaseKept ==
  ASSUME NEW items \in Reviews, NEW i \in 1 .. Len(items)
  PROVE  WordingKept(Base(items, i))
<1>1. Base(items, i).attributes.original = None /\ Base(items, i).statement = Base(items, i).first
  BY DEF Base, NewOutcome
<1> QED
  BY <1>1 DEF WordingKept

\* An item keeps the rows and their wordings.
LEMMA TakeGrows ==
  ASSUME NEW items \in Reviews, NEW k \in 1 .. Len(items), NEW rows, NEW order,
         NEW table \in Table
  PROVE  Grown(table, TakeItem(rows, items, order, table, k))
<1> DEFINE row  == RowAt(rows, items, k, order)
           next == TakeItem(rows, items, order, table, k)
<1>0. items[k] \in ReviewItem /\ Base(items, k) \in OutcomeRow /\ WordingKept(Base(items, k))
  BY ReviewIs, BaseIs, BaseKept
<1>1. /\ next \in Table /\ Len(table) \in Nat /\ DOMAIN table = 1 .. Len(table)
      /\ row # 0 => /\ Len(next) = Len(table)
                    /\ \A i \in 1 .. Len(table) :
                          next[i] = IF i = row THEN Refine(table[i], items[k]) ELSE table[i]
      /\ row = 0 => /\ Len(next) = Len(table) + 1
                    /\ next[Len(table) + 1] = Refine(Base(items, k), items[k])
                    /\ \A i \in 1 .. Len(table) : next[i] = table[i]
  BY TakeRows
<1>2. \A i \in 1 .. Len(table) : table[i] \in OutcomeRow
  BY <1>1 DEF Table
<1>3. WordingKept(Refine(Base(items, k), items[k]))
  BY <1>0, RefineKeeps
<1>4. ASSUME NEW i \in 1 .. Len(table)
      PROVE  /\ next[i].code = table[i].code
             /\ next[i].position = table[i].position
             /\ next[i].first = table[i].first
             /\ WordingKept(table[i]) => WordingKept(next[i])
  <2>1. table[i] \in OutcomeRow
    BY <1>2
  <2>2. /\ Refine(table[i], items[k]).code = table[i].code
        /\ Refine(table[i], items[k]).position = table[i].position
        /\ Refine(table[i], items[k]).first = table[i].first
    BY <1>0, <2>1, RefineIs
  <2>3. WordingKept(table[i]) => WordingKept(Refine(table[i], items[k]))
    BY <1>0, <2>1, RefineKeeps
  <2>4. next[i] = table[i] \/ next[i] = Refine(table[i], items[k])
    BY <1>1
  <2> HIDE DEF next
  <2> QED
    BY <2>2, <2>3, <2>4
<1>5. \A i \in 1 .. Len(next) : i > Len(table) => WordingKept(next[i])
  <2> HIDE DEF row, next
  <2> QED
    BY <1>1, <1>3
<1>6. Len(table) <= Len(next)
  <2> HIDE DEF row, next
  <2> QED
    BY <1>1
<1> HIDE DEF row, next
<1>7. Grown(table, next)
  BY <1>4, <1>5, <1>6 DEF Grown
<1> QED
  BY <1>7 DEF next

\* Tables grow on.
LEMMA GrownOn ==
  ASSUME NEW x \in Table, NEW y \in Table, NEW z \in Table, Grown(x, y), Grown(y, z)
  PROVE  Grown(x, z)
<1>1. Len(x) \in Nat /\ Len(y) \in Nat /\ Len(z) \in Nat
  BY DEF Table
<1>2. Len(x) <= Len(z)
  BY <1>1 DEF Grown
<1>3. ASSUME NEW i \in 1 .. Len(x)
      PROVE  /\ z[i].code = x[i].code /\ z[i].position = x[i].position /\ z[i].first = x[i].first
             /\ WordingKept(x[i]) => WordingKept(z[i])
  <2>1. i \in 1 .. Len(y)
    BY <1>1 DEF Grown
  <2> QED
    BY <2>1 DEF Grown
<1>4. ASSUME NEW i \in 1 .. Len(z), i > Len(x) PROVE WordingKept(z[i])
  <2>1. CASE i <= Len(y)
    <3>1. i \in 1 .. Len(y)
      BY <1>1, <2>1
    <3> QED
      BY <1>4, <3>1 DEF Grown
  <2>2. CASE i > Len(y)
    BY <2>2 DEF Grown
  <2> QED
    BY <1>1, <2>1, <2>2
<1> QED
  BY <1>2, <1>3, <1>4 DEF Grown

\* Of any rows of a chain, the ones before and the ones it comes to.
LEMMA ChainGrows ==
  ASSUME NEW items \in Reviews, NEW order, NEW rows, NEW t, Chain(items, order, rows, t),
         NEW k \in 0 .. Len(items)
  PROVE  /\ t[k] \in Table /\ Len(t[k]) \in Nat /\ DOMAIN t[k] = 1 .. Len(t[k])
         /\ Grown(rows, t[k]) /\ Grown(t[k], t[Len(items)])
<1> DEFINE m == Len(items)
           Up == {j \in 0 .. m : Grown(rows, t[j])}
           Down == {j \in 0 .. m : Grown(t[m - j], t[m])}
<1>1. m \in Nat /\ 0 \in 0 .. m /\ m \in 0 .. m
  BY ReviewIs
<1>2. \A j \in 0 .. m : t[j] \in Table
  BY DEF Chain
<1>3. t[0] = rows
  BY DEF Chain
<1>4. \A x \in Table : Grown(x, x)
  <2>1. \A x \in Table : Len(x) \in Nat
    BY DEF Table
  <2> QED
    BY <2>1 DEF Grown
<1>5. ASSUME NEW j \in 1 .. m PROVE j - 1 \in 0 .. m /\ j \in 0 .. m /\ Grown(t[j - 1], t[j])
  <2>1. j - 1 \in 0 .. m /\ j \in 0 .. m
    BY <1>1
  <2>2. t[j] = TakeItem(rows, items, order, t[j - 1], j)
    BY DEF Chain
  <2>3. t[j - 1] \in Table
    BY <1>2, <2>1
  <2> QED
    BY <2>1, <2>2, <2>3, TakeGrows
<1>6. \A j \in 0 .. m : j \in Up
  <2>1. 0 \in Up
    BY <1>1, <1>2, <1>3, <1>4
  <2>2. ASSUME NEW j \in 1 .. m, j - 1 \in Up PROVE j \in Up
    <3>1. rows \in Table /\ t[j - 1] \in Table /\ t[j] \in Table
      BY <1>1, <1>2, <1>3, <1>5
    <3>2. Grown(rows, t[j - 1]) /\ Grown(t[j - 1], t[j])
      BY <1>5, <2>2
    <3>3. Grown(rows, t[j])
      BY <3>1, <3>2, GrownOn
    <3> QED
      BY <1>5, <3>3
  <2> HIDE DEF Up
  <2> QED
    BY <1>1, <2>1, <2>2, UpTo
<1>7. \A j \in 0 .. m : j \in Down
  <2>1. 0 \in Down
    BY <1>1, <1>2, <1>4
  <2>2. ASSUME NEW j \in 1 .. m, j - 1 \in Down PROVE j \in Down
    <3> DEFINE i == m - (j - 1)
    <3>1. i \in 1 .. m /\ i - 1 = m - j /\ j \in 0 .. m
      BY <1>1
    <3>2. Grown(t[i], t[m])
      BY <2>2
    <3> HIDE DEF i
    <3>3. t[i - 1] \in Table /\ t[i] \in Table /\ t[m] \in Table /\ Grown(t[i - 1], t[i])
      BY <1>1, <1>2, <1>5, <3>1
    <3>4. Grown(t[i - 1], t[m])
      BY <3>2, <3>3, GrownOn
    <3> QED
      BY <3>1, <3>4
  <2> HIDE DEF Down
  <2> QED
    BY <1>1, <2>1, <2>2, UpTo
<1>8. m - k \in 0 .. m /\ m - (m - k) = k
  BY <1>1
<1>9. Grown(t[k], t[m])
  <2>1. m - k \in Down
    BY <1>7, <1>8
  <2> QED
    BY <1>8, <2>1
<1>10. t[k] \in Table /\ Len(t[k]) \in Nat /\ DOMAIN t[k] = 1 .. Len(t[k])
  BY <1>2 DEF Table
<1> QED
  BY <1>6, <1>9, <1>10

-----------------------------------------------------------------------------
InPlace(table) == [i \in DOMAIN table |-> i]

\* Numbers 1 .. n in ascending order are the numbers.
LEMMA Ascending ==
  ASSUME NEW n \in Nat, NEW f \in [1 .. n -> 1 .. n],
         \A i, j \in 1 .. n : i < j => f[i] < f[j]
  PROVE  f = [i \in 1 .. n |-> i]
<1> DEFINE Up == {k \in 0 .. n : k # 0 => f[k] >= k}
           Down == {k \in 0 .. n : k # n => f[n - k] <= n - k}
<1>1. \A k \in 0 .. n : k \in Up
  <2>1. ASSUME NEW k \in 1 .. n, k - 1 \in Up PROVE k \in Up
    <3>1. CASE k = 1
      BY <3>1
    <3>2. CASE k # 1
      <4>1. k - 1 \in 1 .. n /\ k - 1 < k
        BY <3>2
      <4>2. f[k - 1] < f[k] /\ f[k - 1] >= k - 1 /\ f[k] \in Int /\ f[k - 1] \in Int
        BY <2>1, <4>1
      <4> QED
        BY <4>2
    <3> QED
      BY <3>1, <3>2
  <2>2. 0 \in Up
    OBVIOUS
  <2> HIDE DEF Up
  <2> QED
    BY <2>1, <2>2, UpTo
<1>2. \A k \in 0 .. n : k \in Down
  <2>1. ASSUME NEW k \in 1 .. n, k - 1 \in Down PROVE k \in Down
    <3> SUFFICES ASSUME k # n PROVE f[n - k] <= n - k
      BY <2>1
    <3> DEFINE i == n - k
    <3>1. i \in 1 .. n /\ i + 1 \in 1 .. n /\ n - (k - 1) = i + 1 /\ i < i + 1 /\ k - 1 # n
      OBVIOUS
    <3>2. f[i] < f[i + 1] /\ f[i + 1] <= i + 1 /\ f[i] \in Int /\ f[i + 1] \in Int
      BY <2>1, <3>1
    <3> HIDE DEF i
    <3>3. f[i] <= i
      BY <3>1, <3>2
    <3> QED
      BY <3>3 DEF i
  <2>2. 0 \in Down
    <3>1. n # 0 => f[n - 0] \in 1 .. n /\ n - 0 = n
      OBVIOUS
    <3> QED
      BY <3>1
  <2> HIDE DEF Down
  <2> QED
    BY <2>1, <2>2, UpTo
<1>3. ASSUME NEW i \in 1 .. n PROVE f[i] = i
  <2>1. f[i] >= i
    BY <1>1
  <2>2. n - i \in 0 .. n /\ n - i # n /\ n - (n - i) = i
    OBVIOUS
  <2>3. f[i] <= i
    BY <1>2, <2>2
  <2> QED
    BY <2>1, <2>3
<1> QED
  BY <1>3

\* Read by position, rows that are in their places come as they are.
LEMMA OneOrder ==
  ASSUME NEW table \in Table, AtPlaces(table), "outcomes" \notin crossed,
         NEW order \in Orders(table)
  PROVE  order = InPlace(table)
<1>1. Len(table) \in Nat /\ DOMAIN table = 1 .. Len(table)
  BY DEF Table
<1>2. order \in [1 .. Len(table) -> 1 .. Len(table)]
  BY <1>1 DEF Orders
<1>3. ASSUME NEW i \in 1 .. Len(table), NEW j \in 1 .. Len(table), i < j
      PROVE  order[i] < order[j]
  <2>1. \/ table[order[i]].position < table[order[j]].position
        \/ order[i] < order[j]
    BY <1>1, <1>3 DEF Orders
  <2>2. order[i] \in 1 .. Len(table) /\ order[j] \in 1 .. Len(table)
    BY <1>2
  <2>3. table[order[i]].position = order[i] - 1 /\ table[order[j]].position = order[j] - 1
    BY <1>1, <2>2 DEF AtPlaces
  <2> QED
    BY <2>1, <2>2, <2>3
<1>4. order = [i \in 1 .. Len(table) |-> i]
  BY <1>1, <1>2, <1>3, Ascending
<1> QED
  BY <1>1, <1>4 DEF InPlace

\* Approving the artifact once more changes nothing.
Settled(items, table) ==
    DistinctCodes(items) /\ AtPlaces(table) =>
        \A u \in Table : ReviewedBy(items, InPlace(table), table, u) => u = table

DifferentCodes(items) ==
    \A i, j \in DOMAIN items : Code(items, i) = Code(items, j) => i = j

WithCode(rows, code) == {k \in 1 .. Len(rows) : rows[k].code = code}

\* The row an item finds among rows in their places.
LEMMA RowAtIs ==
  ASSUME NEW rows \in Table, NEW items, NEW i
  PROVE  /\ WithCode(rows, items[i].code) # {} =>
               /\ RowAt(rows, items, i, InPlace(rows)) = Max(WithCode(rows, items[i].code))
               /\ RowAt(rows, items, i, InPlace(rows)) \in WithCode(rows, items[i].code)
         /\ WithCode(rows, items[i].code) = {} /\ i \in 1 .. Len(rows) =>
               RowAt(rows, items, i, InPlace(rows)) = i
         /\ WithCode(rows, items[i].code) = {} /\ i \notin 1 .. Len(rows) =>
               RowAt(rows, items, i, InPlace(rows)) = 0
         /\ RowAt(rows, items, i, InPlace(rows)) # 0 =>
               RowAt(rows, items, i, InPlace(rows)) \in 1 .. Len(rows)
<1> DEFINE same == WithCode(rows, items[i].code)
           row  == RowAt(rows, items, i, InPlace(rows))
<1>1. Len(rows) \in Nat /\ DOMAIN rows = 1 .. Len(rows) /\ DOMAIN InPlace(rows) = 1 .. Len(rows)
      /\ \A k \in 1 .. Len(rows) : InPlace(rows)[k] = k
  BY DEF Table, InPlace
<1>2. {k \in DOMAIN InPlace(rows) : rows[InPlace(rows)[k]].code = items[i].code} = same
  BY <1>1 DEF WithCode
<1>3. same # {} => Max(same) \in same
  <2>1. same \in SUBSET (1 .. Len(rows))
    BY DEF WithCode
  <2> HIDE DEF same
  <2> QED
    BY <1>1, <2>1, MaxIs
<1>4. row = IF same # {} THEN InPlace(rows)[Max(same)]
            ELSE IF i \in 1 .. Len(rows) THEN InPlace(rows)[i] ELSE 0
  <2> HIDE DEF same
  <2> QED
    BY <1>1, <1>2 DEF RowAt
<1>5. same \subseteq 1 .. Len(rows)
  BY DEF WithCode
<1> HIDE DEF same, row
<1>6. \A x \in 1 .. Len(rows) : x # 0
  BY <1>1
<1>7. CASE same # {}
  <2>1. row = Max(same)
    BY <1>1, <1>3, <1>4, <1>5, <1>7
  <2> QED
    BY <1>3, <1>5, <1>6, <1>7, <2>1 DEF row, same
<1>8. CASE same = {}
  BY <1>1, <1>4, <1>6, <1>8 DEF row, same
<1> QED
  BY <1>7, <1>8

\* Where the items of a review find their rows the second time: where they found
\* them, or where they put them.
LEMMA PlacesKept ==
  ASSUME NEW items \in Reviews, NEW rows \in Table, NEW t,
         Chain(items, InPlace(rows), rows, t),
         DifferentCodes(items), AtPlaces(t[Len(items)])
  PROVE  LET First(k) == RowAt(rows, items, k, InPlace(rows))
             table    == t[Len(items)]
         IN  /\ \A k \in 1 .. Len(items) : First(k) = 0 =>
                   Len(t[k - 1]) = k - 1 /\ Len(t[k]) = k /\ k > Len(rows)
             /\ \A p \in 1 .. Len(table) : p > Len(rows) => p \in 1 .. Len(items) /\ First(p) = 0
             /\ \A k \in 1 .. Len(items) :
                   RowAt(table, items, k, InPlace(table)) = IF First(k) = 0 THEN k ELSE First(k)
<1> DEFINE m == Len(items)
           n == Len(rows)
           First(k) == RowAt(rows, items, k, InPlace(rows))
           table == t[m]
           N == Len(table)
<1>1. /\ m \in Nat /\ m \in 0 .. m /\ n \in Nat /\ table \in Table /\ N \in Nat
      /\ DOMAIN items = 1 .. m /\ DOMAIN table = 1 .. N /\ n <= N
      /\ \A i \in 1 .. n : table[i].code = rows[i].code /\ rows[i].code # None
      /\ \A i \in 1 .. N : table[i].code # None
  <2>1. m \in Nat /\ m \in 0 .. m /\ DOMAIN items = 1 .. m
    BY ReviewIs
  <2>2. table \in Table /\ Grown(rows, table)
    BY <2>1, ChainGrows
  <2>3. \A x \in Table : Len(x) \in Nat /\ DOMAIN x = 1 .. Len(x) /\ \A i \in 1 .. Len(x) : x[i].code # None
    <3> SUFFICES ASSUME NEW x \in Table
                 PROVE  Len(x) \in Nat /\ DOMAIN x = 1 .. Len(x) /\ \A i \in 1 .. Len(x) : x[i].code # None
      OBVIOUS
    <3>1. Len(x) \in Nat /\ DOMAIN x = 1 .. Len(x) /\ \A i \in 1 .. Len(x) : x[i] \in OutcomeRow
      BY DEF Table
    <3> QED
      BY <3>1, OutcomeRowAssumption DEF OutcomeRow
  <2> QED
    BY <2>1, <2>2, <2>3 DEF Grown
<1>2. ASSUME NEW k \in 1 .. m
      PROVE  /\ k \in 0 .. m /\ k - 1 \in 0 .. m /\ k \in Nat
             /\ t[k - 1] \in Table /\ Len(t[k - 1]) \in Nat
             /\ t[k] = TakeItem(rows, items, InPlace(rows), t[k - 1], k)
             /\ n <= Len(t[k - 1])
  <2>1. k \in 0 .. m /\ k - 1 \in 0 .. m /\ k \in Nat
    BY <1>1
  <2>2. t[k] = TakeItem(rows, items, InPlace(rows), t[k - 1], k)
    BY DEF Chain
  <2>3. t[k - 1] \in Table /\ Len(t[k - 1]) \in Nat /\ Grown(rows, t[k - 1])
    BY <2>1, ChainGrows
  <2> QED
    BY <2>1, <2>2, <2>3 DEF Grown
<1>3. ASSUME NEW k \in 1 .. m, First(k) = 0
      PROVE  Len(t[k - 1]) = k - 1 /\ Len(t[k]) = k /\ k > n /\ k <= N /\ table[k].code = Code(items, k)
  <2> DEFINE p == Len(t[k - 1]) + 1
             row == Refine(Base(items, k), items[k])
  <2>1. Len(t[k]) = p /\ t[k][p] = row
    <3>1. t[k - 1] \in Table /\ t[k] = TakeItem(rows, items, InPlace(rows), t[k - 1], k)
      BY <1>2
    <3>2. RowAt(rows, items, k, InPlace(rows)) = 0
      BY <1>3
    <3> QED
      BY <3>1, <3>2, TakeRows
  <2>2. row.code = Code(items, k) /\ row.position = k - 1
    <3>1. items[k] \in ReviewItem /\ Base(items, k) \in OutcomeRow
      BY ReviewIs, BaseIs
    <3>2. Base(items, k).code = Code(items, k) /\ Base(items, k).position = k - 1
      BY BaseIs
    <3> QED
      BY <3>1, <3>2, RefineIs
  <2>3. p \in 1 .. Len(t[k]) /\ p > n
    <3>1. Len(t[k - 1]) \in Nat /\ n <= Len(t[k - 1]) /\ n \in Nat
      BY <1>1, <1>2
    <3>2. p \in Nat /\ p > n /\ p >= 1
      BY <3>1
    <3> HIDE DEF p
    <3> QED
      BY <2>1, <3>2
  <2>4. Grown(t[k], table)
    BY <1>2, ChainGrows
  <2>5. Len(t[k]) \in Nat /\ Len(t[k]) <= N
    BY <1>1, <1>2, <2>1, <2>4 DEF Grown
  <2>6. table[p].position = k - 1 /\ table[p].code = Code(items, k) /\ p \in 1 .. N
    <3> HIDE DEF p, row, table
    <3> QED
      BY <2>1, <2>2, <2>3, <2>4, <2>5, <1>1 DEF Grown
  <2>7. table[p].position = p - 1
    BY <1>1, <2>6 DEF AtPlaces
  <2>8. p = k
    BY <1>2, <2>6, <2>7
  <2> HIDE DEF table
  <2> QED
    BY <1>1, <1>2, <2>1, <2>3, <2>5, <2>6, <2>8
<1>4. ASSUME NEW p \in 1 .. N, p > n PROVE p \in 1 .. m /\ First(p) = 0
  <2> DEFINE Good == {k \in 0 .. m : \A i \in 1 .. Len(t[k]) : i > n => i \in 1 .. m /\ First(i) = 0}
  <2>1. 0 \in Good
    <3>1. t[0] = rows
      BY DEF Chain
    <3> HIDE DEF First
    <3> QED
      BY <1>1, <3>1
  <2>2. ASSUME NEW k \in 1 .. m, k - 1 \in Good PROVE k \in Good
    <3> SUFFICES ASSUME NEW i \in 1 .. Len(t[k]), i > n PROVE i \in 1 .. m /\ First(i) = 0
      BY <1>2
    <3>1. CASE First(k) = 0
      <4>1. Len(t[k]) = k /\ Len(t[k - 1]) = k - 1
        BY <1>3, <3>1
      <4>2. i = k \/ i \in 1 .. Len(t[k - 1])
        BY <1>2, <4>1
      <4> HIDE DEF First
      <4> QED
        BY <2>2, <3>1, <4>2
    <3>2. CASE First(k) # 0
      <4>1. Len(t[k]) = Len(t[k - 1])
        BY <1>2, <3>2, TakeRows
      <4> HIDE DEF First
      <4> QED
        BY <2>2, <4>1
    <3> QED
      BY <3>1, <3>2
  <2>3. m \in Good
    <3> HIDE DEF Good
    <3>1. \A k \in 0 .. m : k \in Good
      BY <1>1, <2>1, <2>2, UpTo
    <3> QED
      BY <1>1, <3>1
  <2> QED
    BY <1>4, <2>3
<1>5. ASSUME NEW k \in 1 .. m, NEW p \in 1 .. N, p > n, table[p].code = items[k].code
      PROVE  p = k /\ First(k) = 0
  <2>1. p \in 1 .. m /\ First(p) = 0
    BY <1>4, <1>5
  <2>2. table[p].code = Code(items, p)
    <3> HIDE DEF First, table
    <3> QED
      BY <1>3, <2>1
  <2>3. items[k].code = Code(items, k)
    <3>1. table[p].code # None /\ table[p].code = items[k].code
      BY <1>1, <1>5
    <3> QED
      BY <3>1 DEF Code
  <2>4. p = k
    BY <1>1, <1>5, <2>1, <2>2, <2>3 DEF DifferentCodes
  <2> QED
    BY <2>1, <2>4
<1>6. ASSUME NEW k \in 1 .. m
      PROVE  RowAt(table, items, k, InPlace(table)) = IF First(k) = 0 THEN k ELSE First(k)
  <2> DEFINE same1 == WithCode(rows, items[k].code)
             same2 == WithCode(table, items[k].code)
             Second == RowAt(table, items, k, InPlace(table))
  <2>1. /\ same1 # {} => First(k) = Max(same1) /\ First(k) \in same1
        /\ same1 = {} /\ k \in 1 .. n => First(k) = k
        /\ same1 = {} /\ k \notin 1 .. n => First(k) = 0
    BY RowAtIs
  <2>2. /\ same2 # {} => Second = Max(same2) /\ Second \in same2
        /\ same2 = {} /\ k \in 1 .. N => Second = k
    <3> HIDE DEF table
    <3> QED
      BY <1>1, RowAtIs
  <2>3. CASE First(k) = 0
    <3>1. same1 = {} /\ k \notin 1 .. n
      <4>1. 0 \notin same1 /\ 0 \notin 1 .. n
        BY <1>1 DEF WithCode
      <4> HIDE DEF same1, First
      <4> QED
        BY <2>1, <2>3, <4>1, <1>2
    <3>2. \A i \in same2 : i = k
      <4> SUFFICES ASSUME NEW i \in same2 PROVE i = k
        OBVIOUS
      <4>1. CASE i \in 1 .. n
        BY <1>1, <3>1, <4>1 DEF WithCode
      <4>2. CASE i \notin 1 .. n
        <5>1. i > n /\ i \in 1 .. N /\ table[i].code = items[k].code
          BY <1>1, <4>2 DEF WithCode
        <5> QED
          BY <1>5, <5>1
      <4> QED
        BY <4>1, <4>2
    <3>3. k \in 1 .. N
      BY <1>1, <1>2, <1>3, <2>3
    <3> HIDE DEF same2, Second, First
    <3> QED
      BY <2>2, <2>3, <3>2, <3>3 DEF Second
  <2>4. CASE First(k) # 0
    <3>1. same2 = same1
      <4>1. \A i \in same2 : i \in 1 .. n
        <5> SUFFICES ASSUME NEW i \in same2, i \notin 1 .. n PROVE FALSE
          OBVIOUS
        <5>1. i > n /\ i \in 1 .. N /\ table[i].code = items[k].code
          BY <1>1 DEF WithCode
        <5> QED
          BY <1>5, <2>4, <5>1
      <4>2. \A i \in 1 .. n : i \in 1 .. N /\ table[i].code = rows[i].code
        BY <1>1
      <4> HIDE DEF table
      <4> QED
        BY <4>1, <4>2 DEF WithCode
    <3>2. k \in 1 .. n => k \in 1 .. N
      BY <1>1
    <3> HIDE DEF same1, same2, Second, First
    <3>3. Second = First(k)
      BY <2>1, <2>2, <2>4, <3>1, <3>2
    <3> QED
      BY <2>4, <3>3 DEF Second
  <2> QED
    BY <2>3, <2>4
<1>7. \A k \in 1 .. m : First(k) = 0 => Len(t[k - 1]) = k - 1 /\ Len(t[k]) = k /\ k > n
  BY <1>3
<1> QED
  BY <1>4, <1>6, <1>7

\* Tables with the same rows are one.
LEMMA SameTable ==
  ASSUME NEW x \in Table, NEW y \in Table, Len(x) = Len(y), \A i \in 1 .. Len(x) : x[i] = y[i]
  PROVE  x = y
  BY DEF Table

\* The rows are the same while a review goes over them again: each is refined by the
\* items that refined it the first time.
LEMMA RowSettles ==
  ASSUME NEW items \in Reviews, NEW rows \in Table, NEW t, NEW u,
         Chain(items, InPlace(rows), rows, t),
         Chain(items, InPlace(t[Len(items)]), t[Len(items)], u),
         DifferentCodes(items), AtPlaces(t[Len(items)])
  PROVE  u[Len(items)] = t[Len(items)]
<1> DEFINE m == Len(items)
           n == Len(rows)
           First(k) == RowAt(rows, items, k, InPlace(rows))
           table == t[m]
           Second(k) == RowAt(table, items, k, InPlace(table))
           N == Len(table)
<1>1. /\ m \in Nat /\ m \in 0 .. m /\ 0 \in 0 .. m /\ n \in Nat /\ table \in Table /\ N \in Nat
      /\ n <= N /\ t[0] = rows /\ u[0] = table
  <2>1. m \in Nat /\ m \in 0 .. m /\ 0 \in 0 .. m
    BY ReviewIs
  <2>2. table \in Table /\ Grown(rows, table)
    BY <2>1, ChainGrows
  <2>3. n \in Nat /\ N \in Nat
    BY <2>2 DEF Table
  <2> QED
    BY <2>1, <2>2, <2>3 DEF Grown, Chain
<1>2. ASSUME NEW k \in 1 .. m
      PROVE  /\ k \in 0 .. m /\ k - 1 \in 0 .. m /\ k \in Nat /\ items[k] \in ReviewItem
             /\ t[k - 1] \in Table /\ u[k - 1] \in Table
             /\ t[k] = TakeItem(rows, items, InPlace(rows), t[k - 1], k)
             /\ u[k] = TakeItem(table, items, InPlace(table), u[k - 1], k)
  <2>1. k \in 0 .. m /\ k - 1 \in 0 .. m /\ k \in Nat
    BY <1>1
  <2> QED
    BY <2>1, ReviewIs DEF Chain
<1>3. ASSUME NEW k \in 0 .. m
      PROVE  /\ t[k] \in Table /\ Len(t[k]) \in Nat /\ n <= Len(t[k])
             /\ u[k] \in Table /\ Len(u[k]) \in Nat
             /\ \A i \in 1 .. Len(t[k]) : t[k][i] \in OutcomeRow
             /\ \A i \in 1 .. Len(u[k]) : u[k][i] \in OutcomeRow
  <2>1. t[k] \in Table /\ Grown(rows, t[k]) /\ u[k] \in Table
    BY ChainGrows
  <2> QED
    BY <2>1 DEF Grown, Table
<1>4. ASSUME NEW k \in 1 .. m
      PROVE  /\ First(k) = 0 => Len(t[k - 1]) = k - 1 /\ Len(t[k]) = k /\ k > n
             /\ First(k) # 0 => First(k) \in 1 .. n
             /\ Second(k) = IF First(k) = 0 THEN k ELSE First(k)
  <2>1. First(k) # 0 => First(k) \in 1 .. n
    BY RowAtIs
  <2> QED
    BY <2>1, PlacesKept
<1>5. ASSUME NEW p \in 1 .. N, p > n PROVE p \in 1 .. m /\ First(p) = 0
  BY <1>5, PlacesKept
<1>6. \A k \in 0 .. m : Len(u[k]) = N
  <2> DEFINE Good == {k \in 0 .. m : Len(u[k]) = N}
  <2>1. 0 \in Good
    BY <1>1
  <2>2. ASSUME NEW k \in 1 .. m, k - 1 \in Good PROVE k \in Good
    <3>1. Second(k) # 0
      BY <1>1, <1>2, <1>4
    <3>2. Len(u[k]) = Len(u[k - 1])
      BY <1>2, <3>1, TakeRows
    <3> QED
      BY <1>2, <2>2, <3>2
  <2> HIDE DEF Good
  <2>3. \A k \in 0 .. m : k \in Good
    BY <1>1, <2>1, <2>2, UpTo
  <2> QED
    BY <2>3 DEF Good
<1>7. ASSUME NEW r \in 1 .. N, r > n, NEW k \in 0 .. m, k >= r PROVE r \in 1 .. Len(t[k])
  <2> DEFINE Good == {j \in 0 .. m : j >= r => r <= Len(t[j])}
  <2>1. 0 \in Good
    BY <1>1
  <2>2. ASSUME NEW j \in 1 .. m, j - 1 \in Good PROVE j \in Good
    <3> SUFFICES ASSUME j >= r PROVE r <= Len(t[j])
      BY <1>2
    <3>1. CASE j = r
      <4>1. Len(t[j]) = j
        BY <1>4, <1>5, <1>7, <3>1
      <4> QED
        BY <3>1, <4>1
    <3>2. CASE j # r
      <4>1. j - 1 >= r
        BY <3>2
      <4>2. r <= Len(t[j - 1])
        BY <2>2, <4>1
      <4>3. Grown(t[j - 1], t[j]) /\ j - 1 \in 0 .. m /\ j \in 0 .. m
        BY <1>2, TakeGrows
      <4>4. Len(t[j - 1]) <= Len(t[j]) /\ Len(t[j - 1]) \in Nat /\ Len(t[j]) \in Nat
        BY <1>3, <4>3 DEF Grown
      <4> QED
        BY <4>2, <4>4
    <3> QED
      BY <3>1, <3>2
  <2>3. k \in Good
    <3>1. \A j \in 0 .. m : j \in Good
      <4> HIDE DEF Good
      <4> QED
        BY <1>1, <2>1, <2>2, UpTo
    <3> QED
      BY <3>1
  <2> QED
    BY <1>3, <1>7, <2>3
<1>8. ASSUME NEW r \in 1 .. N PROVE u[m][r] = table[r]
  <2> DEFINE a == [k \in 0 .. m |-> IF r <= n \/ k >= r THEN t[k][r] ELSE Base(items, r)]
             b == [k \in 0 .. m |-> u[k][r]]
             H == {k \in 1 .. m : Second(k) = r}
  <2>1. a \in [0 .. m -> OutcomeRow]
    <3> SUFFICES ASSUME NEW k \in 0 .. m
                 PROVE  (IF r <= n \/ k >= r THEN t[k][r] ELSE Base(items, r)) \in OutcomeRow
      OBVIOUS
    <3>1. CASE r <= n
      <4>1. r \in 1 .. Len(t[k])
        BY <1>1, <1>3, <3>1
      <4> QED
        BY <1>3, <3>1, <4>1
    <3>2. CASE ~(r <= n) /\ k >= r
      <4>1. r \in 1 .. Len(t[k])
        BY <1>1, <1>7, <3>2
      <4> QED
        BY <1>3, <3>2, <4>1
    <3>3. CASE ~(r <= n) /\ ~(k >= r)
      <4>1. r \in 1 .. m
        BY <1>1, <1>5, <3>3
      <4> QED
        BY <3>3, <4>1, BaseIs
    <3> QED
      BY <3>1, <3>2, <3>3
  <2>2. b \in [0 .. m -> OutcomeRow]
    BY <1>3, <1>6
  <2>3. a[m] = table[r] /\ b[0] = table[r] /\ b[m] = u[m][r]
    <3>1. r <= n \/ m >= r
      BY <1>1, <1>5
    <3> QED
      BY <1>1, <3>1
  <2>4. ASSUME NEW k \in 1 .. m
        PROVE  a[k] = IF k \in H THEN Refine(a[k - 1], items[k]) ELSE a[k - 1]
    <3>1. CASE r <= n
      <4>1. k \in H <=> First(k) = r
        BY <1>1, <1>4, <3>1
      <4>2. r \in 1 .. Len(t[k - 1])
        BY <1>1, <1>2, <1>3, <3>1
      <4>3. t[k][r] = IF First(k) = r THEN Refine(t[k - 1][r], items[k]) ELSE t[k - 1][r]
        BY <1>2, <4>2, TakeRow
      <4>4. a[k] = t[k][r] /\ a[k - 1] = t[k - 1][r]
        BY <1>2, <3>1
      <4> QED
        BY <4>1, <4>3, <4>4
    <3>2. CASE ~(r <= n) /\ k = r
      <4>1. First(k) = 0 /\ Len(t[k - 1]) = k - 1
        BY <1>1, <1>4, <1>5, <3>2
      <4>2. k \in H
        BY <1>4, <3>2, <4>1
      <4>3. t[k][Len(t[k - 1]) + 1] = Refine(Base(items, k), items[k])
        BY <1>2, <4>1, TakeRows
      <4>4. t[k][k] = Refine(Base(items, k), items[k])
        BY <1>2, <4>1, <4>3
      <4>5. a[k] = t[k][k] /\ a[k - 1] = Base(items, k)
        BY <1>2, <3>2
      <4> QED
        BY <4>2, <4>4, <4>5
    <3>3. CASE ~(r <= n) /\ k # r
      <4>1. k \notin H
        BY <1>1, <1>4, <3>3
      <4>2. CASE k < r
        <5>1. a[k] = Base(items, r) /\ a[k - 1] = Base(items, r)
          BY <1>1, <1>2, <3>3, <4>2
        <5> QED
          BY <4>1, <5>1
      <4>3. CASE ~(k < r)
        <5>1. k - 1 >= r /\ k >= r
          BY <1>1, <1>2, <3>3, <4>3
        <5>2. r \in 1 .. Len(t[k - 1])
          BY <1>1, <1>2, <1>7, <3>3, <5>1
        <5>3. First(k) # r
          BY <1>1, <1>4, <3>3
        <5>4. t[k][r] = t[k - 1][r]
          <6>1. /\ t[k - 1] \in Table
                /\ t[k] = TakeItem(rows, items, InPlace(rows), t[k - 1], k)
            BY <1>2
          <6>2. t[k][r] = IF First(k) = r THEN Refine(t[k - 1][r], items[k]) ELSE t[k - 1][r]
            BY <5>2, <6>1, TakeRow
          <6> QED
            BY <5>3, <6>2
        <5>5. a[k] = t[k][r] /\ a[k - 1] = t[k - 1][r]
          BY <1>2, <5>1
        <5> QED
          BY <4>1, <5>4, <5>5
      <4> QED
        BY <4>2, <4>3
    <3> QED
      BY <3>1, <3>2, <3>3
  <2>5. ASSUME NEW k \in 1 .. m
        PROVE  b[k] = IF k \in H THEN Refine(b[k - 1], items[k]) ELSE b[k - 1]
    <3>1. r \in 1 .. Len(u[k - 1])
      BY <1>2, <1>6
    <3>2. u[k][r] = IF Second(k) = r THEN Refine(u[k - 1][r], items[k]) ELSE u[k - 1][r]
      <4>1. /\ u[k] = TakeItem(table, items, InPlace(table), u[k - 1], k)
            /\ u[k - 1] \in Table
        BY <1>2
      <4> HIDE DEF table
      <4> QED
        BY <3>1, <4>1, TakeRow
    <3>3. b[k] = u[k][r] /\ b[k - 1] = u[k - 1][r]
      BY <1>2
    <3> QED
      BY <3>2, <3>3
  <2> HIDE DEF a, b, H
  <2>6. Refinements(items, H, a) /\ Refinements(items, H, b)
    BY <2>1, <2>2, <2>4, <2>5 DEF Refinements
  <2>7. b[m] = a[m]
    BY <2>3, <2>6, RefinedTwice
  <2> QED
    BY <2>3, <2>7
<1>9. Len(u[m]) = N /\ u[m] \in Table
  BY <1>1, <1>3, <1>6
<1> HIDE DEF table
<1> QED
  BY <1>1, <1>8, <1>9, SameTable DEF table

-----------------------------------------------------------------------------
\* An artifact of intake is a sequence of items.
LEMMA IntakeIs ==
  ASSUME NEW items \in Intakes
  PROVE  /\ Len(items) \in Nat /\ DOMAIN items = 1 .. Len(items)
         /\ \A i \in 1 .. Len(items) : items[i].code \in Codes /\ items[i].statement \in Wordings
<1>1. items \in Seq(IntakeItem)
  BY OutcomesAssumption
<1>2. \A i \in 1 .. Len(items) : items[i] \in IntakeItem
  BY <1>1
<1> QED
  BY <1>1, <1>2 DEF IntakeItem

NewRow(x, row) ==
    \E c \in Codes, p \in 0 .. Len(x) - 1, s \in Wordings : row = NewOutcome(c, p, s)

WideRow == OutcomeRow \cup {NewOutcome(t[1], t[2], t[3]) : t \in Codes \X Nat \X Wordings}

\* The rows of a course and new ones behind them.
Extended(rows) ==
    {x \in Seq(WideRow) : /\ Len(rows) <= Len(x)
                          /\ \A i \in 1 .. Len(rows) : x[i] = rows[i]
                          /\ \A i \in 1 .. Len(x) : i > Len(rows) => NewRow(x, x[i])}

AddItem(items, table, i) ==
    IF \E k \in DOMAIN table : table[k].code = items[i].code THEN table
    ELSE Append(table, NewOutcome(items[i].code, Len(table), items[i].statement))

\* An item of intake leaves the rows there are, and adds one or none.
LEMMA AddExtends ==
  ASSUME NEW items \in Intakes, NEW i \in 1 .. Len(items), NEW rows \in Table,
         NEW x \in Extended(rows)
  PROVE  AddItem(items, x, i) \in Extended(rows)
<1> DEFINE row == NewOutcome(items[i].code, Len(x), items[i].statement)
           y == Append(x, row)
<1> SUFFICES y \in Extended(rows)
  BY DEF AddItem
<1>1. items[i].code \in Codes /\ items[i].statement \in Wordings
  BY IntakeIs
<1>2. x \in Seq(WideRow) /\ Len(x) \in Nat /\ Len(rows) \in Nat /\ Len(rows) <= Len(x)
  BY DEF Extended, Table
<1>3. row \in WideRow
  <2> DEFINE t == <<items[i].code, Len(x), items[i].statement>>
  <2>1. t \in Codes \X Nat \X Wordings /\ row = NewOutcome(t[1], t[2], t[3])
    BY <1>1, <1>2
  <2> HIDE DEF t, row
  <2> QED
    BY <2>1 DEF WideRow
<1>4. y \in Seq(WideRow) /\ Len(y) = Len(x) + 1 /\ y[Len(x) + 1] = row
      /\ \A k \in 1 .. Len(x) : y[k] = x[k]
  <2> HIDE DEF row
  <2> QED
    BY <1>2, <1>3
<1>5. NewRow(y, row)
  <2>1. Len(x) \in 0 .. Len(y) - 1
    BY <1>2, <1>4
  <2> HIDE DEF y
  <2> QED
    BY <1>1, <2>1 DEF NewRow
<1>6. ASSUME NEW k \in 1 .. Len(x), k > Len(rows) PROVE NewRow(y, y[k])
  <2>1. NewRow(x, x[k])
    BY <1>6 DEF Extended
  <2>2. PICK c \in Codes, p \in 0 .. Len(x) - 1, s \in Wordings : x[k] = NewOutcome(c, p, s)
    BY <2>1 DEF NewRow
  <2>3. p \in 0 .. Len(y) - 1 /\ y[k] = NewOutcome(c, p, s)
    BY <1>2, <1>4, <2>2
  <2> HIDE DEF y
  <2> QED
    BY <2>3 DEF NewRow
<1>7. \A k \in 1 .. Len(rows) : y[k] = rows[k]
  BY <1>2, <1>4 DEF Extended
<1>8. \A k \in 1 .. Len(y) : k > Len(rows) => NewRow(y, y[k])
  <2> SUFFICES ASSUME NEW k \in 1 .. Len(y), k > Len(rows) PROVE NewRow(y, y[k])
    OBVIOUS
  <2>1. k = Len(x) + 1 \/ k \in 1 .. Len(x)
    BY <1>2, <1>4
  <2> HIDE DEF y, row
  <2> QED
    BY <1>4, <1>5, <1>6, <2>1
<1>9. Len(rows) <= Len(y)
  BY <1>2, <1>4
<1> HIDE DEF y
<1> QED
  BY <1>4, <1>7, <1>8, <1>9 DEF Extended

\* Intake leaves the rows there are, and adds rows with the wording they come with.
LEMMA IntakeExtends ==
  ASSUME outcome \in Table, NEW items \in Intakes
  PROVE  promote_intake(items) \in Extended(outcome)
<1> DEFINE m == Len(items)
           D == 1 .. m
           T == Extended(outcome)
           G == [p \in T \X D |-> AddItem(items, p[1], p[2])]
           Value(h) == [s \in SUBSET D |->
                          IF s = {} THEN outcome
                          ELSE AddItem(items, h[s \ {Max(s)}], Max(s))]
           iter == CHOOSE h : h = Value(h)
<1>1. m \in Nat /\ DOMAIN items = D
  BY IntakeIs
<1>2. outcome \in T
  <2>1. Len(outcome) \in Nat /\ \A i \in 1 .. Len(outcome) : ~(i > Len(outcome))
    BY DEF Table
  <2>2. outcome \in Seq(WideRow)
    BY DEF Table, WideRow
  <2> QED
    BY <2>1, <2>2 DEF Extended
<1>3. G \in [T \X D -> T]
  <2>1. ASSUME NEW p \in T \X D PROVE AddItem(items, p[1], p[2]) \in T
    <3>1. p[1] \in T /\ p[2] \in D
      OBVIOUS
    <3> HIDE DEF T
    <3> QED
      BY <3>1, AddExtends DEF T
  <2> HIDE DEF T
  <2> QED
    BY <2>1
<1>4. PICK h : IsFold(h, T, m, outcome, G)
  <2> HIDE DEF G, T
  <2> QED
    BY <1>1, <1>2, <1>3, FoldExists
<1>5. h = Value(h)
  <2>1. ASSUME NEW s \in SUBSET D, s # {}
        PROVE  h[s] = AddItem(items, h[s \ {Max(s)}], Max(s))
    <3> HIDE DEF T
    <3>0. h \in [SUBSET D -> T]
      <4> HIDE DEF G
      <4> QED
        BY <1>4 DEF IsFold
    <3>1. Max(s) \in D /\ h[s \ {Max(s)}] \in T
      BY <1>1, <2>1, <3>0, MaxIs
    <3>2. h[s] = G[<<h[s \ {Max(s)}], Max(s)>>]
      <4> HIDE DEF G
      <4> QED
        BY <1>4, <2>1 DEF IsFold
    <3>3. G[<<h[s \ {Max(s)}], Max(s)>>] = AddItem(items, h[s \ {Max(s)}], Max(s))
      BY <3>1
    <3> HIDE DEF G
    <3> QED
      BY <3>2, <3>3
  <2> HIDE DEF G, T
  <2>2. \A s \in SUBSET D : h[s] = Value(h)[s]
    BY <2>1, <1>4 DEF IsFold
  <2> QED
    BY <2>2, <1>4 DEF IsFold
<1>6. iter = Value(iter)
  <2> HIDE DEF Value
  <2> QED
    BY <1>5
<1>7. promote_intake(items) = iter[D]
  BY <1>1 DEF promote_intake, FoldLeft, MapThenFoldSet, AddItem
<1>8. iter[D] \in T
  <2> DEFINE Good == {k \in 0 .. m : iter[1 .. k] \in T}
  <2> HIDE DEF iter, T
  <2>1. 0 \in Good
    <3>1. iter[{}] = Value(iter)[{}] /\ {} \in SUBSET D
      BY <1>6
    <3>2. 1 .. 0 = {} /\ 0 \in 0 .. m
      BY <1>1
    <3> QED
      BY <1>2, <3>1, <3>2
  <2>2. ASSUME NEW k \in 1 .. m, k - 1 \in Good PROVE k \in Good
    <3>1. /\ k \in 0 .. m /\ 1 .. k \in SUBSET D /\ 1 .. k # {}
          /\ Max(1 .. k) = k /\ (1 .. k) \ {k} = 1 .. k - 1
      BY <1>1, FirstPlaces
    <3>2. iter[1 .. k] = Value(iter)[1 .. k]
      BY <1>6
    <3>3. iter[1 .. k] = AddItem(items, iter[1 .. k - 1], k)
      BY <3>1, <3>2
    <3>4. AddItem(items, iter[1 .. k - 1], k) \in T
      BY <2>2, AddExtends DEF T
    <3> QED
      BY <3>1, <3>3, <3>4
  <2>3. \A k \in 0 .. m : k \in Good
    <3> HIDE DEF Good
    <3> QED
      BY <1>1, <2>1, <2>2, UpTo
  <2>4. m \in 0 .. m
    BY <1>1
  <2> QED
    BY <2>3, <2>4
<1> QED
  BY <1>7, <1>8

\* Within the bound, the rows behind are rows like the others.
LEMMA ExtendedGrows ==
  ASSUME NEW rows \in Table, NEW x \in Extended(rows), Len(x) <= MaxOutcomes
  PROVE  x \in Table /\ Grown(rows, x)
<1>1. x \in Seq(WideRow) /\ Len(x) \in Nat /\ Len(rows) \in Nat /\ Len(rows) <= Len(x)
      /\ \A i \in 1 .. Len(rows) : rows[i] \in OutcomeRow /\ x[i] = rows[i]
  BY DEF Extended, Table
<1>2. ASSUME NEW i \in 1 .. Len(x), i > Len(rows)
      PROVE  x[i] \in OutcomeRow /\ WordingKept(x[i])
  <2>1. NewRow(x, x[i])
    BY <1>2 DEF Extended
  <2>2. PICK c \in Codes, p \in 0 .. Len(x) - 1, s \in Wordings : x[i] = NewOutcome(c, p, s)
    BY <2>1 DEF NewRow
  <2>3. p \in 0 .. MaxOutcomes
    BY <1>1, OutcomesAssumption
  <2>4. NewOutcome(c, p, s) \in OutcomeRow
    BY <2>3 DEF NewOutcome, OutcomeRow, Statements
  <2>5. WordingKept(NewOutcome(c, p, s))
    BY DEF NewOutcome, WordingKept
  <2> QED
    BY <2>2, <2>4, <2>5
<1>3. \A i \in 1 .. Len(x) : x[i] \in OutcomeRow
  BY <1>1, <1>2
<1>4. x \in Table
  BY <1>1, <1>3 DEF Table
<1> QED
  BY <1>1, <1>2, <1>4 DEF Grown

-----------------------------------------------------------------------------
outcomesVars == <<session, outcomeRows>>

\* A request that approves a review or an intake.
OutcomesShape(r) ==
    /\ r.key = "outcomes"
    /\ r.of \in Reviews \cup {None}
    /\ r.loaded \in Table /\ Len(r.loaded) <= Len(outcome)
    /\ r.set \in Table /\ Len(r.set) <= MaxOutcomes
    /\ Grown(r.loaded, r.set)

\* It has read the rows there are, and a second approval of what it writes adds nothing.
OutcomesFresh(r) == r.loaded = outcome /\ (r.of # None => Settled(r.of, r.set))

\* A subtopic hangs on an outcome of its code.
Linked(row) ==
    row.outcome # 0 => /\ row.outcome \in DOMAIN outcome
                       /\ outcome[row.outcome].code = row.clo_code

SubtopicShape(r) ==
    /\ r.key = "subtopic"
    /\ r.loaded \in SubtopicRow \cup {None}
    /\ r.set \in SubtopicRow
    /\ Linked(r.set)

OutcomesRequests ==
    \A q \in Requests : req[q] # None =>
        \/ OutcomesShape(req[q]) /\ ("outcomes" \notin crossed => OutcomesFresh(req[q]))
        \/ SubtopicShape(req[q]) /\ ("subtopic" \notin crossed => req[q].loaded = subtopic)

\* What the rows and the artifact approved last say, unless two reviews met.
ReviewKept ==
    /\ applied \in Reviews \cup {None}
    /\ "outcomes" \notin crossed =>
          /\ \A i \in DOMAIN outcome : WordingKept(outcome[i])
          /\ applied # None => Settled(applied, outcome)

OutcomesInv ==
    /\ SessionOK
    /\ OutcomesTypeOK
    /\ OutcomesRequests
    /\ ReviewKept

-----------------------------------------------------------------------------
\* The course starts as its form or its syllabus leaves it.
LEMMA OutcomesStart == OutcomesInit => OutcomesInv
<1> SUFFICES ASSUME OutcomesInit PROVE OutcomesInv
  OBVIOUS
<1>1. PICK n \in 0 .. 2 : \E w \in [1 .. n -> Wordings] :
         outcome = [i \in 1 .. n |-> NewOutcome(i, i - 1, w[i])]
  BY DEF OutcomesInit
<1>2. PICK w \in [1 .. n -> Wordings] : outcome = [i \in 1 .. n |-> NewOutcome(i, i - 1, w[i])]
  BY <1>1
<1>3. ASSUME NEW i \in 1 .. n
      PROVE  NewOutcome(i, i - 1, w[i]) \in OutcomeRow /\ WordingKept(NewOutcome(i, i - 1, w[i]))
  <2>1. i \in Codes /\ i - 1 \in 0 .. MaxOutcomes /\ w[i] \in Statements
    BY OutcomesAssumption DEF Codes, Statements
  <2>2. NewOutcome(i, i - 1, w[i]) \in OutcomeRow
    BY <2>1 DEF NewOutcome, OutcomeRow
  <2>3. WordingKept(NewOutcome(i, i - 1, w[i]))
    BY DEF NewOutcome, WordingKept
  <2> QED
    BY <2>2, <2>3
<1>4. outcome \in Seq(OutcomeRow) /\ Len(outcome) = n /\ DOMAIN outcome = 1 .. n
  <2>1. outcome \in [1 .. n -> OutcomeRow]
    BY <1>2, <1>3
  <2> QED
    BY <2>1
<1>5. \A i \in DOMAIN outcome : WordingKept(outcome[i])
  BY <1>2, <1>3, <1>4
<1>6. SessionOK /\ \A q \in Requests : req[q] = None
  BY SessionStarts DEF OutcomesInit, SessionInit
<1>7. OutcomesTypeOK
  <2>1. approvals \in 0 .. MaxApprovals /\ Len(outcome) <= MaxOutcomes /\ subtopic = None
    BY <1>4, OutcomesAssumption DEF OutcomesInit
  <2> QED
    BY <1>4, <2>1 DEF OutcomesTypeOK
<1> QED
  BY <1>5, <1>6, <1>7 DEF OutcomesInv, OutcomesRequests, ReviewKept, OutcomesInit

\* What a review writes is what it would write once more.
LEMMA SettledReview ==
  ASSUME outcome \in Table, NEW items \in Reviews, NEW order \in Orders(outcome),
         "outcomes" \notin crossed
  PROVE  Settled(items, apply_refined_clos(items, order))
<1> DEFINE table == apply_refined_clos(items, order)
<1>1. ReviewedBy(items, order, outcome, table)
  BY Applies
<1>2. PICK t : Chain(items, order, outcome, t) /\ t[Len(items)] = table
  BY <1>1 DEF ReviewedBy
<1> HIDE DEF table
<1> SUFFICES ASSUME DistinctCodes(items), AtPlaces(table), NEW u \in Table,
                    ReviewedBy(items, InPlace(table), table, u)
             PROVE  u = table
  BY DEF Settled, table
<1>3. Len(items) \in 0 .. Len(items)
  BY ReviewIs
<1>4. Grown(outcome, table) /\ table \in Table /\ DOMAIN table = 1 .. Len(table)
  BY <1>2, <1>3, ChainGrows
<1>5. AtPlaces(outcome)
  <2>1. Len(outcome) \in Nat /\ DOMAIN outcome = 1 .. Len(outcome) /\ Len(table) \in Nat
    BY <1>4 DEF Table
  <2> QED
    BY <1>4, <2>1 DEF Grown, AtPlaces
<1>6. order = InPlace(outcome)
  BY <1>5, OneOrder
<1>7. DifferentCodes(items)
  BY DEF DistinctCodes, DifferentCodes, Code
<1>8. PICK v : Chain(items, InPlace(table), table, v) /\ v[Len(items)] = u
  BY DEF ReviewedBy
<1> QED
  BY <1>2, <1>6, <1>7, <1>8, RowSettles

\* The wordings are kept and the second approval adds nothing, read off the invariant.
LEMMA KeptIs == OutcomesInv => FirstWordingIsKept
<1> SUFFICES ASSUME OutcomesInv, "outcomes" \notin crossed
             PROVE  /\ \A i \in DOMAIN outcome :
                          \/ outcome[i].claimed \/ outcome[i].statement = outcome[i].first
                          \/ outcome[i].attributes.original = outcome[i].first
                    /\ applied # None /\ DistinctCodes(applied) /\ AtPlaces(outcome) =>
                          \A order \in Orders(outcome) : apply_refined_clos(applied, order) = outcome
  BY DEF FirstWordingIsKept
<1>1. outcome \in Table
  BY DEF OutcomesInv, OutcomesTypeOK, Table
<1>2. \A i \in DOMAIN outcome : WordingKept(outcome[i])
  BY DEF OutcomesInv, ReviewKept
<1>3. ASSUME applied # None, DistinctCodes(applied), AtPlaces(outcome), NEW order \in Orders(outcome)
      PROVE  apply_refined_clos(applied, order) = outcome
  <2> DEFINE u == apply_refined_clos(applied, order)
  <2>1. applied \in Reviews /\ Settled(applied, outcome)
    BY <1>3 DEF OutcomesInv, ReviewKept
  <2>2. order = InPlace(outcome)
    BY <1>1, <1>3, OneOrder
  <2>3. ReviewedBy(applied, InPlace(outcome), outcome, u)
    BY <1>1, <2>1, <2>2, Applies
  <2>4. u \in Table
    <3>1. PICK t : Chain(applied, InPlace(outcome), outcome, t) /\ t[Len(applied)] = u
      BY <2>3 DEF ReviewedBy
    <3>2. Len(applied) \in 0 .. Len(applied)
      BY <2>1, ReviewIs
    <3> QED
      BY <2>1, <3>1, <3>2, ChainGrows
  <2> QED
    BY <1>3, <2>1, <2>3, <2>4 DEF Settled
<1> QED
  BY <1>2, <1>3 DEF WordingKept

-----------------------------------------------------------------------------
\* Approving a run: what the request carries until it commits.
LEMMA OutcomesBegin ==
  ASSUME OutcomesInv, NEW q \in Requests, NEW items \in Reviews \cup {None},
         NEW table \in Table, Grown(outcome, table),
         "outcomes" \notin crossed /\ items # None => Settled(items, table),
         BeginOutcomes(q, items, table)
  PROVE  OutcomesInv'
<1>0. PICK r : r = [key |-> "outcomes", of |-> items, loaded |-> outcome, set |-> table]
  OBVIOUS
<1>1. /\ SessionOK' /\ crossed \subseteq crossed' /\ req'[q] = r
      /\ \A o \in Requests \ {q} : req'[o] = req[o]
  BY <1>0, BeginKeepsAlone DEF BeginOutcomes, OutcomesInv
<1>2. outcome' = outcome /\ subtopic' = subtopic /\ applied' = applied
      /\ approvals' = approvals + 1 /\ approvals < MaxApprovals /\ Len(table) <= MaxOutcomes
  BY DEF BeginOutcomes
<1>3. outcome \in Table /\ Len(outcome) \in Nat
  BY DEF OutcomesInv, OutcomesTypeOK, Table
<1>4. OutcomesShape(r)' /\ ("outcomes" \notin crossed' => OutcomesFresh(r)')
  <2>1. r.key = "outcomes" /\ r.of = items /\ r.loaded = outcome /\ r.set = table
    BY <1>0
  <2>2. OutcomesShape(r)'
    BY <1>2, <1>3, <2>1 DEF OutcomesShape
  <2>3. ASSUME "outcomes" \notin crossed' PROVE OutcomesFresh(r)'
    <3>1. "outcomes" \notin crossed
      BY <1>1, <2>3
    <3> QED
      BY <1>2, <2>1, <3>1 DEF OutcomesFresh
  <2> QED
    BY <2>2, <2>3
<1>5. OutcomesRequests'
  <2> SUFFICES ASSUME NEW o \in Requests, req'[o] # None
               PROVE  \/ /\ OutcomesShape(req[o])'
                         /\ "outcomes" \notin crossed' => OutcomesFresh(req[o])'
                      \/ /\ SubtopicShape(req[o])'
                         /\ "subtopic" \notin crossed' => req'[o].loaded = subtopic'
    BY DEF OutcomesRequests
  <2>1. CASE o = q
    BY <1>1, <1>4, <2>1 DEF OutcomesShape, OutcomesFresh
  <2>2. CASE o # q
    <3>1. req'[o] = req[o] /\ crossed \subseteq crossed'
      BY <1>1, <2>2
    <3>2. \/ OutcomesShape(req[o]) /\ ("outcomes" \notin crossed => OutcomesFresh(req[o]))
          \/ SubtopicShape(req[o]) /\ ("subtopic" \notin crossed => req[o].loaded = subtopic)
      BY <3>1 DEF OutcomesInv, OutcomesRequests
    <3> QED
      BY <1>2, <3>1, <3>2 DEF OutcomesShape, OutcomesFresh, SubtopicShape, Linked
  <2> QED
    BY <2>1, <2>2
<1>6. OutcomesTypeOK'
  <2>1. approvals' \in 0 .. MaxApprovals
    BY <1>2, OutcomesAssumption DEF OutcomesInv, OutcomesTypeOK
  <2> QED
    BY <1>1, <1>2, <2>1 DEF OutcomesInv, OutcomesTypeOK
<1>7. ReviewKept'
  BY <1>1, <1>2 DEF OutcomesInv, ReviewKept
<1> QED
  BY <1>1, <1>5, <1>6, <1>7 DEF OutcomesInv

\* Approving subtopics: the outcome it has found has the code.
LEMMA SubtopicBegins ==
  ASSUME OutcomesInv, NEW q \in Requests, NEW code \in Subtopics, ApproveSubtopics(q, code)
  PROVE  OutcomesInv'
<1>1. outcome' = outcome /\ subtopic' = subtopic /\ applied' = applied /\ approvals' = approvals
  BY DEF ApproveSubtopics, outcomeRows
<1>2. PICK id \in 0 .. MaxOutcomes :
         /\ IF \E i \in DOMAIN outcome : outcome[i].code = code
            THEN id \in DOMAIN outcome /\ outcome[id].code = code ELSE id = 0
         /\ Begin(q, [key |-> "subtopic", loaded |-> subtopic,
                      set |-> [clo_code |-> code, outcome |-> id]])
  BY DEF ApproveSubtopics
<1>7. PICK r : r = [key |-> "subtopic", loaded |-> subtopic,
                     set |-> [clo_code |-> code, outcome |-> id]]
  OBVIOUS
<1>3. /\ SessionOK' /\ crossed \subseteq crossed' /\ req'[q] = r
      /\ \A o \in Requests \ {q} : req'[o] = req[o]
  BY <1>2, <1>7, BeginKeepsAlone DEF OutcomesInv
<1>4. SubtopicShape(r)' /\ r.loaded = subtopic'
  <2>1. [clo_code |-> code, outcome |-> id] \in SubtopicRow
    BY OutcomesAssumption DEF SubtopicRow
  <2>2. id # 0 => id \in DOMAIN outcome /\ outcome[id].code = code
    BY <1>2
  <2>3. subtopic \in SubtopicRow \cup {None}
    BY DEF OutcomesInv, OutcomesTypeOK
  <2> QED
    BY <1>1, <1>7, <2>1, <2>2, <2>3 DEF SubtopicShape, Linked
<1>5. OutcomesRequests'
  <2> SUFFICES ASSUME NEW o \in Requests, req'[o] # None
               PROVE  \/ /\ OutcomesShape(req[o])'
                         /\ "outcomes" \notin crossed' => OutcomesFresh(req[o])'
                      \/ /\ SubtopicShape(req[o])'
                         /\ "subtopic" \notin crossed' => req'[o].loaded = subtopic'
    BY DEF OutcomesRequests
  <2>1. CASE o = q
    BY <1>3, <1>4, <2>1 DEF SubtopicShape, Linked
  <2>2. CASE o # q
    <3>1. req'[o] = req[o] /\ crossed \subseteq crossed'
      BY <1>3, <2>2
    <3>2. \/ OutcomesShape(req[o]) /\ ("outcomes" \notin crossed => OutcomesFresh(req[o]))
          \/ SubtopicShape(req[o]) /\ ("subtopic" \notin crossed => req[o].loaded = subtopic)
      BY <3>1 DEF OutcomesInv, OutcomesRequests
    <3> QED
      BY <1>1, <3>1, <3>2 DEF OutcomesShape, OutcomesFresh, SubtopicShape, Linked
  <2> QED
    BY <2>1, <2>2
<1>6. OutcomesTypeOK' /\ ReviewKept'
  BY <1>1, <1>3 DEF OutcomesInv, OutcomesTypeOK, ReviewKept
<1> QED
  BY <1>3, <1>5, <1>6 DEF OutcomesInv

\* The columns of an UPDATE, and a row nobody else has written since.
LEMMA FlushRow ==
  ASSUME NEW now \in OutcomeRow, NEW loaded \in OutcomeRow, NEW set \in OutcomeRow,
         set.code = loaded.code
  PROVE  /\ Flush(now, loaded, set) \in OutcomeRow
         /\ Flush(now, loaded, set).code = now.code
         /\ now = loaded => Flush(now, loaded, set) = set
<1> DEFINE f == Flush(now, loaded, set)
           col(a) == IF set[a] # loaded[a] THEN set[a] ELSE now[a]
<1>1. DOMAIN now = {"code", "position", "statement", "attributes", "first", "claimed"}
  BY DEF OutcomeRow
<1>2. f = [a \in {"code", "position", "statement", "attributes", "first", "claimed"} |-> col(a)]
  BY <1>1 DEF Flush
<1>3. f = [code |-> col("code"), position |-> col("position"), statement |-> col("statement"),
           attributes |-> col("attributes"), first |-> col("first"), claimed |-> col("claimed")]
  BY <1>2
<1>4. /\ col("code") = now.code /\ col("code") \in Codes /\ col("position") \in 0 .. MaxOutcomes
      /\ col("statement") \in Statements /\ col("first") \in Statements
      /\ col("attributes") \in [original : Statements \cup {None}, refined : BOOLEAN]
      /\ col("claimed") \in BOOLEAN
  BY DEF OutcomeRow
<1>5. now = loaded => \A a \in DOMAIN now : col(a) = set[a]
  OBVIOUS
<1>6. now = loaded => f = set
  <2>1. set = [a \in DOMAIN set |-> set[a]] /\ DOMAIN set = DOMAIN now
    BY DEF OutcomeRow
  <2>2. ASSUME now = loaded PROVE f = set
    <3>1. \A a \in DOMAIN now : f[a] = set[a]
      BY <2>2 DEF Flush
    <3>2. DOMAIN f = DOMAIN now /\ f = [a \in DOMAIN now |-> f[a]]
      BY DEF Flush
    <3> HIDE DEF f
    <3> QED
      BY <2>1, <3>1, <3>2
  <2> QED
    BY <2>2
<1> HIDE DEF col
<1>7. f \in OutcomeRow /\ f.code = now.code
  BY <1>3, <1>4 DEF OutcomeRow
<1> QED
  BY <1>6, <1>7

\* The rows after the commit of a review or an intake.
LEMMA RowsCommitted ==
  ASSUME OutcomesInv, NEW q \in Requests, CommitOutcomes(q)
  PROVE  /\ OutcomesShape(req[q])
         /\ "outcomes" \notin crossed => OutcomesFresh(req[q])
         /\ outcome \in Table /\ outcome' \in Table /\ Len(outcome') <= MaxOutcomes
         /\ Len(outcome) <= Len(outcome')
         /\ \A i \in 1 .. Len(outcome) : outcome'[i].code = outcome[i].code
         /\ "outcomes" \notin crossed => outcome' = req[q].set
<1> DEFINE r == req[q]
           n == Len(outcome)
           l == Len(r.loaded)
           new == SubSeq(r.set, l + 1, Len(r.set))
           old == [i \in DOMAIN outcome |->
                     IF i \in DOMAIN r.loaded THEN Flush(outcome[i], r.loaded[i], r.set[i])
                     ELSE outcome[i]]
<1>1. r # None /\ r.key = "outcomes" /\ n + Len(new) <= MaxOutcomes /\ outcome' = old \o new
  BY DEF CommitOutcomes, End
<1>2. OutcomesShape(r) /\ ("outcomes" \notin crossed => OutcomesFresh(r))
  BY <1>1 DEF OutcomesInv, OutcomesRequests, SubtopicShape
<1>3. outcome \in Table /\ n \in Nat /\ DOMAIN outcome = 1 .. n
  BY DEF OutcomesInv, OutcomesTypeOK, Table
<1>4. /\ r.loaded \in Table /\ r.set \in Table /\ l \in Nat /\ Len(r.set) \in Nat
      /\ l <= n /\ l <= Len(r.set) /\ DOMAIN r.loaded = 1 .. l /\ DOMAIN r.set = 1 .. Len(r.set)
      /\ \A i \in 1 .. l : r.set[i].code = r.loaded[i].code
  <2>1. r.loaded \in Table /\ r.set \in Table /\ l <= n /\ Grown(r.loaded, r.set)
    BY <1>2 DEF OutcomesShape
  <2> HIDE DEF r
  <2> QED
    BY <2>1 DEF Grown, Table
<1> HIDE DEF r
<1>5. ASSUME NEW i \in 1 .. n
      PROVE  old[i] \in OutcomeRow /\ old[i].code = outcome[i].code
             /\ (outcome = r.loaded => old[i] = r.set[i])
  <2>1. outcome[i] \in OutcomeRow
    BY <1>3 DEF Table
  <2>2. CASE i \in 1 .. l
    <3>1. r.loaded[i] \in OutcomeRow /\ r.set[i] \in OutcomeRow /\ r.set[i].code = r.loaded[i].code
      <4>1. i \in 1 .. Len(r.set)
        BY <1>4, <2>2
      <4> QED
        BY <1>4, <2>2, <4>1 DEF Table
    <3>2. old[i] = Flush(outcome[i], r.loaded[i], r.set[i])
      BY <1>3, <1>4, <2>2
    <3> HIDE DEF old
    <3> QED
      BY <2>1, <3>1, <3>2, FlushRow
  <2>3. CASE i \notin 1 .. l
    <3>1. old[i] = outcome[i] /\ outcome # r.loaded
      BY <1>3, <1>4, <2>3
    <3> HIDE DEF old
    <3> QED
      BY <2>1, <3>1
  <2> QED
    BY <2>2, <2>3
<1>6. old \in Table /\ Len(old) = n
  <2>1. DOMAIN old = 1 .. n /\ old = [i \in 1 .. n |-> old[i]]
    BY <1>3
  <2> HIDE DEF old
  <2>2. old \in [1 .. n -> OutcomeRow]
    BY <1>5, <2>1
  <2> QED
    BY <1>3, <2>2 DEF Table
<1>7. /\ new \in Table /\ Len(new) = Len(r.set) - l
      /\ \A i \in 1 .. Len(new) : new[i] = r.set[l + i]
  <2> HIDE DEF l
  <2>1. l + 1 \in 1 .. Len(r.set) + 1 /\ Len(r.set) - l \in Nat
    BY <1>4
  <2>2. new \in Table /\ Len(new) = Len(r.set) - l
    BY <1>4, <2>1 DEF Table
  <2>3. \A i \in 1 .. Len(new) : new[i] = r.set[l + i]
    BY <1>4, <2>1, <2>2 DEF Table
  <2> QED
    BY <2>2, <2>3
<1> HIDE DEF old, new, n, l
<1>8. /\ outcome' \in Table /\ Len(outcome') = n + Len(new) /\ Len(new) \in Nat
      /\ \A i \in 1 .. n : outcome'[i] = old[i]
      /\ \A i \in 1 .. Len(new) : outcome'[n + i] = new[i]
  BY <1>1, <1>3, <1>6, <1>7 DEF Table
<1>9. ASSUME "outcomes" \notin crossed PROVE outcome' = r.set
  <2>1. r.loaded = outcome
    BY <1>2, <1>9 DEF OutcomesFresh
  <2>2. l = n
    BY <2>1 DEF l, n
  <2>3. Len(outcome') = Len(r.set)
    BY <1>3, <1>4, <1>7, <1>8, <2>2
  <2>4. ASSUME NEW i \in 1 .. Len(r.set) PROVE outcome'[i] = r.set[i]
    <3>1. CASE i \in 1 .. n
      BY <1>5, <1>8, <2>1, <3>1
    <3>2. CASE i \notin 1 .. n
      <4> DEFINE j == i - n
      <4>1. j \in 1 .. Len(new) /\ n + j = i
        BY <1>3, <1>4, <1>7, <2>2, <3>2
      <4> HIDE DEF j
      <4> QED
        BY <1>7, <1>8, <2>2, <4>1
    <3> QED
      BY <3>1, <3>2
  <2> QED
    BY <1>4, <1>8, <2>3, <2>4, SameTable
<1>10. Len(outcome) <= Len(outcome') /\ Len(outcome') <= MaxOutcomes
  BY <1>1, <1>3, <1>8 DEF n
<1>11. \A i \in 1 .. Len(outcome) : outcome'[i].code = outcome[i].code
  BY <1>5, <1>8 DEF n
<1> QED
  BY <1>2, <1>3, <1>8, <1>9, <1>10, <1>11 DEF r

\* A review or an intake commits.
LEMMA OutcomesCommit ==
  ASSUME OutcomesInv, NEW q \in Requests, CommitOutcomes(q)
  PROVE  OutcomesInv'
<1>1. /\ SessionOK' /\ crossed' = crossed /\ req[q] # None /\ req'[q] = None
      /\ \A o \in Requests \ {q} : req'[o] = req[o]
  BY EndKeepsAlone DEF CommitOutcomes, OutcomesInv
<1>2. /\ subtopic' = subtopic /\ approvals' = approvals /\ req[q].key = "outcomes"
      /\ applied' = IF "outcomes" \in crossed THEN None ELSE req[q].of
  BY DEF CommitOutcomes
<1>3. /\ OutcomesShape(req[q])
      /\ "outcomes" \notin crossed => OutcomesFresh(req[q])
      /\ outcome \in Table /\ outcome' \in Table /\ Len(outcome') <= MaxOutcomes
      /\ Len(outcome) <= Len(outcome')
      /\ \A i \in 1 .. Len(outcome) : outcome'[i].code = outcome[i].code
      /\ "outcomes" \notin crossed => outcome' = req[q].set
  BY RowsCommitted
<1>4. /\ Len(outcome) \in Nat /\ DOMAIN outcome = 1 .. Len(outcome)
      /\ Len(outcome') \in Nat /\ DOMAIN outcome' = 1 .. Len(outcome')
      /\ DOMAIN outcome \subseteq DOMAIN outcome'
  <2>1. /\ Len(outcome) \in Nat /\ DOMAIN outcome = 1 .. Len(outcome)
        /\ Len(outcome') \in Nat /\ DOMAIN outcome' = 1 .. Len(outcome')
    BY <1>3 DEF Table
  <2> QED
    BY <1>3, <2>1
<1>5. ASSUME NEW row, Linked(row) PROVE Linked(row)'
  BY <1>3, <1>4, <1>5 DEF Linked
<1>6. OutcomesRequests'
  <2> SUFFICES ASSUME NEW o \in Requests, req'[o] # None
               PROVE  \/ /\ OutcomesShape(req[o])'
                         /\ "outcomes" \notin crossed' => OutcomesFresh(req[o])'
                      \/ /\ SubtopicShape(req[o])'
                         /\ "subtopic" \notin crossed' => req'[o].loaded = subtopic'
    BY DEF OutcomesRequests
  <2>1. o # q /\ req'[o] = req[o] /\ req[o] # None
    BY <1>1
  <2>2. CASE OutcomesShape(req[o])
    <3>1. "outcomes" \in crossed
      <4>1. req[o].key = "outcomes"
        BY <2>2 DEF OutcomesShape
      <4> QED
        BY <1>1, <1>2, <2>1, <4>1, OthersCrossed DEF OutcomesInv
    <3>2. Len(req[o].loaded) \in Nat
      BY <2>2 DEF OutcomesShape, Table
    <3>3. Len(req[o].loaded) <= Len(outcome')
      BY <1>3, <1>4, <2>2, <3>2 DEF OutcomesShape
    <3>4. OutcomesShape(req[o])'
      BY <2>1, <2>2, <3>3 DEF OutcomesShape
    <3> QED
      BY <1>1, <3>1, <3>4
  <2>3. CASE SubtopicShape(req[o]) /\ ("subtopic" \notin crossed => req[o].loaded = subtopic)
    <3>1. Linked(req[o].set)'
      <4>1. PICK row : row = req[o].set
        OBVIOUS
      <4>2. Linked(row)'
        BY <1>5, <2>3, <4>1 DEF SubtopicShape
      <4> QED
        BY <2>1, <4>1, <4>2 DEF Linked
    <3> QED
      BY <1>1, <1>2, <2>1, <2>3, <3>1 DEF SubtopicShape
  <2> QED
    BY <2>1, <2>2, <2>3 DEF OutcomesInv, OutcomesRequests
<1>7. OutcomesTypeOK'
  <2>1. outcome' \in Seq(OutcomeRow)
    BY <1>3 DEF Table
  <2>2. subtopic # None /\ subtopic.outcome # 0 =>
           /\ subtopic.outcome \in DOMAIN outcome'
           /\ "subtopic" \notin crossed => outcome'[subtopic.outcome].code = subtopic.clo_code
    BY <1>3, <1>4 DEF OutcomesInv, OutcomesTypeOK
  <2> QED
    BY <1>1, <1>2, <1>3, <2>1, <2>2 DEF OutcomesInv, OutcomesTypeOK
<1>8. ReviewKept'
  <2>1. applied' \in Reviews \cup {None}
    BY <1>2, <1>3 DEF OutcomesShape
  <2>2. ASSUME "outcomes" \notin crossed'
        PROVE  /\ \A i \in DOMAIN outcome' : WordingKept(outcome'[i])
               /\ applied' # None => Settled(applied', outcome')
    <3>1. outcome' = req[q].set /\ req[q].loaded = outcome /\ Grown(outcome, req[q].set)
          /\ applied' = req[q].of
      BY <1>1, <1>2, <1>3, <2>2 DEF OutcomesShape, OutcomesFresh
    <3>2. \A i \in 1 .. Len(outcome) : WordingKept(outcome[i])
      BY <1>1, <1>4, <2>2 DEF OutcomesInv, ReviewKept
    <3>3. \A i \in DOMAIN outcome' : WordingKept(outcome'[i])
      <4> SUFFICES ASSUME NEW i \in 1 .. Len(outcome') PROVE WordingKept(outcome'[i])
        BY <1>4
      <4>1. i \in 1 .. Len(outcome) \/ i > Len(outcome)
        BY <1>4
      <4> QED
        BY <3>1, <3>2, <4>1 DEF Grown
    <3> QED
      BY <1>1, <1>3, <2>2, <3>1, <3>3 DEF OutcomesFresh
  <2> QED
    BY <2>1, <2>2 DEF ReviewKept
<1> QED
  BY <1>1, <1>6, <1>7, <1>8 DEF OutcomesInv

\* Subtopics commit.
LEMMA SubtopicCommits ==
  ASSUME OutcomesInv, NEW q \in Requests, CommitSubtopics(q)
  PROVE  OutcomesInv'
<1>1. /\ SessionOK' /\ crossed' = crossed /\ req[q] # None /\ req'[q] = None
      /\ \A o \in Requests \ {q} : req'[o] = req[o]
  BY EndKeepsAlone DEF CommitSubtopics, OutcomesInv
<1>2. /\ outcome' = outcome /\ approvals' = approvals /\ applied' = applied
      /\ req[q].key = "subtopic" /\ (req[q].loaded = None => subtopic = None)
      /\ subtopic' = IF subtopic = None THEN req[q].set
                     ELSE Flush(subtopic, req[q].loaded, req[q].set)
  BY DEF CommitSubtopics
<1>3. SubtopicShape(req[q]) /\ ("subtopic" \notin crossed => req[q].loaded = subtopic)
  BY <1>1, <1>2 DEF OutcomesInv, OutcomesRequests, OutcomesShape
<1>4. subtopic \in SubtopicRow \cup {None} /\ None \notin SubtopicRow
  BY OutcomeRowAssumption DEF OutcomesInv, OutcomesTypeOK
<1>5. /\ subtopic' \in SubtopicRow
      /\ subtopic'.outcome # 0 => subtopic'.outcome \in DOMAIN outcome
      /\ "subtopic" \notin crossed => Linked(subtopic')
  <2>1. CASE subtopic = None
    BY <1>2, <1>3, <2>1 DEF SubtopicShape, Linked
  <2>2. CASE subtopic # None
    <3> DEFINE loaded == req[q].loaded
               set == req[q].set
               col(a) == IF set[a] # loaded[a] THEN set[a] ELSE subtopic[a]
    <3>1. subtopic \in SubtopicRow /\ loaded \in SubtopicRow /\ set \in SubtopicRow /\ Linked(set)
      BY <1>2, <1>3, <1>4, <2>2 DEF SubtopicShape
    <3>2. DOMAIN subtopic = {"clo_code", "outcome"}
      BY <3>1 DEF SubtopicRow
    <3>3. subtopic' = [a \in {"clo_code", "outcome"} |-> col(a)]
      BY <1>2, <2>2, <3>2 DEF Flush
    <3>4. subtopic' = [clo_code |-> col("clo_code"), outcome |-> col("outcome")]
      BY <3>3
    <3>5. /\ subtopic.clo_code \in Codes /\ subtopic.outcome \in 0 .. MaxOutcomes
          /\ set.clo_code \in Codes /\ set.outcome \in 0 .. MaxOutcomes
      BY <3>1 DEF SubtopicRow
    <3>6. subtopic' \in SubtopicRow
      BY <3>4, <3>5 DEF SubtopicRow
    <3>7. subtopic'.outcome # 0 => subtopic'.outcome \in DOMAIN outcome
      <4>1. subtopic.outcome # 0 => subtopic.outcome \in DOMAIN outcome
        BY <2>2 DEF OutcomesInv, OutcomesTypeOK
      <4>2. set.outcome # 0 => set.outcome \in DOMAIN outcome
        BY <3>1 DEF Linked
      <4>3. subtopic'.outcome \in {subtopic.outcome, set.outcome}
        BY <3>4
      <4> QED
        BY <4>1, <4>2, <4>3
    <3>8. ASSUME "subtopic" \notin crossed PROVE Linked(subtopic')
      <4>1. loaded = subtopic
        BY <1>3, <3>8
      <4>2. subtopic'.clo_code = set.clo_code /\ subtopic'.outcome = set.outcome
        BY <3>4, <4>1
      <4> HIDE DEF set
      <4> QED
        BY <3>1, <4>2 DEF Linked
    <3> QED
      BY <3>6, <3>7, <3>8
  <2> QED
    BY <2>1, <2>2
<1>6. OutcomesRequests'
  <2> SUFFICES ASSUME NEW o \in Requests, req'[o] # None
               PROVE  \/ /\ OutcomesShape(req[o])'
                         /\ "outcomes" \notin crossed' => OutcomesFresh(req[o])'
                      \/ /\ SubtopicShape(req[o])'
                         /\ "subtopic" \notin crossed' => req'[o].loaded = subtopic'
    BY DEF OutcomesRequests
  <2>1. o # q /\ req'[o] = req[o] /\ req[o] # None
    BY <1>1
  <2>2. CASE OutcomesShape(req[o]) /\ ("outcomes" \notin crossed => OutcomesFresh(req[o]))
    BY <1>1, <1>2, <2>1, <2>2 DEF OutcomesShape, OutcomesFresh
  <2>3. CASE SubtopicShape(req[o])
    <3>1. "subtopic" \in crossed
      <4>1. req[o].key = "subtopic"
        BY <2>3 DEF SubtopicShape
      <4> QED
        BY <1>1, <1>2, <2>1, <4>1, OthersCrossed DEF OutcomesInv
    <3>2. SubtopicShape(req[o])'
      BY <1>2, <2>1, <2>3 DEF SubtopicShape, Linked
    <3> QED
      BY <1>1, <3>1, <3>2
  <2> QED
    BY <2>1, <2>2, <2>3 DEF OutcomesInv, OutcomesRequests
<1>7. OutcomesTypeOK'
  BY <1>1, <1>2, <1>5 DEF OutcomesInv, OutcomesTypeOK, Linked
<1>8. ReviewKept'
  BY <1>1, <1>2 DEF OutcomesInv, ReviewKept
<1> QED
  BY <1>1, <1>6, <1>7, <1>8 DEF OutcomesInv

-----------------------------------------------------------------------------
\* Approving an intake.
LEMMA IntakeBegins ==
  ASSUME OutcomesInv, NEW q \in Requests, NEW items \in Intakes, ApproveIntake(q, items)
  PROVE  OutcomesInv'
<1> DEFINE table == promote_intake(items)
<1>1. BeginOutcomes(q, None, table)
  BY DEF ApproveIntake
<1>2. outcome \in Table
  BY DEF OutcomesInv, OutcomesTypeOK, Table
<1>3. table \in Extended(outcome)
  BY <1>2, IntakeExtends
<1>4. Len(table) <= MaxOutcomes
  BY <1>1 DEF BeginOutcomes
<1> HIDE DEF table
<1>5. table \in Table /\ Grown(outcome, table)
  BY <1>2, <1>3, <1>4, ExtendedGrows
<1> QED
  BY <1>1, <1>5, OutcomesBegin

\* Approving a review.
LEMMA ReviewBegins ==
  ASSUME OutcomesInv, NEW q \in Requests, NEW items \in Reviews, ApproveReview(q, items)
  PROVE  OutcomesInv'
<1>1. PICK order \in Orders(outcome) : BeginOutcomes(q, items, apply_refined_clos(items, order))
  BY DEF ApproveReview
<1> DEFINE table == apply_refined_clos(items, order)
<1>2. outcome \in Table
  BY DEF OutcomesInv, OutcomesTypeOK, Table
<1>3. PICK t : Chain(items, order, outcome, t) /\ t[Len(items)] = table
  BY <1>2, Applies DEF ReviewedBy
<1>4. "outcomes" \notin crossed => Settled(items, table)
  BY <1>2, SettledReview
<1>5. BeginOutcomes(q, items, table)
  BY <1>1
<1> HIDE DEF table
<1>6. Len(items) \in 0 .. Len(items)
  BY ReviewIs
<1>7. table \in Table /\ Grown(outcome, table)
  BY <1>3, <1>6, ChainGrows
<1> QED
  BY <1>4, <1>5, <1>7, OutcomesBegin

\* A request that fails leaves the rows.
LEMMA OutcomesAbort ==
  ASSUME OutcomesInv, NEW q \in Requests, AbortOutcomes(q)
  PROVE  OutcomesInv'
<1>1. /\ SessionOK' /\ crossed' = crossed /\ req'[q] = None
      /\ \A o \in Requests \ {q} : req'[o] = req[o]
  BY EndKeepsAlone DEF AbortOutcomes, OutcomesInv
<1>2. outcome' = outcome /\ subtopic' = subtopic /\ applied' = applied /\ approvals' = approvals
  BY DEF AbortOutcomes, outcomeRows
<1>3. OutcomesRequests'
  <2> SUFFICES ASSUME NEW o \in Requests, req'[o] # None
               PROVE  \/ /\ OutcomesShape(req[o])'
                         /\ "outcomes" \notin crossed' => OutcomesFresh(req[o])'
                      \/ /\ SubtopicShape(req[o])'
                         /\ "subtopic" \notin crossed' => req'[o].loaded = subtopic'
    BY DEF OutcomesRequests
  <2>1. req'[o] = req[o]
    BY <1>1
  <2>2. \/ OutcomesShape(req[o]) /\ ("outcomes" \notin crossed => OutcomesFresh(req[o]))
        \/ SubtopicShape(req[o]) /\ ("subtopic" \notin crossed => req[o].loaded = subtopic)
    BY <2>1 DEF OutcomesInv, OutcomesRequests
  <2> QED
    BY <1>1, <1>2, <2>1, <2>2 DEF OutcomesShape, OutcomesFresh, SubtopicShape, Linked
<1>4. OutcomesTypeOK' /\ ReviewKept'
  BY <1>1, <1>2 DEF OutcomesInv, OutcomesTypeOK, ReviewKept
<1> QED
  BY <1>1, <1>3, <1>4 DEF OutcomesInv

\* Every step of every request keeps the invariant.
LEMMA OutcomesSteps == OutcomesInv /\ [OutcomesNext]_outcomesVars => OutcomesInv'
<1> SUFFICES ASSUME OutcomesInv, [OutcomesNext]_outcomesVars PROVE OutcomesInv'
  OBVIOUS
<1>1. ASSUME NEW q \in Requests, NEW items \in Intakes, ApproveIntake(q, items)
      PROVE  OutcomesInv'
  BY <1>1, IntakeBegins
<1>2. ASSUME NEW q \in Requests, NEW items \in Reviews, ApproveReview(q, items)
      PROVE  OutcomesInv'
  BY <1>2, ReviewBegins
<1>3. ASSUME NEW q \in Requests, NEW code \in Subtopics, ApproveSubtopics(q, code)
      PROVE  OutcomesInv'
  BY <1>3, SubtopicBegins
<1>4. ASSUME NEW q \in Requests, CommitOutcomes(q) PROVE OutcomesInv'
  BY <1>4, OutcomesCommit
<1>5. ASSUME NEW q \in Requests, CommitSubtopics(q) PROVE OutcomesInv'
  BY <1>5, SubtopicCommits
<1>6. ASSUME NEW q \in Requests, AbortOutcomes(q) PROVE OutcomesInv'
  BY <1>6, OutcomesAbort
<1>7. CASE UNCHANGED outcomesVars
  <2>1. SessionOK'
    BY <1>7, StillAlone DEF OutcomesInv, outcomesVars
  <2>2. /\ req' = req /\ crossed' = crossed /\ outcome' = outcome /\ subtopic' = subtopic
        /\ approvals' = approvals /\ applied' = applied
    BY <1>7 DEF outcomesVars, session, outcomeRows
  <2>3. OutcomesTypeOK' /\ ReviewKept'
    BY <2>2 DEF OutcomesInv, OutcomesTypeOK, ReviewKept
  <2>4. OutcomesRequests'
    BY <2>2 DEF OutcomesInv, OutcomesRequests, OutcomesShape, OutcomesFresh, SubtopicShape, Linked
  <2> QED
    BY <2>1, <2>3, <2>4 DEF OutcomesInv
<1> QED
  BY <1>1, <1>2, <1>3, <1>4, <1>5, <1>6, <1>7 DEF OutcomesNext

\* However runs are approved, and by however many requests: the wording an outcome came
\* with is kept beside a refined one (apply_refined_clos, courses/service.py), and the
\* artifact approved last, approved once more, changes nothing, if its items have
\* different codes and no position is left out, unless two approvals have met.
THEOREM FirstWordingStays == OutcomesSpec => []FirstWordingIsKept
  BY OutcomesStart, OutcomesSteps, KeptIs, PTL DEF OutcomesSpec, outcomesVars

\* Outcomes and the subtopic are well formed, and the subtopic hangs on an outcome with
\* its code, or on none, unless two reviews of subtopics have met (promote_subtopics,
\* blueprint/promotion.py).
THEOREM OutcomesWellFormed == OutcomesSpec => []OutcomesTypeOK
<1>1. OutcomesInv => OutcomesTypeOK
  BY DEF OutcomesInv
<1> QED
  BY <1>1, OutcomesStart, OutcomesSteps, PTL DEF OutcomesSpec, outcomesVars

-----------------------------------------------------------------------------
(* The parts together: a run follows one of them                           *)

PipelineInv ==
    /\ part \in Parts
    /\ TypeOK
    /\ part = "settings" => SettingsInv
    /\ part = "runs" => StageRunsInv
    /\ part = "outcomes" => OutcomesInv
    /\ part # "outcomes" => subtopic = None
    /\ part \in {"design", "effort"} => DesignInv

\* Rows that stay are well formed as before.  What is said of a subtopic is said while
\* no two requests have met on it; the other parts have none.
LEMMA OtherRowsStay ==
  ASSUME TypeOK
  PROVE  /\ UNCHANGED settingsRows => SettingsTypeOK'
         /\ UNCHANGED stageRunRows => StageRunsTypeOK'
         /\ UNCHANGED outcomeRows /\ subtopic = None => OutcomesTypeOK' /\ subtopic' = None
         /\ UNCHANGED designRows => DesignTypeOK'
<1>1. UNCHANGED settingsRows => SettingsTypeOK'
  BY DEF TypeOK, SettingsTypeOK, settingsRows
<1>2. UNCHANGED stageRunRows => StageRunsTypeOK'
  BY DEF TypeOK, StageRunsTypeOK, stageRunRows
<1>3. UNCHANGED outcomeRows /\ subtopic = None => OutcomesTypeOK' /\ subtopic' = None
  BY DEF TypeOK, OutcomesTypeOK, outcomeRows
<1>4. UNCHANGED designRows => DesignTypeOK'
  BY DEF TypeOK, DesignTypeOK, designRows
<1> QED
  BY <1>1, <1>2, <1>3, <1>4

\* What the pipeline stores is well formed, for any number of requests: no mask stands
\* for a key, the runs of a stage were given artifacts that succeeded, no text passes
\* for a live model's that is not, no subtopic hangs under an outcome of another code,
\* and a version has one effort map (integrations/service.py, stages/service.py,
\* ai/council.py, blueprint/promotion.py).
THEOREM TypeCorrect == Spec => []TypeOK
<1>1. Init => PipelineInv
  <2> SUFFICES ASSUME Init PROVE PipelineInv
    OBVIOUS
  <2>1. SettingsInv /\ StageRunsInv /\ OutcomesInv /\ DesignInv /\ part \in Parts
    BY SettingsStarts, StageRunsStart, OutcomesStart, DesignStarts DEF Init
  <2>2. subtopic = None
    BY DEF Init, OutcomesInit
  <2>3. TypeOK
    BY <2>1, RunsAre DEF TypeOK, SettingsInv, OutcomesInv, DesignInv
  <2> QED
    BY <2>1, <2>2, <2>3 DEF PipelineInv
<1>2. PipelineInv /\ [Next]_vars => PipelineInv'
  <2> SUFFICES ASSUME PipelineInv, [Next]_vars PROVE PipelineInv'
    OBVIOUS
  <2>0. TypeOK /\ part' = part /\ part' \in Parts /\ (part # "outcomes" => subtopic = None)
    BY DEF PipelineInv, Next, vars
  <2>1. CASE /\ part = "settings" /\ SettingsNext
             /\ UNCHANGED stageRunRows /\ UNCHANGED outcomeRows /\ UNCHANGED designRows
    <3>1. SettingsInv'
      BY <2>1, SettingsSteps DEF PipelineInv
    <3>2. TypeOK' /\ subtopic' = None
      BY <2>0, <2>1, <3>1, OtherRowsStay DEF TypeOK, SettingsInv
    <3> QED
      BY <2>0, <2>1, <3>1, <3>2 DEF PipelineInv
  <2>2. CASE /\ part = "runs" /\ StageRunsNext
             /\ UNCHANGED settingsRows /\ UNCHANGED outcomeRows /\ UNCHANGED designRows
    <3>1. StageRunsInv'
      BY <2>2, StageRunsSteps DEF PipelineInv
    <3>2. StageRunsTypeOK'
      BY <3>1, RunsAre, PTL
    <3>3. TypeOK' /\ subtopic' = None
      BY <2>0, <2>2, <3>2, OtherRowsStay DEF TypeOK
    <3> QED
      BY <2>0, <2>2, <3>1, <3>3 DEF PipelineInv
  <2>3. CASE /\ part = "outcomes" /\ OutcomesNext
             /\ UNCHANGED settingsRows /\ UNCHANGED stageRunRows /\ UNCHANGED designRows
    <3>1. OutcomesInv'
      BY <2>3, OutcomesSteps DEF PipelineInv
    <3>2. TypeOK'
      BY <2>0, <2>3, <3>1, OtherRowsStay DEF TypeOK, OutcomesInv
    <3> QED
      BY <2>0, <2>3, <3>1, <3>2 DEF PipelineInv
  <2>4. CASE /\ part \in {"design", "effort"} /\ DesignNext
             /\ UNCHANGED settingsRows /\ UNCHANGED stageRunRows /\ UNCHANGED outcomeRows
    <3>1. DesignInv'
      BY <2>4, DesignSteps DEF PipelineInv
    <3>2. TypeOK' /\ subtopic' = None
      BY <2>0, <2>4, <3>1, OtherRowsStay DEF TypeOK, DesignInv
    <3> QED
      BY <2>0, <2>4, <3>1, <3>2 DEF PipelineInv
  <2>5. CASE UNCHANGED vars
    <3>1. /\ UNCHANGED settingsVars /\ UNCHANGED stageRunVars /\ UNCHANGED outcomesVars
          /\ UNCHANGED designVars
      BY <2>5 DEF vars, settingsVars, stageRunVars, outcomesVars, designVars
    <3>2. /\ UNCHANGED settingsRows /\ UNCHANGED stageRunRows /\ UNCHANGED outcomeRows
          /\ UNCHANGED designRows /\ UNCHANGED session
      BY <2>5 DEF vars
    <3>3. OutcomesTypeOK' /\ subtopic' = subtopic
      BY <2>0, <3>2 DEF TypeOK, OutcomesTypeOK, outcomeRows, session
    <3>4. TypeOK'
      BY <2>0, <3>2, <3>3, OtherRowsStay DEF TypeOK
    <3> QED
      BY <2>0, <3>1, <3>3, <3>4, SettingsSteps, StageRunsSteps, OutcomesSteps, DesignSteps
         DEF PipelineInv
  <2> QED
    BY <2>1, <2>2, <2>3, <2>4, <2>5 DEF Next, DesignNext
<1>3. PipelineInv => TypeOK
  BY DEF PipelineInv
<1> QED
  BY <1>1, <1>2, <1>3, PTL DEF Spec
=============================================================================
