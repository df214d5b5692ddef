# A verification development of maestronexus

maestronexus is a learning platform. Designers build a course as a graph of
learning nodes, by hand or with AI stages that an expert reviews; learners are
enrolled on a version of that graph and work their way through it. The backend
is a FastAPI service over PostgreSQL: every request is one database session and
one READ COMMITTED transaction, services read and flush, endpoints commit.
Nothing else is shared between requests, and no service takes a lock, so what
is hard about this code is what requests do to one another between a read and
the commit, and what long sequences of legal requests add up to.

The modules here model that: requests as transactions that read in one step and
write in a later one, rows as functions and sets, and PostgreSQL by what the
code relies on (committed reads, row locks of UPDATEs, unique and foreign
keys, rollback). `Session.tla` states the request once; most modules build on it.

## Inventory

Paths are under `src/backend/app/modules/` unless said otherwise.

| Component | State | Operations | What is hard | What makes it right |
|---|---|---|---|---|
| **Enrollment** `enrollment/` | enrollment, one progress row per node (locked, available, completed, mastered), mastery records | enroll (pins a version, creates the rows), complete a node (grade, evaluate mastery, unlock) | concurrent completions of one learner; retries with lower scores; unlocking from rows that others are changing | no node opens early; none stays locked for nothing; completion is kept; a persistent learner finishes |
| **Courses** `courses/` | course status, versions (draft, published), nodes, dependencies, outcomes (CLOs) | CRUD of each, publish, clone a version, create a course from a form or a syllabus | check-then-write of cycles, publication and ends of dependencies; cascades; cloning | acyclic graphs; published versions frozen and not empty; no dangling dependency; archived courses final |
| **Stages** `stages/` | stage runs with artifact and review status | run a stage (upstream artifacts, prompt, model call, parse), approve, reject | approval in any order and again; a model call inside the transaction; latest by creation time | an approval promotes exactly once, into the right place |
| **Promotion** `blueprint/promotion.py` | approved snapshots; writes courses' nodes, rules, dependencies, outcomes, assessments, subtopics, effort maps | one handler per stage, upserts by key | idempotence without constraints; choice of the version; dependencies accumulated over artifacts | one node per key, one current snapshot, no change to published versions, an acyclic graph |
| **Assessment workflow** `blueprint/service.py` | context profiles, node evidence, submissions, evaluations, contributions, mastery credits | submit, review, evaluate, finalize, request revision, verify, award, approve, redeem | life cycles with few guards; counts used as numbers; latest evaluation by creation time | a graded submission stays graded; a credit is redeemed once; a review applies to what was reviewed |
| **Projects** `projects/` | projects, rubrics, submissions, grades, feedback | submit (with a limit), grade (upsert) | check-then-insert of limit and grade | the limit holds; one grade per submission |
| **Content** `content/` | content items with approval, media, questions, attempts | author, approve, edit, upload, attempt | an edit crossing an approval; bytes outside the transaction; questions edited under an attempt | a published version names one text; an uploaded asset has its bytes |
| **Attendance** `attendance/` | sessions, records | mark (upsert) | concurrent upserts | one record per learner and session |
| **Adaptive** `adaptive/` | recommendations, overrides | next node, override | reads the progress rows; an override can name a locked node | what is recommended can be done |
| **AI** `ai/` | interactions, drafts | council of models, tutor, content drafts | none, one or several answers; a stub in place of a failed call | a stub is not passed for a live answer |
| **Integrations** `integrations/` | AI settings of a tenant, one JSON document | merge an update, reset prompts, resolve a stage | read-merge-write of the whole document; a connection test writes what it read before its call | no update is lost, no masked secret stored |
| **IAM** `iam/`, `../core/deps.py` | users, roles, permissions | login, account and role management | the principal is read in three queries; roles change in between | an account is as its administrators left it |
| **Core** `../core/` | sessions, audit log | session per request, audit record in the same transaction | attributes written back from an old read | a failed request leaves nothing |
| Analytics, notifications, seed, migrations, frontend | | read-only, a stub, start-up data, schema, a client | | not modelled |

How they interact: enrollment pins a version of courses and reads its nodes and
dependencies at each completion; stage review calls promotion, which writes
courses' tables directly, past the checks of the courses service; adaptive
reads the progress rows; the assessment workflow, projects and attendance hang
on enrollments; the audit log is written in each transaction. All of it goes
through the database; there are no queues and no background tasks.

The hazards this list leads to are in `PROJECT.json` ("hazards"), each at its
line with the properties that cover it, or a note why none does.

## The modules

### Session: the request

`Session.tla` is what all component modules below share. A request reads and
decides in one step (`Begin`, which records in `req` what it loaded and what it
will write), its writes appear in a later one (the `Commit...` actions), and an
error rolls it back (`Abort...`). `Flush` is the UPDATE that SQLAlchemy emits:
only attributes set to another value than the session loaded are written, so
requests that change different columns of a row do not undo one another.

`crossed` is a history: the rows that two requests in flight have shared.
Much of this code is right only as long as nobody else is at the same row, and
no code takes care that nobody is. The properties say so where they must: a row
in `crossed` is let out, or bounds what can go wrong with it. Where a property
does not mention `crossed` it holds whatever requests do to each other, and all
others are about requests on different rows running freely beside each other.

### Gating, Progress: a learner's way through a course

`Progress.tla` is one enrollment and the `complete node` requests of its
learner (`enrollment/service.py`). `row` is the committed progress rows
(`done` is "completed_at is set"), `record` the mastery records, `req` what
each request in flight has read and not committed, `proven` a history of the
nodes that were ever committed as mastered. A request goes through `Load` (read the row,
refuse a locked node), `Write` (the autoflush UPDATE, which locks the row,
then the record, then the mastery verdict), `Scan` (read all rows, choose what
to unlock) and `Commit`; `Abort` is a rollback. Two details of SQLAlchemy
matter and are kept: a request sees the row of its own node as its session
loaded it, and an attribute set to the value it was loaded with is not written.
Attempt counters, times and confidence are left out: no guard reads them.
Thresholds and scores are natural numbers; the code's floats are only compared.
The model has a progress row for each node of the pinned version; `Enrollment`
says when that is so.

`Gating.tla` is the promise without rows and transactions: sets of open,
finished and proven nodes that only grow, and a step `Finish`. `Progress`
implements it (`ImplementsGating`) under the mapping open = not locked,
finished = done, proven = the history.

### DependencyGraph, CycleSearch, CourseGraph: building the graph

`DependencyGraph.tla` holds what the cycle check means: reachability by closed
sets, `CreatesCycle`, `AcyclicPairs`. `CycleSearch.tla` is the depth-first
search of `_creates_cycle`, one step per turn of its loop. Its stack is a
set, as a second copy of a node is skipped when popped, and any element may be
on top, as the order follows that of the database rows.

`CourseGraph.tla` is one course with its versions, nodes, rules and
dependencies, and designers' requests: a `Begin...` action is everything a
request reads and checks, the action named for the operation is its committed
write. `CreateVersion` reads the nodes at its Begin and the dependencies at
its commit, as `_clone_graph` does. Cascades, foreign keys and unique
constraints appear where the database applies them: as effects and guards of
the commits. Nodes carry a label instead of an id, and a clone keeps the labels;
`born` keeps a deleted label from being used again. Titles, types, positions
and durations are left out; a mastery rule is there or not.

### StageRuns, Promotion, Outcomes, Design: from stages to a course

`StageRuns.tla` runs the stages: the registry as the source has it (with an
assumption TLC evaluates, `RegistryIsOrdered`: a stage takes artifacts of
earlier stages only), upstream artifacts read one by one, then the answer of the model
or the council in one step, chosen among all that `run_council` can make of its members'
answers (nothing is read or written while they are awaited), then the
commit. Members that raise are kept as the code guards against them, although
`ai/client.py` turns the errors of a provider into a stub. A run is known by its `created_at`, the start of the
transaction that waits for the models, so a long run commits after younger ones.
What a model writes is data: an answer is live or a stub, usable or not.

`Promotion.tla` is the review of runs and the handlers of the three stages that
write the graph. An artifact is a set of node keys or of relations between
keys, or None (a failed run, or an answer that was no JSON object).
`RunStage` is one step here; its inside is in `StageRuns`. `BeginApprove` is all an
approval reads and decides, `Approve` its writes; `Additions` is what the
handler adds, with the order of database rows and of the relations in
an artifact left open. A node row is a key, and the reviewer and run it was
inserted by, so two rows with one key differ. `TargetVersion` is
`_ensure_draft_version`. Archiving a course has no effect on review and is left out.

`Outcomes.tla` is the handlers of intake, clo_review and subtopic_architecture:
a table of outcomes in insert order, items matched by code and then by place,
the first wording kept beside the refined one. Courses made from a form or a
syllabus are its initial states. `Design.tla` is the contribution assessment that
five stages and the editor write to: three JSON columns with two authors each; and
the effort maps, unique per version, where NULL is not a version.

### Submission, Readiness, Contribution, Credit: the assessment workflow

One module for each table family of `blueprint/service.py`. Lower-case operators
are the functions of the service and yield the row they leave; actions are the
endpoints. `Submission.tla`: numbers taken from a count, evaluations known by
`created_at`, grades and revisions that act on the latest evaluation.
`Readiness.tla`: the context profile and its review, evidence for nodes mirrored in
their progress rows if they have one, `check_readiness`, while `complete_node` moves the same
rows (`Traverse`: the moves that `Progress` makes of one row, the stale unlock included,
which sets a completed row back to available). `Contribution.tla`: learner and expert writing to
one row. `Credit.tla`: recommended, approved, redeemed.
`MCAssessment` puts them side by side. They keep no rows in common and none asks for
another (`create_submission` does not call `check_readiness`), so the
instance follows one of them at a time, chosen in Init; the same is done in the
next two sections.

### Projects, Attendance, Content, Quizzes, Enrollment, Adaptive, Accounts: a class

- `Projects.tla`: the submission limit and the upserts of rubric, grade and feedback,
  none of which has a unique constraint. Submissions are labels; the label of one
  that was rolled back is used again only when no request in flight names it.
- `Attendance.tla`: marking a session in batches; the records are an upsert in Python.
- `Content.tla`: an item through approval and edits, and media whose bytes go to
  the store before the row commits, or by a presigned URL after it, or never.
- `Quizzes.tla`: attempts graded against questions that authors go on editing.
- `Enrollment.tla`: a class, the enroll request, and the versions of the course, edited,
  published and promoted into under it. The request reads in up to four statements
  (`Enroll`, `ReadLatest`, `ReadNodes`, `ReadLocks`) before `CommitEnroll`; an edit
  checks in one step and writes in another, on what is committed by then. A promotion into
  a pinned version looks at no state. `disturbed` is a history: the versions that two edits
  in flight met on, or that a promotion changed after publication or closed a cycle in,
  and the clones of such; `settled`: the version was published when it was pinned.
- `Adaptive.tla`: the recommendation engine and the teacher's override. The rows change by
  the `complete node` requests of `Progress`, by INSTANCE and with all their steps, so the
  engine reads what a lost or a stale unlock left. `met` is a history: two of
  those requests have been in flight together.
- `Accounts.tla`: status and roles, and the three queries that make a principal.

### Settings: a document everybody writes whole

`Settings.tla` is the JSON document of a tenant's AI settings: saves that merge
(with null as deletion and the masked key coming back), resets of prompts, and the
connection test, whose second transaction writes on top of the document the
first one read, since the session keeps its objects over a commit.

## What the runs check

| Run | Instance | Result |
|---|---|---|
| `serial` | join of two prerequisites and a gate (4 nodes), scores below and at the threshold, one request | NoNodeLeftLocked, EvidenceAgrees, CourseCompletes hold |
| `concurrent` | 3 nodes, a requires and a gate edge into one, two requests | TypeOK, GateSound, ImplementsGating hold |
| `graph_serial` | 3 nodes, 2 dependency types, 1 version, one request | TypeOK, Acyclic, PublishedNodesAreFrozen hold |
| `graph_race` | 2 nodes, 2 versions, two requests | EdgesJoinLiveNodes holds |
| `cycle_search` | every graph on 3 nodes | AnswersRight, Terminates hold |
| `promotion_serial` | 3 runs, 2 versions, overlapping artifacts, one review | TypeOK, OneNodePerKey, SnapshotIsCurrent, NoOppositeEdges, UnpinnedSparesPublished hold |
| `assessment` | each part of the workflow, two requests | TypeOK, NumbersAscend, GradedIsFinal, SubmittedIsFrozen, ApprovedWasRead, MirrorIsLatest, CompletionCounts, ConsentIsTheLearners, SpendingIsBounded hold |
| `coursework` | each part of a class, two requests; enrollment and advice twice, under two bounds | TypeOK, LimitHolds, GradesAgree, RollShowsLast, VersionNamesOneText, UploadedIsStored, PinIsWhole, AdviceLeadsOn, AccessIsAsGranted hold |
| `pipeline` | settings, runs of three stages, outcomes, design, two requests | TypeOK, SettingsAddUp, UpstreamNeverGoesBack, FirstWordingIsKept, PartsSurvive hold |
| `lost_unlock` | as `serial`, two requests | NoNodeLeftLocked fails |
| `promoted_cycle` | 3 keys, one review | PromotedAcyclic fails |
| `override_locked` | the engine and overrides on 3 nodes | NeverRecommendsLocked fails |

Each property is stated in its module with a comment that names the code it is
about. In words, the ones that are not obvious:

- *NumbersAscend*: two submissions may be given one number, never the wrong order.
- *GradedIsFinal*, *SubmittedIsFrozen*: a graded submission shows a final grade
  and what was handed in stays, though `submit_submission` takes anything back
  to "submitted" and evaluation may follow.
- *CompletionCounts*: evidence handed in and nodes completed write to one row; when all
  nodes are completed no request of the assessment workflow takes that back, however it
  interleaved with completions. `complete_node` itself can, by a stale unlock.
- *SpendingIsBounded*: an approval pays once; with requests crossing, at most
  as often as there are requests.
- *LimitHolds*: a limit on submissions is exceeded only by requests in flight together.
- *PinIsWhole*: the enroll request reads version, nodes and dependencies one after
  another, between the commits of designers. Rows are of nodes of the pinned version,
  always; and if it was published when it was pinned there is one for each of its
  nodes and one is open to start with, unless the version is `disturbed`.
- *AdviceLeadsOn*: the engine never names a locked node, whatever requests interleave.
  As long as no two completions of the learner have been in flight together, it says
  "complete" only of a course that is and stays so, and runs out of advice only when the
  course is done or waits for a mastery; a lost unlock breaks the one, a stale one the other.
- *UpstreamNeverGoesBack*: re-running a stage never feeds it an older artifact.
- *FirstWordingIsKept*, *PartsSurvive*: approving runs in any order and again
  keeps the wording an outcome came with, and each author's part of a design.

The failing runs are disagreements between the code and what its documents
say of it; `PROJECT.json` ("findings") quotes the lines.

- *Lost unlock.* Two requests finish the two prerequisites of a node; each
  scans before the other commits; neither unlocks. A later completion of any
  node repairs it, since each one scans all locked nodes, but when that node
  was the only one left nothing forces such a completion. Until then the engine has no
  advice for the learner.
- *Promoted cycle.* A relationship artifact is checked for opposite edges, not
  for cycles. The nodes of such a cycle never open.
- *Override of a locked node.* An override is told to the learner before
  the engine looks at the state of the node, and completing it is refused.

Other limits of the code that show in the models, and that no run is spent on:

- A lower score on a mastered node puts it back to completed and its
  record to in progress (`Write` in `Progress`); what its gate opened stays open.
- An unlock writes "available" over whatever the row is by then (`service.py:496`): two
  requests that both saw a node locked, one of which unlocked it, and a third that
  completed it, leave it available with `completed_at` set (`Commit` in `Progress`).
- `delete_dependency` works on a published version.
- The published version a learner is pinned to can still grow (`docs/04:128` calls it an
  "immutable, published snapshot"): a run pinned to it promotes nodes and dependencies into
  it (`promotion.py:93`), and an edit that saw a draft may commit after the publication.
  Learners enrolled before have no row for a new node, and a node locked for
  them that a new node leads to stays locked.
- Of two dependencies, each fine alone, two requests can make a cycle; publication
  acts on the node count and course status it read. The serial theorems say what
  holds when nobody does.
- Two first approvals of a stage without a version leave two snapshots, as NULLs
  are not equal to a unique constraint, and the next approval raises; effort maps
  are the same.
- Promotion is idempotent ("idempotent", `promotion.py:8`) only for an artifact of
  clo_review whose items have different codes, of their own or by their places, and
  which leaves no gap in the positions of the outcomes: otherwise approving it once more
  changes a wording back or inserts an outcome again (the premises of `FirstWordingIsKept`;
  TLC finds the counterexample without either). And an item may claim an original wording.
- A connection test loses what was saved during its call to the provider.
- The newest succeeded run feeds the next stage whether or not it was approved.
- Quiz scores are not recomputed when a question changes.

### Bounds

- *Requests in flight*: two wherever interleaving is the question. Each property
  of these runs relates what one request read to what one other
  committed since, and the theorems below hold for any number.
- *Objects*: two of each kind (submissions, learners, credits, roles, questions), so that
  one can be confused with another. The parts of the last three passing runs are independent,
  so following one at a time loses nothing and keeps each instance exhaustive.
- *Parts followed twice* in `coursework`, as the product of both would not end in time:
  `enrollment` (two versions, so a clone and a choice of the pin, any edit beside an
  enroll request) and `editing` (one version, any two requests, so edits that meet);
  `adaptive` (overrides, no two completions together) and `completing` (completions that
  meet, no override). A score is only reported for the node with a rule (`Scored`):
  elsewhere it decides nothing but which attempts count as weak. The theorems need none of this.
- *Nodes*: three is the least on which a cycle is not a pair of opposite
  edges (`MutantTwoCyclesOnly` survives on two), and on which a node joins two
  prerequisites of different kinds; `serial` takes four, for a gate behind
  a join. `Adaptive` takes a gate and a remedial node beside it.
- *Versions*: two where publication and cloning matter, so that there is a
  published one and a newer draft (`MaxVersion`, `MaxEdition`). Three stage runs in
  `promotion_serial` (`RunIds`): one that creates, one that supersedes, one of another
  stage. Four in `pipeline` (`MaxRuns`): two of a stage around two of an input.
- *Histories that grow*: `MaxEvaluations` 2 (an evaluation and the one that
  replaces it), `MaxApprovals` 2 of a credit and 4 of outcome stages (two artifacts, each
  approved again), `MaxOutcomes` 3, `MaxItemVersion` 3 (published, edited,
  published), `MaxOverrides` 2.
- *Scores*: 0 and 1 with threshold 1, below the bar and at it.
- *Symmetry* is declared over labels, editors, run ids, requests and other ids where
  the run checks no liveness and the instance treats them alike. In `assessment` and
  `coursework` the ids of different parts share their model values, so that one small
  group serves all parts.
- Deadlock is checked for `Progress`, where a request can always start. It is
  off for `CourseGraph` (an archived course accepts nothing), `CycleSearch`
  (it returns), and the modules whose counters are bounded.

### Fairness

`Progress!FairSpec` assumes that a request the server has accepted takes its
steps (weak fairness: each is a statement the event loop gets to), that rollbacks stop
at some point, and that the learner keeps taking up each node that is
repeatedly available (strong fairness on `TakeUp`). The last is an assumption
about the learner, and what `CourseCompletes` says is relative to it; it asks for no score.
`CycleSearch!SearchFairSpec` is weak fairness of a loop without an await. No other
run assumes any: the other components react to people, and nothing in the code makes
anyone act.

## What is proved

The proofs are in the `_proofs` modules, but for the lemmas in `DependencyGraph`
and `Session`, which stand beside the definitions they are about. They hold for
every value of the constants under the assumptions the modules name.

- **`Progress_proofs`**: `TypeCorrect`, `GatesHold`, `Refinement`, for every
  graph and any number of requests. GateSound is not inductive: a commit opens
  nodes from what its request saw earlier. The invariant `IInv` adds that each
  open row is backed (`RowsBacked`), and for each request in flight that its
  node is open, that its verdict is justified by its score, by the absence of
  a rule or by a mastery committed before (`WriteBacked`), and that the
  nodes it will unlock have their prerequisites among committed completions and
  masteries or its own (`UnlockBacked`). It survives the other requests since
  `done` and `proven` only grow. `CommitIsFinish` is the step of the
  refinement; all other steps are stutters.
  With one request at a time (`OneAtATime`), `NoNodeLeftLockedSerial` and
  `EvidenceAgreesSerial`: `SerialInv` adds that what the request has read is
  what is committed (`UpToDate`) and that with its unlocks no node is left
  locked though its prerequisites are met (`NoneLeft`), exactly what the second
  request of `lost_unlock` breaks.
- **`DependencyGraph`**: reachability facts, and `CheckedPairAcyclic`:
  the cycle check keeps an acyclic graph acyclic. For any set of nodes; the
  argument is on closed sets, so no induction is needed.
- **`CourseGraph_proofs`**: for any number of requests, `TypeCorrect` and
  `EdgesJoin` (the invariant adds that requests in flight name versions that
  exist). With `OneAtATime` assumed, `AcyclicSerial`,
  `PublishedIsNotEmptySerial`, `PublishedNodesAreFrozenSerial` and
  `ArchivedIsFinalSerial`: the invariant adds `Fresh`, that what the one
  request in flight has checked is still true when it commits, which is
  exactly what a second request breaks. Two of these are not checked by a
  run: the theorem says more.
  `SearchIsRight` is about the search. The invariant is that everything on
  the stack or seen is reachable from the target, and that successors of
  what was seen are on the stack or seen (`Frontier`); with the stack empty
  `seen` is closed and separates the target from the source.
- **`Session`**: the lemmas of `crossed`. On a row that is not in it at most one
  request is in flight (`BeginKeepsAlone`, `EndKeepsAlone`), so a commit to it
  leaves alone what any other request has loaded (`OthersCrossed`); and
  what a flush leaves in a column (`FlushColumn`).
- **`Assessment_proofs`** (submissions, readiness, contributions, credits): for
  any number of requests, the properties of `assessment` that name `crossed`, and
  `NumbersNeverGoBack` and `EvidenceUndoesNoCompletion`, which do not. The
  invariants say that a row that is not crossed still is as the one request on it
  loaded it (`Fresh`), and what a request of each kind will write. For the
  numbers: the count a request took is the count of the rows it read, all of which
  have lower numbers and stay. For completion: no request in flight writes
  the traversal state, so a flush leaves the column alone. For
  `ApprovalsBoundSpending` the invariant counts the redemptions still to come
  (`Left`): while a credit reads approved any request may begin one, and once it
  reads redeemed only those begun before can follow. `TypeCorrect` puts the four
  side by side as the run does; for readiness it takes an invariant of its own
  (`ReadinessRows`), as the rows are well formed on crossed rows too.
- **`Coursework_proofs`** (projects, attendance, content, enrollment, the next
  node, accounts, quizzes): all properties of `coursework`, for any number of requests.
  `SubmissionsAreLimited` counts the submissions there are with those requests in
  flight have still to insert (`Room`): another one fits only if the request read fewer than
  the limit, and past the limit only beside one it has crossed with. Limits change,
  so it takes the largest of those the project had.
  `GradesStayOne` rests on one grade a submission and one comment a grade where
  nobody crossed (`OneEach`), and on what a request that grades found being
  all there is (`ProjectFresh`).
  `RollIsTheLast` relates the records to the history of marks, learner by learner
  (`OneRecord`), and to the last mark of a batch.
  `ApprovedTextIsKept` needs that no text is on record under a number above the item's,
  and under its own only the one it has while approved (`Told`).
  `BytesAreThere` is inductive with what a request says of bytes it has put in the store.
  `PinStaysWhole` rests on the graph of every edition that is not disturbed (`GraphsOK`): its
  locks close no cycle, so it has a node that waits for none (`SourceExists`: one with a
  least set of ancestors), and the one edit in flight on it has checked what is still so
  (`EditsOK`). An enroll request that found it published has read all its nodes and,
  after its third statement, a node without a lock among them (`EnrollsOK`).
  `AdviceIsSound` relates a completion that met no other to the rows (`UpToDate`): its
  view is what is committed, so after it whatever could be unlocked has been (`NoneWaits`),
  and a course that has nothing to offer waits for a mastery. That a row once open is
  never locked again needs no such condition.
  `AccessIsGranted` relates each request in flight to the account, role by role
  (`AccountFresh`). `ScoresAreFractions` is about grading with whatever questions there
  are. `TypeCorrect` puts all of it side by side as the run does.
- **`Pipeline_proofs`**: `SettingsAreKept` (what a stage resolves from the document is what
  was said, and unless requests crossed each will write the document there is with its own
  change), `MasksAreNotKept`; `RunsAreWellFounded` and `UpstreamOnlyAdvances`
  (what a run has gathered succeeded before it, runs stay, and the newest of a growing
  set only moves up); `PartsAreKept`. All for any number of requests.
  `FirstWordingStays` is about the outcomes, for every artifact. The handlers fold over the
  items of an artifact; the community modules define a fold by one function on all sets of
  places, so that function is shown to exist (`FoldExists`, counting up to the
  number of items with `UpTo`) and the fold is then read as a chain of tables, an item at
  a time (`Applies`, `IntakeExtends`). Along the chain rows stay in place with their codes,
  positions and first wordings (`ChainGrows`). The invariant `OutcomesInv` says of a request in
  flight that what it will write has grown so from what it read, and, while it is alone, that
  what it read is what there is and that its artifact is `Settled` on what it writes: applied
  once more it changes nothing. That has two halves. Every item finds on the second pass
  the row it found or made on the first (`PlacesKept`), for which the codes
  must differ and the positions be whole. And of each row, refining it again by the
  same items in the same order leaves what they have left it at (`RefinedTwice`): the
  statement is the last one given, the original is set by the first pass and kept.
  `OutcomesWellFormed`, and `TypeCorrect` for all parts of `pipeline` together.
- **`Promotion_proofs`**: `TypeCorrect` for any number of reviews in flight: the
  rules and edges a review is going to add were chosen among rows of a version,
  and no step takes rows back (`Kept`), so they still fit. With one review at a
  time (`OneAtATime`) `OneNodePerKeySerial`, `SnapshotIsCurrentSerial`,
  `NoOppositeEdgesSerial` and `UnpinnedSparesPublishedSerial`: the invariant adds
  `Fresh`, that the keys of the new rows are still new, the new edges
  still meet no reverse, the snapshot found is still the one there is, and the
  version chosen for a run without one is still not published. For the edges it takes
  one row per key: a row hidden by another of its key hides its edges from
  the search for a reverse.

Assumptions these rest on, beside those that say what the constants are:

- None is no row (`ContentRowAssumption`, `AccountRowAssumption`,
  `DocumentAssumption`, `OutcomeRowAssumption` and their like): NULL is never a value
  of the code's tables. TLC evaluates them on every run.
- `AdviceIsSound` supposes a graph in which no nodes wait for each other in a circle
  (`Grounded`). The cycle check of the graph's editor sees to that
  (`AcyclicSerial`), but publishing does not look again, and both a race of two editors
  and the promotion of a relationship artifact (`promoted_cycle`) get past it. On such a
  graph the property is false, and the code has no answer for it.
- The theorems named `...Serial` suppose one request at a time in the place they are about.

Only model-checked: the two liveness properties, `CourseCompletes` and `Terminates`, as
fairness and ENABLED are beyond the prover. Every other property of the passing runs is
the subject of a theorem; those of `serial`, `graph_serial` and `promotion_serial`, but
for the types, with one request at a time, as in these runs. Nothing here is defined by recursion, as
recursive operators are out of the prover's reach.

## Not modelled

- *Analytics* and the lists and overviews of all components only read.
  *Notifications* is a stub that nothing writes to. *Seed*, *configuration* and
  *migrations* run before there are requests; the constraints of the schema are in the
  modules. The *frontend* keeps nothing the backend relies on.
- *Tutor, drafts, prompts, parsing, retrieval and risk scores* are text processing: their
  result is an artifact or none.
- *approve_assessment* and the approval of a draft set a status that no code reads.
- *Counters* of attempts and time in a progress row: two requests can lose an
  increment, and nothing depends on it.
- *Creating a course* from a form or a syllabus is one insert of what it was
  given; it appears as initial states of `Outcomes`.
- *Tokens and password hashes* are library code and change no state.
- The *audit log* is written in the transaction it records and read by none of
  the modelled code.

## Plan

Done: learning (Progress, Enrollment, Adaptive), the graph and its editing, the
stages and every handler of promotion, the assessment workflow, coursework, settings
and accounts; proofs for every component, of every safety property and action
property the passing runs check.

Left: one module of `Progress` over an `Enrollment` whose dependencies are deleted, and
whose version is promoted into, meanwhile. It would say what a learner can still count
on in a published version.
