# BizGuard: specifications, model checks and proofs

BizGuard checks code changes for coding agents, developers and CI.  An agent
asks the MCP server for the business context of a task, submits a diff, and gets
one of four decisions: `BLOCK`, `REQUIRE_APPROVAL`, `ALLOW_WITH_TESTS` or
`ALLOW`.  Approvals are requested from people through the same server and kept
in a database; CI evaluates the change again in a process of its own.

This directory holds TLA+ modules of the parts of BizGuard whose correctness
depends on orders of events, the TLC runs that check them on small instances,
and TLAPS proofs for every instance.  `PROJECT.json` maps definitions to source
lines and lists runs, findings, hazards and theorems.

## 1. Inventory

| Component | State it keeps | Operations | Talks to | Hard about it | Correct if |
|---|---|---|---|---|---|
| Approval workflow (`workflow/approval.py`, `state_machine.py`) | request objects in callers' hands; a dict when there is no store | create, delegate, add/request evidence, approve, reject, grant waiver, expire or escalate | approval store | several processes, stale objects, lost answers, restarts | granted exactly when the quorum signed; nothing committed is taken back; audit explains records |
| Approval store (`workflow/store.py`) | tables `approvals`, `audit` (SQLite or PostgreSQL) | `mutate`, `get`, `get_by_context` | workflow, evaluator, server | read-modify-write by several processes; which row is "the" request | record and events together or neither |
| MCP server (`agents_mcp/server.py`) | process-wide stores, compiler, evaluators, knowledge index | 9 tools, 5 resources | everything below | a read and a commit in two transactions; lazily created shared state | an approval counts for the change it was given for |
| Decision (`decision/v2.py`, `risk/engine.py`) | none | `decide`, `score` | evaluator | the order of the conditions is the specification | no finding masks another; approvals answer requests only |
| Change evaluator (`change/evaluator.py`) | cached graphs | `evaluate` | validators, graph, store, decide | decides twice, around a lookup of shared state | bound to the present diff, sources, policy and owners |
| Context compiler (`context/*`, `change/store.py`) | cache per process, table of packs | `compile`, `put`, `get` | graph, knowledge, store | cache and store, check and insert, IDs that omit an input | IDs immutable; answered packs can be looked up |
| Source indexes (`graph/indexer.py`, `knowledge/ingest.py`, caches in compiler, evaluator, server) | index and its label, under a lock | digest, rebuild | files that are edited meanwhile | digest, sources and label are read at different times | a quiet call sees the files as they are |
| Policy governance (`policy/lifecycle.py`, `calibration.py`, `governance_gate.py`) | registry file, signed bundles | promote, rollback, verify | CI of the governance repository | evidence used again, chains of allowed changes | no promotion without evidence for it |
| CI (`ci/check.py`, `ci/runner.py`) | none | evaluate, run tests, evaluate | evaluator, store | everything may change between its evaluations | exit 0 only if the final evaluation allows |
| Migrations (`database.py`) | version table, schema | `migrate` | PostgreSQL | concurrent instances, failures halfway | each migration once, in order, unchanged |
| Impact analysis (`impact/*`, `eval/impact.py`) | none | resolve a diff, search, infer the capability | graph, catalog, evaluator | cycles, two-phase reachability, gaps of the graph | ends; every reachable terminal with a shortest path; no route is a question, not an answer |
| Diffs (`diff_parser.py`, `diff_reconstruct.py`) | none | parse, apply, reverse | evaluator | off-by-ones, either side on disk, line ends | fails closed; what is rebuilt is the described change of the file |
| Validators and invariants (`policy/validators.py`, `invariants.py`, `decision/legacy.py`) | none | validate an artifact, a method; load the governance | evaluator | nesting, comments, strings, what is compared with what | what loses a published field or unguards a method is held as its policy asks, nothing else is blocked |
| Knowledge, search, connectors, embeddings, catalog, analyzers, CLI, settings, hooks, benchmarks, scripts | none shared across calls | pure functions and I/O | | mostly wording and formats | |

Interaction in one line: `prepare_change` compiles and stores a pack over the
indexes; `get_change_decision` evaluates a diff against that pack, decides, looks
for an approval of the decision's fingerprint, decides again; `request_approval`
creates or advances the record that lookup will find; CI does the same
evaluation without the pack but with test results.

## 2. Modules

| Module | Models | Remarks |
|---|---|---|
| `ApprovalRecord` | one approval record, the transition table | pure; guards `Can...`, results `Signed`, `Approved`, ... |
| `ApprovalService` | `ApprovalService` over a shared store, several processes | one action per operation; `Mutate` is the transaction, `Return` the refresh of the caller's object |
| `CosignLedger` | what the workflow promises: ballots | abstract; `ApprovalService` implements it under `Phase` |
| `Decision` | `decide`, `score`, `_approvers` | pure |
| `DecisionTable` | how an evaluation builds the input of `decide` | extends `Decision` |
| `ApprovalDesk` | evaluator + `request_approval` + records + edits | composes `ApprovalRecord` and `Decision` |
| `UnifiedDiff` | `parse_unified`, `reconstruct_file` | pure |
| `ArtifactValidators` | `validate_artifact` | pure; extends `UnifiedDiff` |
| `PolicyInvariants` | `load_invariants`, `validate_invariant`, `evaluate_parsed` | pure; extends `ArtifactValidators` |
| `ChangeEvaluation` | `ChangeEvaluator._evaluate` on a moving tree | composes the three above and `Decision` |
| `ImpactGraph` | `index`: what the graph is made of | pure |
| `ImpactAnalysis` | resolving a diff, the search, the finding | composes `ImpactGraph` and `Decision` |
| `PolicyLadder` | what `PolicyLifecycle` promises | abstract; `PolicyGovernance` implements it |
| `PolicyGovernance` | registry, signed evidence, the gate of the registry | |
| `SchemaMigration` | `migrate` by several instances | |
| `ApprovalStorage` | the statements of the approval database, its log, its readers | extends `SchemaMigration` |
| `GateRun` | `run_gate` and `check.main` among other processes | composes `ApprovalStorage`, `SchemaMigration` and `Decision` |
| `WriteOnce` | what `ContextStore` promises | abstract |
| `ContextPacks` | `compile`, cache, both stores, several processes | implements `WriteOnce` with PostgreSQL |
| `SourceIndex` | the index protocol, for the graph and for the knowledge base | `kind` selects where the label comes from |
| `MC...` | instances for TLC | |
| `...Proofs` | theorems and proofs | |

Definitions named "A faulty version: ..." are not used by the specifications;
each is a plausible mistake in the code that shows that a property can fail.

### Approval workflow

`records[k]` is the row of `approvals` with key `k` (decision fingerprint and
approver set, within one context and policy revision), `audit` counts the rows
of `audit` by action, `handle[s][k]` is the `ApprovalRequest` object process `s`
holds, `reply[s]` the committed payload on its way back to it.  An operation of
the code is a guard (`transition` and the other checks; when they raise, the
transaction is rolled back and nothing changes) and `Mutate`, which writes the
record that was *re-read in the transaction*, with its events.  `Return`,
`LoseAnswer` and `Restart` are what may follow a commit.  `mutate` is atomic
here; `ApprovalStorage` shows why it may be taken for that.

Abstracted: evidence references are counted; waivers are present or not;
timestamps are left out (a deadline is past or not); the in-process `AuditTrail`
is left out, as the server makes a new service object per call.

### Approval desk

`content` is the change under review, with the findings and owners its
evaluation collects; `Edit` replaces it at any time.  `Fingerprint(ch, c)`
is `_decision_fingerprint`, as the record of what is hashed.  `Create` is
`request_approval` with action "create"; the other actions of the tool are
`ReadRequest` (the read and the comparison of fingerprints) followed by a
`Commit` in another step.  `latest` is the row `get_by_context` returns.
`Satisfied`, `FirstDecision` and `FinalDecision` are the evaluator's lookup and
its two decides.  CI differs in what it knows: no prepared context, but the
results of the tests it ran, which are taken to pass.  `Prepared` is what the
prepared context adds to the tests and approvers of the agent's channel.

Assumed: the clocks of the processes agree, so `updated_at` orders commits;
hashes are injective; CI gets the same base revisions as the agent's channel;
`CONTEXT_DRIFT` is covered by the stale-context finding, which has the same
effect; `CONTEXT_EXPANDED` decides nothing.  An unparsable diff, which the
evaluator never releases, is in `ChangeEvaluation`.

### Change evaluation

`tree` is the working tree, `MoveTree` whoever applies the diff, takes it back
or edits the file.  An evaluation is `Begin` (the digest of the tree, and the
parser), `Digest` (`_change_content_digests`, the first reconstruction),
`Validate` (the second one, the validators and the Python pipeline) and
`Conclude`; the tree may move between any two of them.  An unparsable diff goes
to `Refuse` (`_conservative`).  `verdicts` keeps what evaluations said.

A diff is its lines, told apart by what they start with.  A line of a file
stands for its lexemes (`Lexemes`): tokenising a text is abstracted, what the
validators make of the tokens is not.  The fold `ProtoFields` is `parse_scope`
with its stack of messages, `SqlStatements` the scanner of SQL with its modes
and its depth, `Keeps` what `validate_invariant` looks for in a method.  The
properties do not use these: `ProtoPublished`, `Bare` and `Guarded` say by the
*places* of lexemes which fields a file publishes, which write is outside a
transaction, which protected call has no check before it.  `LossIsHeld`
compares the two through the whole evaluation.

`Registry` has the severity, mode, owner and tests of each policy, and a finding
takes them from it, as in the code: a loss under a critical policy that blocks is
a `BLOCK`, one in mode warning is a matter of a person, and one under a policy
that observes, or blocks without being critical, decides nothing by itself.  The
policies of the run are of all these kinds.  The findings on protected methods are
critical, and block unless the registry has a policy of their name.

The graph is part of an evaluation as `Analysed`, a parameter: what the impact
analysis reports of the diff in the graph of a tree, which `ImpactAnalysis`
computes.  `ImpactBoundary` makes the finding, the tests and the owners of it, and
`Conclude` takes the graph from the tree as it is by then, as the code does.  So
the findings on the file are the same on either side of the diff, and the
decision need not be.

`Determined` and `ReadAsMeant` are about a change alone, its two trees and its
diff, and not about evaluations.  The first says that the diff can be found in
both trees and is not mistaken for the other direction (`Foreign`: the side that
`TakenForNew` decides against lacks one of the hunks); the second that the folds
of the validators find in the two texts what the places of lexemes say.  The
theorems of section 4 take them as conditions; `ChangesAreDetermined`, an
assumption of `MCChangeEvaluation` that TLC evaluates, is that all changes of the
run that parse and that nobody edits by hand meet them, except the two kinds that
section 3 lists as findings.

The loop of `_apply_hunks` is the recursive function `Applied`, one hunk after the
other, with the cursor in the old lines and the output so far.  `IsPatch` does not
use it: it says that there are places for the hunks on both sides with the same
lines around them.  `IsToldPatch` adds that these places can be found: each is
where the header says, or the only one left for the hunk.  `ChangesAssumption` gives diffs and trees their types: any
sequence of diff lines, any files, whether they belong together or not.

Abstracted or assumed: changes of one file; methods are straight lines of calls;
digests are the digested part of the tree; `_PROJECT_ROOT`, under which the
Python pipeline rebuilds files, is the root of the request; a policy governs files
of the formats its validator is for (`EvaluationAssumption`; on others the
validator raises); the tests of a policy are in the catalog; no invariant is named
as the stale-context finding; a schema is what marks an OpenAPI file.  The
approval is in `ApprovalDesk`, and so are the requirements of a prepared context.

### Impact analysis

`sources` is what was indexed and `graph` what `index` makes of it: declarations,
columns of entities, resolved calls, manual edges, and the capabilities of the
catalog.  `Resolve` is `changed_id_from_diff_text` and the early returns after
it, `Visit` one turn of the loop of `_shortest_terminal_paths`, `Report` the
report and the finding made of it.  The code takes a node's edges in the order of
their ids.  That order is left open: `queue` is a sequence of batches, each the
set of entries one node led to, and `Visit` takes any entry of the first batch.
What holds of it holds of the code's order.

### Policy governance

`registry` is the merged registry file.  A change of it is `Change` when it
promotes nothing and `Promote` when it brings a bundle; guards are those of
`verify_registry_change` and `verify_bundle`.  A bundle is put together from any
of the records signed so far, since each is signed by itself and stays valid;
`basis` remembers what each promotion rested on.  A file in the old format
without patterns cannot be the base of a promotion (`legacy`).  The checks of a
policy read no other policy, so one at a time changes, and the refinement to the
ladder is checked for each.

Assumed: a bundle is filed under the policy it is about (`Misfiled = FALSE`, see
below); signatures cannot be made by others; the merged registry is what the next
change is compared with.

### Database, migrations and the gate

`ApprovalStorage` takes `mutate` apart: `Begin` (`BEGIN IMMEDIATE`, or the
advisory lock, and the row), `Update`, `Log`, `Commit` or `Rollback`.  `main` is
the database file, `wal` the same with what the write-ahead log adds.  `Look`,
`OpenReadOnly` and `ReadView` are the two looks for the log and the read of an
evaluation that has not opened the store (`_read_approval`), which opens the file
as immutable: a read that overlaps writes may see old pages or new ones, or
raise.  The record is the list of operations that made it, each with the change
it approved.

`SchemaMigration` is `migrate`: `ReadApplied` takes the lock and reads what is
applied, `ApplyNext` stages one file, `CommitMigration` ends the transaction.
Instances run the migrations of different releases.  `ReleaseAssumption`: the
files of a directory have different names, and of two valid releases one adds
files after those of the other, or they differ in a file of the same name, which
the checksum tells.  (Two releases that each add another file under another name
would both be applied; nothing in the code compares the names.)  On SQLite there
are no migrations.

`GateRun` puts a gate process between them: it opens the store, evaluates,
runs the required tests one by one, evaluates again with their results, closes,
exits.  `World` is everything else.  One evaluation is one step here; the steps
inside it are `ChangeEvaluation`'s.  Nobody takes the approved record away
between the read of an evaluation and its end.  The gate has a store.

### Context Packs and indexes

A pack stands for its payload.  Two packs of one ID are the two token budgets
that the ID does not contain.  SQLite's `put` is two steps because its lock is
that of the process; PostgreSQL's is one transaction.  The digests in the ID
and in the cache key stand for the sources, so an edit leads to another pack.

In `SourceIndex` a file is a version number, and a pass over the files reads
them one by one: `Digest`, then under the lock `Build`, and for the graph a
third pass, `LabelGraph`.  `quiet` remembers that no file changed since the call
began.  `_knowledge` of the server takes its signature inside the lock; its
behaviours are among those modelled.

## 3. Runs

Each run finishes within three minutes on two cores.

| Run | Shows | Bounds, and why they are enough |
|---|---|---|
| `approval_services` | `TypeOK`, `QuorumExact`, `AuditMatchesRecords`, `HandlesAreHistory`, `ImplementsLedger`, `RecordsOnlyAdvance` | two processes make an object stale; two approvers and an outsider give every kind of delegation; four events complete a quorum of two, or a quorum of one after a delegation (a quorum of two after a delegation takes five, which the theorem covers); symmetric in processes and approvers |
| `decision_table` | `TypeOK`, `RiskNeverDecides`, `ApprovalOnlyAnswers`, `FindingsNeverRelax`, `ShadowOnlyObserves` | three findings: two that may mask each other and one more; every mode, violated or not, public, unknown |
| `desk_release` | `TypeOK`, `ReleaseVouched`, `GateHonoursDesk`, `ReleaseKept` | a change whose context goes stale, prepared with one approver more than CI finds, and one with two owners, of whom the prepared one is; two requests, two people, waivers that are granted and lapse |
| `packs_stores` | `TypeOK`, `PutConfirms`, `StoreImmutable`, `KeepsPromise` | either back end; two processes, two packs of one ID and a third |
| `index_cache` | `TypeOK`, `CurrentWhenQuiet`, `LockReleased` | either index; two callers, two files, three versions: a call, an edit while it builds, and another; fair |
| `policy_registry` | `TypeOK`, `EnforcedIsApproved`, `BlockingIsPrecise`, `RollbackAlwaysOpen`, `KeepsLadder` | one policy, two owners, two precisions; two times, so that a window may begin after a record; five records are the two approvals and the drill that blocking takes and two observations; the gates' numbers are scaled to two samples |
| `change_evaluation` | `RebuiltIsPatch`, `SideDoesNotMatter`, `LossIsHeld` | every edit script of three lines, with one line of context, so that hunks are apart; drifted, renamed, added, deleted, damaged and hand-edited files; every edit of one line of a longer file of each format; every migration of three lines; policies that observe, warn, block, and block without being critical; an impact that is found on one side of the diff only; two evaluations, so that one may follow a move |
| `impact_search` | `TypeOK`, `RoutesAreShortest`, `PersistedIsBusiness`, `DeadEndIsAsked`, `Answers` | two services, each tie between them and to the business present or not; cycles through shared contracts, topics and owners |
| `gate_storage` | `SchemaAsShipped`, `AuditIsRecord`, `ViewIsCommitted`, `GateProves`, `GateEnds` | two servers and a gate, either back end; four releases, one with a changed file, one malformed; two operations: one that approves and one that supersedes it; three changes, one with a test that hangs |

`KeepsPromise`, `ImplementsLedger` and `KeepsLadder` are refinements: the
abstract specification is the property.

The runs that end in a violation each check one sentence the repository says of
itself:

| Run | The sentence | What happens |
|---|---|---|
| `desk_advice` | the decision is translated into an explicit follow-up (`evaluator.py:685`) | one signature closes a request that needs two |
| `diff_newline` | digests are independent of the state of the worktree (`evaluator.py:571`) | the rebuilt side gets the line end of the other one |
| `guard_argument` | the key is checked first (`policy/invariants.yaml:4`) | a check of another argument before the ledger is taken for it |

Observed in the models and left as the code has it:

* A prepared context may ask for more approvers or tests than CI finds itself.
  The evaluator adds them (`evaluator.py:167-179`), CI evaluates without them
  (`check.py:34`), so the fingerprints differ and CI sends for approval again what
  the agent's channel released.  `GateHonoursDesk` says that this happens exactly
  then, if CI asks for an approval at all.
* The impact of a change is looked up in the graph of the tree as it is
  (`evaluator.py:160-165`, 521-531).  Once the diff is applied, a symbol it removes
  is not there any more (`impact/service.py:115-116`), and the tests, the owners,
  the decision and the fingerprint may be others than before.  `SideDoesNotMatter`
  is therefore about the digests and the findings on the file; changes of the run
  do get one decision before they are applied and another one after.
* A loss under a policy that blocks and is not critical, or that is in draft or
  shadow, decides nothing by itself, and a file that only such observing policies
  govern, or none, may pass without having been rebuilt.  `LossIsHeld` says what
  each kind of policy gets.
* `PutConfirms` is PostgreSQL's.  Over SQLite two processes may both check and
  then both insert; the put that lost returns all the same.
* A pack is cached before `put` may raise (`compiler.py:196`); the next call is
  answered with a pack that was never persisted (`server.py:366`: "Compile and
  persist").
* The graph is labelled with a digest taken after the sources were read
  (`indexer.py:43-77`): an edit in between leaves the old graph under the new
  label, although changed content is expected to be indexed again
  (`test_context_compiler.py:127`).  Hence `CurrentWhenQuiet` is the knowledge
  index's.
* `CurrentWhenQuiet` needs files that do not return to an earlier text
  (`Reverts = FALSE`).  An edit that is undone while the index is built leaves the
  text in between under the label of the text that is back.
* `verify_registry_change` looks a bundle up by the policy's name and does not
  compare the policy the bundle is about (`governance_gate.py:51-62`).  With
  `Misfiled = TRUE`, `EnforcedIsApproved` fails: a policy is promoted on another
  one's evidence.
* A bundle is not used up.  After a rollback it promotes again, as long as owner
  and definition are what they were.
* Two approvers may delegate to the same person, who can sign one slot only, so
  a request may become one that cannot be granted (`approval.py:152`, 180).
* `create` with a stored key answers with that request, which need not be the
  latest row that `approve` will find (`approval.py:97`).
* A violated policy in warning mode with missing tests, and a public contract
  with missing tests, are `ALLOW_WITH_TESTS` (`decision/v2.py:95`;
  `CONTRIBUTING.md:26` lists public contracts under `REQUIRE_APPROVAL`).
* A log that a crashed writer leaves behind hides every approval from evaluations
  that have not opened the store, until somebody opens it for writing and closes
  it (`server.py:211`).
* Files with repeated lines may be rebuilt at another place than the one that was
  edited, hunks without context likewise (`Repeats = FALSE`).  A diff that adds a
  file over one that exists with another text is accepted.
* What stands before the first `diff --git` line of a diff is skipped, although
  the docstring of `parse_unified` has every file carry one.
* A protected Python file that is renamed away is a matter of a person; renamed
  onto another registered source it passes without findings.
* The first class and the first method of a name are checked; Python uses the
  last.
* The test evidence of the gate carries the base revision, not the content.
* A change is resolved to a node of the graph by its first file; new files give
  no impact finding.  Edges are followed both ways, so services of one owner
  reach each other's business.

Deadlock is checked in every run but `impact_search`, whose one analysis ends.

Fairness: `LockReleased`, `Answers` and `GateEnds` need some.  `FairSpec` of
`SourceIndex` lets a call that can go on do so (weak fairness per caller): the
threads of the server are scheduled by the operating system.  Whether a call
succeeds, when calls come and what is edited is left open.  `FairSpec` of
`ImpactAnalysis` runs the one thread of an analysis.  `Spec` of `GateRun` runs the
gate's process: its tests have a time limit (`runner.py:70`), and reading the
database waits for no writer; nothing is assumed of servers, developers and
approvers.

## 4. Proofs

All for any values of the constants that satisfy the named assumptions.

* `ApprovalServiceProofs`.  `TypeCorrect`; `QuorumIsExact`, whose invariant is
  `QuorumExact` with the types: approve either completes the quorum and moves the
  record, or neither, and no other operation signs.  `NoLostUpdate`: each
  operation of `ApprovalRecord` is shown to lead to a successor (`Precedes`);
  `HandlesTellThePast`: adds that answers under way precede the stored record,
  and transitivity of `Precedes`.  `ServiceImplementsLedger`: every commit is a
  ballot step or a stutter; needs `QuorumExact`, since only then a signature
  after the quorum is impossible.  `AuditExplainsRecords` compares cardinalities of
  sets of keys: only finitely many records are stored (`AuditInv`),
  `SetsOfCommit` says how one commit moves a key between the sets, and
  `AuditOfOperation` that the events of the operation are the same moves.
* `EvaluationProofs`, of `ChangeEvaluation` and `DecisionTable`.  `RebuiltAsDescribed`:
  what `reconstruct_file` returns is a change the hunks describe, for every diff,
  tree and moment of reading, and not only for the small files of the run.  The
  recursive functions of the parser and of `Applied` exist and keep their types
  (`RunExists`, `RunIsTyped`), so a diff is parsed into hunks of lines
  (`FilesAreTyped`).  A turn of `_apply_hunks` copies the lines up to a place at or
  after the cursor where the hunk is found, and adds the hunk's new lines
  (`TurnAdds`); no later turn changes them (`OutputStays`).  Hence the cursors and
  the lengths of the output are the places that `IsPatch` asks for
  (`AppliedIsDescribed`), and `IsPatch` reads the same backwards for a diff that is
  taken back (`DescribesBack`).  The invariant, `EvaluationHolds`, ties what
  `Validate` read to what it rebuilt from it until the verdict.
  `VerdictOfTheChange`: for a `Determined` change the digest and the findings on
  the file do not depend on when the tree was read.  If the hunks are told (`Told`),
  `Locate` answers with their places, and with no others (`LocatedAsTold`), so
  `_apply_hunks` makes the one side of the other (`AppliedAsTold`), and fails where
  a hunk is nowhere (`ForeignFails`).  With the lines at the end (`EndFits`, `SameText`) and
  `LineDelta`, `reconstruct_file` returns the same two texts from either tree
  (`ReconstructIsDetermined`, by the four operations), and the digests are those
  of the two trees (`DigestsAreDetermined`), so that a context is never taken for
  stale because the diff is applied.  The invariant `VerdictDetermined` carries
  this from `Digest` through a move of the tree to `Validate` and `Conclude`: there
  is one set of findings and one digest.  What the graph adds is left open
  (`Analysed` is any operator), so the theorem says nothing of the decision.
  `UnreadNeverPasses` has no such condition: whatever the diff, the trees, the
  registry and the edits by hand, what was not read and is the business of a policy
  that acts, or of an invariant, is blocked or asked (`UnreadIsFound`: such a thing
  is among the findings, unknown and active; `UnreadStays`: and in the verdict).
  `LossFollowsFromTheTexts` puts both together.  What `Validate` finds is what the
  validators say of the two texts (`ValidationsFind`), so if they read these as
  they are meant, a loss is among the findings with the severity and the mode of
  its policy (`FileFindsLoss`, `PythonFindsLoss`); the impact analysis adds no
  violation (`ImpactIsNoViolation`); and `Decide` of such findings holds the loss
  as the policy asks (`VerdictHoldsLoss`).
  Of the decisions: case analyses of `Decide`.  `RiskIsRedundant` rests on
  the weights: only a critical finding at 70 percent reaches the threshold,
  unless the finding is unknown, public or a warning; the invariant says which
  findings occur.
* `ApprovalDeskProofs`.  `ReleasesAreVouched`.  The invariant `DeskInv` ties every
  signature of a stored record to a person who gave the fingerprint the record
  is stored under, and every call under way to the fingerprint it compared; it
  is needed because the commit comes after an arbitrary delay.
  `GrantedReleaseStays` goes through every step that could touch the latest record
  once it is granted: no call finds its guard true (`NoWayFromApproved`), and only
  a waiver may be put on top of it or run out.  `GateAgreesWithDesk` has no
  condition: the two channels ask for the same fingerprint, where they ask, exactly
  if the prepared context asks for no more than CI (`FingerprintsDiffer`); then the
  approval that one finds is the one the other finds, and otherwise CI finds none.
* `ContextPacksProofs`.  `StoredPacksStay` for both back ends; `PutIsConfirmed`
  and `PostgresKeepsPromise` for PostgreSQL, by an invariant that a written call's
  pack is the stored one.
* `SourceIndexProofs`.  `TypeCorrect` includes mutual exclusion.  `KnowledgeIsCurrent`:
  without reverts versions only grow, so what was read earlier is not ahead of
  what is read later; label, index and files are ordered (`KnowledgeInv`), and
  equality of label and files squeezes the index between them.
* `PolicyGovernanceProofs`.  For registries whose bundles are filed under their
  own policy (`~Misfiled`): `OnlyOwnersEnforce`, whose invariant is
  `EnforcedIsApproved` with the types of registry and history (`Types`);
  `PromotionIsApproved` says what `Promote` checked, `ChangeOnlyRelaxes` that
  any other change leaves what is enforced under the definition and owner it was
  promoted with.  `OnlyPreciseBlock` follows the drill and the precision of the
  same history.  Without the assumption: `RollbackNeedsNothing`, and
  `RegistryKeepsLadder`, by cases on the two kinds of change.
* `GateRunProofs`.  What is committed only grows (`Grows`), and each part of the
  invariant orders two histories: the file before its log, the committed record
  before what a transaction makes of it, the beginning of a look before its
  answer, what the gate decided on before what is committed now.  A transaction
  holds the lock, so there is one (`OneTransaction`, from `Nobody \notin
  Instance`).  `NoUpdateIsLost`, `LooksAreCommitted` and `GateIsSound` follow; the
  last also needs `AllowedIsEarned`, a case analysis of `Decide`.
  `SchemaIsOfOneRelease` is about the migrations (`MigrationInv`): what an instance
  staged is what its release has beyond what it found, so far (`StagedAll`), and
  what it found is still the schema, since it holds the lock.  It rests on
  `ReleaseAssumption`.
* `ImpactAnalysisProofs`.  `SearchIsExact` holds for any finite graph.  First, what
  is within `k` steps, which the property defines by a recursive function, is
  shown to be what walks of length `k` reach (`WithinIsNear`: such a function
  exists, since the walks give one), and a round that adds no node is the last, so
  as many steps as there are nodes reach everything (`NearAll`).  The invariant
  `Searched` is that of a breadth-first search: the path of an entry is a shortest
  way to it, entries are in the order of their distance and no two are more than a
  step apart, and what was seen and is not in the queue has led to all that is
  ahead of it.  Hence what is as near as the head of the queue was seen
  (`NearIsSeen`), and a turn keeps all that (`TurnKeepsSearched`).
  `PersistedReachesBusiness` follows, with the way from a field to its column, its
  service, the capability, the owner and the invariants (`BusinessIsAhead`);
  `DeadEndReachesAPerson` by cases on what is found and inferred.  Assumed: the
  catalog has finitely many capabilities, and the indexed files are those of the
  indexed repositories and finitely many (`CatalogAssumption`,
  `SourcesAssumption`).

Every safety invariant and action property of the passing runs is stated by a
theorem, some under the conditions named above.  Only model-checked: `LockReleased`, `Answers` and `GateEnds`, since
liveness is outside the prover's reach; and that changes are `Determined` and
`ReadAsMeant`, which is checked of the changes of `change_evaluation`
(`ChangesAreDetermined`).  What the folds of the validators compute for every text
is induction over data.  Both conditions can fail, and then so do the properties:
a diff that ends the last line is not `Determined` (`diff_newline`), and a method
that checks another argument is not read as it is meant (`guard_argument`).

## 5. Not modelled, and the plan

Left out for good: extraction of facts from Java, OpenAPI and proto sources,
tokenising, reading YAML, ranking of search results (weights that nothing
derives), embeddings and HTTP clients, wording, settings, the command line,
authentication of callers, benchmarks and evaluation suites.  They are functions
from texts to texts, or I/O, without state that others share; their results are
inputs here.

Not modelled within the modelled parts: changes of several files in one
evaluation; methods with branches, for which the order of lines is not the order
of execution; writes inside parenthesised statements and enum values, which the
validators do not look at (`validators.py:27` speaks of enum values); traces of
imports (`graph/runtime.py`); the approval service without a store, which only
benchmarks use; the tools of the server that only read.

Next: evaluations of changes of several files, in which a field may move from
one file to another; `Determined` and `ReadAsMeant` are then said of each file.
