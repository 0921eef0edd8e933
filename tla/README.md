# Verification of traust-contracts

TLA+ modules, TLC configurations and TLAPS proofs about the code of this
repository: the artifact store (`src/traust_contracts/v1/storage`), the SQL it
runs (`storage/v1`), and the parts around it. Paths below are relative to the
repository root.

## 1. The system

`traust-contracts` is a contract package: JSON Schemas, SQL for two dialects,
a Python library that writes validated artifacts to a caller's database, and
the tools that release the package and bump its consumers.

| Component | State it keeps | Operations | Hard behaviour | What makes it correct |
|---|---|---|---|---|
| Artifact ingest (`store.py`, `Store.ingest`) | `artifact_evidence`, `artifact_binding`, `artifact_location`, projection tables | `ingest` | hosts race on one database: digest lock, unique-index waits, failures between statements, lost COMMIT answers, retries | all or nothing; linear supersession; one current cumulative report; truthful `IngestResult`; no deadlock; every call ends |
| Product registry (`Store.register_*`, `find_product_repo`) | `product`, `repo`, `product_repo`, `product_repo_version`, `repo_owner` | upsert by natural key, read back | two hosts register the same key at once | one id per natural key, never changed; a returned id is stored |
| Schema lifecycle (`Store.init`, `Store.migrate`, `storage/sql.py`) | `traust_storage_meta`, table and view shapes | init, migrate | packages of several revisions on one database, a host dying half-way, dialect differences in deltas | a stamped database has exactly the shape of a fresh one; revisions never go down |
| Ledger tables (`ledger/v1`) | `layers`, `events` | append an event, insert or relink a layer | concurrent appends of the next sequence number | gap-free, append-only event streams; one layer per product_repo |
| Binding identity (`binding_id`) | none | encode and hash | optional fields, a trailing role | distinct contexts have distinct encodings; roles moved no identity |
| Scopes (`CorpusConfig`, `_query_view`) | `corpus-config.yaml`, the scope of every row, PostgreSQL's transaction-local setting | resolve a scope, ingest under it, read scopes | the file is edited between resolving and using; two declarations of one tree | a reader of the corpus misses no row and opens no other scope; the setting never leaks |
| Current views (`storage/v1/*/views`) | none (queries) | `query_*` | views that pick "the current one" by supersession, by rank or by clock | one current row per subject; a correction replaces what it corrects |
| Finding timeline (`finding_timeline`, `finding_sla`) | none (queries) | first seen, resolved, regressed, breached | events, reports and policies arrive late and out of order, with offsets; re-audits change the severity | no negative duration; the past is settled; a breach goes away only with its limit |
| Risk rating (`risk_rating.py`) | the rating stored in a threat model | rate, problems | factors edited after rating; thresholds | what problems lets through follows from the factors, its scores within the tolerance |
| Configuration loader (`config.py`) | the config home, the load in progress | resolve home, load context or section, audit | files edited, broken or removed during a load | one home per context, no hole, `None` only for an absent file |
| Release helper (`release.py`, `ci/gates.py`) | version files, git branch and tags | bump, tag, push, release, release-if-ready, merge gate | interrupted between steps; edits while tests run | a tag names a commit with its version; what is worth a release gets one |
| Downstream bump chain (`ci/bump_downstream.py`) | branches, pins, pull requests, one record per consumer | bump a hop, run the chain, reconcile | pull requests merged, squashed or delayed between runs; a run that dies half-way | pins are published commits; a chain agrees on versions; reconcile repairs |
| Estate-data guard (`ci/check_estate_data.py`) | git's index | scan what a commit adds | renames, changes of type, odd paths, merges, an unreachable forge | no new figure reaches HEAD through what the guard is shown; old ones that stay put never block |
| Enum registry (`ci/enum_registry.py`) | memo of the walk | derive `used_in_schemas` | reference cycles, a shared memo | exactly the vocabularies a schema can reach |
| Models, schemas, timestamps, generators (`models/`, `schemas/`, `timestamps.py`, `ddl_model`) | none | validate, generate | none: pure, sequential | covered by the repository's own tests; not modelled |

How they interact: a host calls `register_*` and then `ingest` on a connection
it owns; `ingest` inserts rows whose `product_repo_id` must already be
registered; views read what `ingest` committed; `init` and `migrate` decide
which shape those tables have. The ledger shares the database and references
`product_repo`. Writers and readers of the store resolve their scopes from the
same configuration file. The release and bump tools share nothing with the
store but the package version.

## 2. Modules

| Module | Models | Checked by |
|---|---|---|
| `BindingRules` | requests, rows, binding identity, unique indexes, the predecessor rule, the projection a document leaves, the `current_binding` view: pure definitions | every run of the store |
| `StoreAbs` | what ingest promises: one indivisible step | `ImplementsAbs` |
| `ArtifactStore` | `Store.ingest`, one action per SQL statement, several hosts | `store_chain`, `store_live` |
| `ArtifactStoreProofs` | theorems about `ArtifactStore` | tlapm |
| `MCArtifactStore` | the small instances | |
| `MigrationAbs` | what init and migrate promise: the schema moves to a package's revision in one step, never down | `ImplementsUpgrade` |
| `StorageMigration` | `Store.init` and `Store.migrate` statement by statement, hosts on packages of different revisions | `migrate` |
| `StorageMigrationProofs` | theorems about `StorageMigration` | tlapm |
| `MCStorageMigration` | the repository's own revision history | |
| `RegistryAbs` | what the registry promises: one-step registrations | `ImplementsRegistry` |
| `Registry` | `Store.register_*`, `find_product_repo`: upsert and read-back of racing hosts | `registry` |
| `RegistryProofs` | theorems about `Registry` | tlapm |
| `MCRegistry` | the small instances | |
| `LedgerEvents` | the triggers and indexes of `ledger/v1` under concurrent writers | `ledger` |
| `LedgerEventsProofs` | theorems about `LedgerEvents` | tlapm |
| `MCLedgerEvents` | symmetry of the small instances | |
| `BumpChain` | `ci/bump_downstream.py`: bump, chain, reconcile, with the developer and the reviewers in between | `bump`, `bump_open_pr` |
| `BumpChainProofs` | theorems about `BumpChain` | tlapm |
| `MCBumpChain` | its instances | |
| `ReleaseHelper` | `release.py` and the merge gate of `ci/gates.py` | `release` |
| `CiProofs` | theorems about `EnumReach`, `EstateGuard` and `ReleaseHelper` | tlapm |
| `MCReleaseHelper` | its instances | |
| `ScopeAccess` | `CorpusConfig` scope resolution, writers and readers that use it, PostgreSQL's scope setting | `scope` |
| `AccessProofs` | theorems about `ScopeAccess` and `BindingIdentity` | tlapm |
| `MCScopeAccess` | two trees and four declarations, sane and odd | |
| `EstateGuard` | `ci/check_estate_data.py --staged` in the pre-commit hook | `helpers` |
| `ConfigLoader` | `config.py`: home resolution, manifest, `load_context`, `load_section`, paths, audit | `config` |
| `ReadingProofs` | theorems about `ConfigLoader`, `CurrentViews`, `FindingTimeline` and `RiskRating` | tlapm |
| `MCConfigLoader` | the files edited | |
| `FindingTimeline` | `finding_first_seen`, `finding_timeline`, `finding_sla` | `views` |
| `CurrentViews` | the views that choose which binding counts, over `StoreAbs` | `views` |
| `MCViews` | the instances of both view modules: per behaviour (`question`) the history of one finding, or the bindings of one group of views | |
| `EnumReach` | `reachable` of `ci/enum_registry.py`: depth-first walk with memo | `helpers` |
| `MCHelpers` | the instances of the four single-process modules, one of them (`machine`) per behaviour | |
| `BindingIdentity` | `binding_id`: the bytes that are hashed, field by field | `helpers` |
| `RiskRating` | `risk_rating.py`: `rate`, `problems`, and edits of the stored document | `helpers` |

### ArtifactStore

State: the committed tables (`evidence`, `bindings`, `locations`,
`projections`, `registered`) and, per host, the statement it executes next
(`pc`), its request (`req`) and the uncommitted rows of its transaction (`tx`).
A commit publishes `tx` in one step; a rollback, a crash or an error drops it.

| Action | Code |
|---|---|
| `Call`, `Reject` | `ingest` up to the end of validation (`_idle`, schema, `_validate_binding`, `_references`) |
| `Begin` | `_begin`: `BEGIN IMMEDIATE` (SQLite, one writer) or `BEGIN ISOLATION LEVEL READ COMMITTED` |
| `Lock` | `artifact.lock.sql`, the advisory lock on the first eight digest bytes |
| `LookupNew`, `LookupSame`, `LookupCollision` | `_binding_row` and `_require_same_binding` |
| `RequirePredecessor` | `_require_predecessor` |
| `InsertEvidence`, `InsertBinding`, `RefuseBinding` | the upserts, with PostgreSQL's wait for an uncommitted row under the same unique key, `ON CONFLICT DO NOTHING` on the primary key and an error on the other indexes and the foreign key |
| `RegisterLocations` | `_register_locations`, on the new and on the retry path |
| `Project` | one iteration of `_project` and its helpers: an item raises, has no id and is skipped, or is upserted (a repeated id keeps its first row) |
| `Commit`, `CommitUnanswered`, `Fail`, `Crash` | COMMIT and its answer; COMMIT whose answer is lost; any statement raising; the process dying |
| `Register` | a product_repo appears in the registry |

Data is abstracted: a digest stands for the exact bytes, a document is the
sequence of its items (key, and whether it converts), a binding identity is
the tuple of hashed fields (SHA-256 taken as injective). Locations and the
evidence row are single statements because their rows are invisible to others
until COMMIT. `bound_at` is left to the view modules: ingest never reads it.

### StorageMigration

State: `db`, the committed shape (stamp, contract version, tables, the columns
deltas add, the views with the revision of the package that created them), and
per host the statement of `init`/`migrate` it stands at, the shape its
transaction sees (`work`), the revision its deltas have reached (`step`) and
whether a call of it returned (`open`). `Begin` is `_begin` with the bootstrap
lock (`traust_storage_meta.lock.sql`) or `BEGIN IMMEDIATE`; `FoundNothing`,
`FoundCurrent`, `FoundOlder` and `Refuse` are the four outcomes of
`_meta_row`; `DropOwnViews`, `CreateMissing`, `ApplyDelta`, `Rerun`, `Stamp`
and `Commit` are the loops of `migrate` in order. `CREATE TABLE IF NOT EXISTS`,
`CREATE OR REPLACE VIEW` (PostgreSQL), `CREATE VIEW IF NOT EXISTS` (SQLite) and
`ADD COLUMN` with and without `IF NOT EXISTS` are modelled by what they do to a
shape. Column types, indexes and the rows themselves are left out: no delta so
far touches rows.

### Registry

The five registry tables are one set of rows `[key, id, attr]`: the natural
key names its table and the identifiers it starts with, `attr` stands for all
descriptive columns. `Call` is a `register_*` method up to `_write` (its
`uuid.uuid4()` included); `Begin`, `UpsertInsert`, `UpsertConflict`,
`UpsertOrphan`, `ReadBack` and `Commit` are the statements of `_write`;
`FindProductRepo` is the one-SELECT lookup. An upsert waits for another
transaction's row version under the same key; `ON CONFLICT` refreshes
attributes (`DO NOTHING` for `repo`) and never the identifier. Arguments that
`_text` rejects raise before anything happens and are not modelled;
`registered_at` is written once and never read.

### LedgerEvents

`events` and `layers` are the committed rows; each writer has the rows and row
versions of its open transaction (`tx`, `lay`) and the row whose INSERT is
under way (`pend`). `Append` is the BEFORE INSERT trigger
`validate_event_append`, evaluated over committed and own rows; `Insert` and
`InsertViolates` are the unique indexes and the foreign key, with PostgreSQL's
wait for a rival's uncommitted entry. Trigger and index are two steps because
a rival can insert or commit between them. `ChangeEvents` and `DeleteLayer` are
the rejected mutations; `InsertLayer` and `RelinkLayer` the writes that
`layers` allows. `Raise` differs by dialect: an error aborts a PostgreSQL
transaction but only undoes the statement on SQLite. `Repo` stands for
registered product_repos (the registry never removes one); event identifiers
are non-empty; foreign keys are enforced (`PRAGMA foreign_keys` on SQLite).
`MaxSeq` is the largest INTEGER. The writers themselves are ledger runtimes
outside this repository, so every INSERT, UPDATE and DELETE is possible at any
time. SQLite's INSERT OR REPLACE is left out: it deletes the row it replaces
without firing the DELETE triggers (`recursive_triggers` is off by default), and
so is outside what these triggers enforce.

### BumpChain

A commit is its number in its repository, a branch a tip, a tree its pins. The
actions follow one hop: `Start`, `Resolve` (the dependencies' commits must be
on origin), `Pin` (one `pyproject` entry), `AlreadyCurrent`, `FreshBranch` or
`Resume`, `GateFails`/`GatePasses` (`make` and the commit), `Push`, `SkipPr` or
`CreatePr`, `Save`; `Scan` and `Reconciled` are `reconcile`; `Die` is the
process ending anywhere. `Develop`, `Publish`, `Merge` (merge commit or
squash), `Sync` and `Checkout` are other people. `uv.lock` and the dropped
version floor are functions of the pins and left out.

### ReleaseHelper

A branch is the sequence of its commits; a tag is the sequence up to the commit
it names. `history` and `branch` are what is checked out,
`vfile`/`pyproject`/`changelog` the working tree, `tags` the local tags,
`rtags` and `origin` the tags and branches of origin. `Bump` and
`WritePyproject` are the two writes of `bump`; `Release`, `TagCommand`,
`PushCommand`, `ReleaseIfReady` start commands that share `Build`, `Tag`,
`CreateTag`, `PushBranch`, `PushTag`; `Fail` and `Raise` end one half-way.
`CheckReleaseMr` and `BumpLevel` are `ci/gates.py`; `Land` is a merge the gate
let through. `EditMeanwhile` is someone editing while tests and the build run.
Tests, the build and the wheel change nothing tracked.

`Repo.push` sends `git.branch()`, whichever branch that is, and then the tag
(`release.py:188-193`), and with `--force` it forces both (97-103). By hand a
release may therefore be made on another branch (`Checkout`), or on a main that
is behind origin's: `BranchMoves` and `TagMoves` are what git refuses of it,
`LeftBehind` the tags a forced push takes off their branch. So a tag made by
hand need not be on main, nor on any branch: `strayed` collects the versions
whose tag was pushed from a branch it is not on, or left behind by a forced
push, and `TagsOnBranch` says that there are no others. `TagsOnMain` is
stated of the pipeline. Its job clones main and has it checked out as a
branch: the CI configuration is not in the repository, and in a detached
checkout `git.branch()` would be `HEAD`, which git does not push.

### ScopeAccess

`file` is `corpus-config.yaml`, `rows` what was ingested, with the tree each
row came from and the scope it was written under. `Resolve` and `Ingest` are a
writer (`scope_for`, then `Store.ingest`), `QueryBegin`, `QueryRows` and
`QueryFails` a read through `_query_view` or `query_findings_summary`, with the
transaction-local `traust.scope_ids`; `ReadView` is a SQL consumer on the same
connection. The operator's edits (`Save` and its callers) come between any two
of these. `fresh` marks what was resolved from the configuration in force.

### EstateGuard

A file is its kind and the sequence of its lines; `head`, `other` and `index`
are the trees of HEAD, of the branch to be merged and of the index.
`AddedLines` is what the guard reads of `git diff --cached` with
`--diff-filter=ACM`, against HEAD, less the lines of MERGE_HEAD in a merge: the
lines that a longest matching of the old file with the new one leaves over. So
a line that is moved or repeated inside its file is an added one. `Unseen` are
the files of whose lines the guard gets none: renamed (R) or of another type
(T), which ACM leaves out, binary to git, or with a path that git quotes, whose
header does not start with `+++ b/`. A path with a space has a header that ends
in a tab, so neither the exemptions nor MERGE_HEAD know it (`Tabbed`).
`CommitIndex` and `OtherCommit` run the hook, each on its branch. Which lines
hold a figure is a constant: the patterns are pure and tested line by line.
Left out: commits that run no pre-commit hook (`--no-verify`, a merge without
conflicts, a rebase or a cherry-pick), `diff.renames=copies`, and files without
a newline at their end.

### ConfigLoader

`load` is the load in progress: its home, the files still to visit, what it
has. `LookFor` is `is_file`, `Read` the read, parse and validation, so an edit
can fall between them; `Finish` builds the context or the audit's findings.
`Edit`, `Install` and `SetEnv` are the operator. A content is one of the five
kinds the loader and the audit tell apart.

### FindingTimeline

`reports`, `events` and `policy` are what the views read of one finding
identity: the reports of the scope, each with the rows that carry the
fingerprint (none, one or several, refuted or not), the ledger events about it
and the current policy. Reports and events only grow, in any order. `first_seen`
and `last_seen` run over every report that carried the finding, superseded ones
too; the severity, and with it the limit, come from `current`, the counted
report of each subject. Which report that is after an ingest is left open here:
any of the subject's, new or old, since a correction or the rank can bring back
an older one (`CurrentViews` has the choice itself). A finding that no counted
report shows, or only as a false positive or hardening, has no row in
`finding_sla`: `severity` and `breached` are NULL. Severities are numbered as their
names sort, which is what MIN compares. Times are instants; an event's text
sorts by its local time and then by its offset (`TextBefore`), which is what MIN
and MAX over the stored text compare.

### CurrentViews

Composes the one-step ingest of `StoreAbs`, which `ArtifactStore` is shown to
implement, with `boundAt`, the clock of the ingesting host: clocks agree with
neither the order of ingests nor that of corrections. Each view is an operator
with its name.

### EnumReach

`stack`, `found` and `next` are the recursive calls of `collect`, made explicit;
`memo` (of the `known` nodes) is its cache. `NextSchema` takes the next schema file,
the other actions treat one item that `_walk` yields: skip inside `if`, collect
a value set, follow a `$ref` to a node in the memo, on the stack or new, and
return.

### BindingIdentity

`encoded` is the bytearray, `field` the iteration of the loops, `issued` what
earlier calls returned. `str.encode` is a table (external) with two
assumptions: different texts have different bytes, and only U+0000 gives a zero
byte. This is what justifies `BindingRules`, where an identity is a tuple.

### RiskRating

A factor set is its total. Scores are counted in grains, `Grain` to a
thousandth: the means of eight and four factors are whole thousandths, a score
written by hand lies anywhere. `Agrees` is the tolerance of `problems()`: closer
than a thousandth agrees; exactly a thousandth agrees when the difference of the
two floats is not above `10**-3`, which `RoundsIn` lists; farther does not. `Rate`
is `rate()`; `Rescore` and `Rewrite` are edits by hand; `NoProblems` is an empty
answer of `problems()`. A stored NaN, which is no JSON number but which Python's
reader accepts, would be let through and is left out.

## 3. Runs

| Run | Shows |
|---|---|
| `store_chain` | Three hosts on PostgreSQL race to start, extend, retry and contradict a chain of cumulative reports, with failures at every statement: supersession stays linear, one report is current, answers are true and no transactions wait in a cycle. |
| `store_live` | Two hosts file rival roots, requests that must be refused and ones that fail while projecting: nothing partial is ever committed, every commit is one step of the atomic ingest, and every call ends although hosts wait for one another. |
| `migrate` | Packages of revisions 1, 4 and 6, and one of another contract version, bootstrap, refuse and migrate one database along the real delta history, failing anywhere: a stamped database has the fresh shape, no ADD COLUMN repeats a column, open hosts keep what they need, no call takes the database back, and the statements implement the one-step upgrade of MigrationAbs. |
| `registry` | Two hosts register the same product, repo, product_repo and version at once, some under parents nobody registered, with failures and lost answers: one row and one identifier per natural key, every answer stays true, and the interleaved upserts act like one-step registrations. |
| `ledger` | Two writers append to, create and relink two layers in transactions of any length and order, with statements the triggers reject: streams stay gap-free logs that only grow at their end, whoever gets its first row in is alone and never waits again, and a product_repo has one layer. |
| `bump` | One hop, and a chain of two, bumped, killed, resumed and reconciled while their dependency is developed, pushed, merged and squashed: what is pinned can be fetched, a chain that ends well leaves one version of every repository, what reconcile commits is on main, and a valid pin stays valid. |
| `bump_open_pr` | (violation) A hop bumped a second time with --open-pr is pushed to a branch no pull request exists for. |
| `release` | The pipeline alone, with versions set to anything, and beside releases by hand from any branch with --force and --allow-dirty, every command failing at any step: a tag matches the version files of its commit, its commit is on a branch of origin unless a push went from another branch or was forced, the pipeline's tags are on main and ascend along it, and by bump, gate, merge and pipeline every release-worthy change is released in the end. |
| `scope` | Writers and readers resolve scopes while the operator edits trees, engagements and the mode, into what the validators and the store refuse too: no corpus row written under the configuration in force is missed, no scope is opened for harness-qa alone, no answer covers part of the corpus, the PostgreSQL setting never outlives its read, and registering only adds. |
| `config` | Files are installed, broken and removed and the variable changed between any two steps of a load: a context comes from one home, has no hole, switches a feature off only for an absent file and is exact when nothing was edited; an audit without findings means a configured home. |
| `views` | Registries, threat models, reports, validations and policies corrected, restated and re-run in every order and under every clock: one owner, one model, one report, one outcome per environment, the SLA clocks of one policy, and corrections win where the clocks agree with them; and one finding, its reports, events and policies ingested in every order: its durations and dates do not depend on what is imported later, and its breach goes away only with its limit. |
| `helpers` | The single-process parts, each by itself: the enum walk over every graph of three schemas is exact off cycles of two or more; binding identities never collide; through the estate hook a new figure enters only in a commit that does not show its file to the guard; what the rating check accepts follows from the factors, with scores within its tolerance. |

Many properties are conjunctions of named parts, one per question; the
module defines the parts next to the property: `TagsHold`, `LoadIsWhole`,
`LoadIsExact`, `CurrentIsOne`, `DurationsHold`, `HistoryStands`. Runs of
independent parts are combined in one behaviour space by a variable that
chooses the part (`machine` in `MCHelpers`, `question` in `MCViews`, `practice`
in `ReleaseHelper`, `length` in `BumpChain`).

Bounds of the store runs. Four digests, two of them with the same lock key,
cover: a repeated item id, an item without id, an empty document, a document
that does not convert. `store_chain`: two rival roots, two rival successors, a
third link, a retry with another reference and the same bytes with another
commit; three hosts are enough for every kind of wait to have a waiter, a
holder and a bystander. `store_live`: two hosts and requests with a second
product_repo, self-supersession, a predecessor of another context and failed
validation. Calls are not bounded: requests are finite and retries idempotent,
so the state space is finite. Host symmetry is used only where no liveness is
checked.

Fairness of `store_live`: a live host executes its next statement (weak
fairness of its statements); PostgreSQL queues lock waiters in order, so the
digest lock and an index entry that become free again and again are eventually
granted (strong fairness of `Lock` and of the binding insert); SQLite's busy
timeout makes a waiting `BEGIN` return one way or the other. Failures and
crashes are never required to happen.

Bounds of `migrate`: SQLite, where views and columns lack the idempotent forms; the real history (revisions 1 to 6, its four
added columns, one added table, one added view), packages at its two ends, in
the middle and of another contract version. Calls and failures are unbounded.

Bounds of `registry`: two hosts and one slug, URL, ref and version, so that
every call competes for the same keys; identifiers in keys are those of
committed rows or a made-up one. Four identifiers let
both hosts insert a product_repo at once; versions have no identifier of their
own and race below any product_repo. Hosts, identifiers and attributes are
symmetric.

Bounds of `ledger`: two writers, two layers, two product_repos and streams of
two events show cross-layer orders, relinking and waits; more writers are the
proof's. Writers, layers and events are symmetric. No fairness is assumed:
when a writer ends its transaction is not in this repository's hands.

Bounds of the bump runs: a behaviour has two repositories with up to three
commits, or three with up to two, and one pull request each (two in
`bump_open_pr`, which needs a second one). `MaxMoves` bounds the steps of other
people, three with one hop and two with two: commit, publish and merge between
two commands. No fairness is assumed: nothing here is promised to happen.

Bounds of `release`, per `practice`: four commits, two failures and the gate's
versions where only the pipeline releases; three commits, two failures and
versions set to anything; where people also release by hand with `--force` and
`--allow-dirty`, branches of two commits, two versions, one failure, and three
commits, changelog sections and commands given by hand in all (bumps, checkouts
and the pipeline are not counted). They give a first release, a second one, a
lower version and a failure in each, and by hand a release from another branch,
a main that is behind, and a forced push that leaves a tag behind.
Fairness of `WorthyReleased`: a command
proceeds, and the pipeline on main is run again and again (`SF(ReleaseIfReady)`:
it is triggered by every push to main and may find main already released).
It is stated of the practice "pipeline": with a version lowered by hand the
gate lets through what the pipeline then refuses.

Bounds of `scope`: two trees, four declarations that differ in ownership, unit
and scope, one of them what validators, `scope_for` or the store refuse, one
row and two edits: enough for an edit between resolving and using on either
side. More rows do not meet each other: the view selects row by row.

Bounds of the guard in `helpers`: three files, one of them exempt and one with
a quoted path, links, a binary file and texts of two lines, one edit
per commit and two commits, from one common start, show edit, rename, change of type, merge, and merge
after either, with git's default rename detection. Paths with a space are left
to the proofs.

Bounds of `config`: the real manifest, two homes, and four of its files (a
required one, a key, two optional ones), each with every content that takes a
different branch of `_load_one` or of the audit's rules; one edit, which falls
between two files, between look and read, or before the load.

Bounds of the timeline in `views`: two reports and three events over five
instants and two offsets give resolution, reopening, regression and resolution
again in every order of arrival (`history`; the other resolutions are open ones
to the views). Three reports of two subjects over three dates, with the finding
absent, refuted or at one of two severities, one event and three policies give
every change of the limit (`limit`): dropped, downgraded, refuted, shown by two
subjects, left without days.

Bounds of the bindings in `views`: five to eight requests that compete for one
subject, two scopes and three clock values, so that ties, skew and supersession
meet.

Bounds of the walk in `helpers`: every way three schemas, each with a
vocabulary of its own and up to two references, can refer to each other.

Bounds of the encoder in `helpers`: pairs of calls over texts that are empty, are or
contain the presence byte, take two bytes, hold NUL or a lone surrogate.

Bounds of the rating in `helpers`: totals on both sides of 3.0 and at 6.0,
up to two edits by hand, two grains to a thousandth. The
scores written by hand, for the mean 2.875: 2.874, exactly a thousandth off and
accepted, and 2.8765, off by more; for 3.0: 2.9995, off by less; for 6.0:
6.001, exactly a thousandth off and not accepted. The proof is for any scores, any
grain and any rounding.

## 4. Proofs

`ArtifactStoreProofs` proves, for every set of hosts, requests and documents
and for both dialects: types, atomicity (`Whole`), linear supersession,
one current cumulative report, truthful answers, absence of wait cycles, and
that `ArtifactStore` implements `StoreAbs`.

None of these is inductive alone. `IInv` adds: what each open transaction
holds at each statement (`TxShape`), what the earlier checks of a call
established and that it stays true (`Checked`), that two transactions past the
lock never share a digest (`Exclusive`), that uncommitted rows do not conflict
(`InFlight`), that stored rows do not (`NoConflict`) and that a chain with a
report has its root (`Rooted`). The argument for one current report: a new
cumulative report without predecessor cannot be stored where the chain has a
root, and a chain with any report has one; one with a predecessor finds it
without a successor, hence current, hence the only current one, and takes its
place. `Checked` survives another host's commit because equal identities mean
equal digests, which `Exclusive` keeps apart, and because rival rows would have
conflicted in flight.

Two theorems are the part of `EveryCallEnds` that is not fairness.
`WaitsAreShort`: behind a waiting call, at most two waits away, is one that
waits for nobody; a digest lock may be held by a transaction that waits for a
rival binding row, and that row's transaction waits for nothing (`SecondWait`).
`StatementsAdvance`: a call has at most nine statements and one iteration per
item left (`Left`), each of its steps leaves fewer, and no other step gives it
more: nothing in `ingest` is retried.

Assumptions, all named in the modules: requests are records with a digest,
documents are sequences of items, reports require `run_id` (as `profiles.json`
says), `NULL` is no request and no identity, the dialect is one of the two.

`StorageMigrationProofs` proves the migration properties for any history, any
packages and any number of hosts. `IInv` says how the transaction's shape
relates to the committed one at each statement: while deltas run, tables as
old as the stamp are at revision `step` and younger ones already at the
package's (`Halfway`). From this the shape before the stamp is the fresh one.
`BaselineAssumption` (on SQLite, a delta only alters tables of the revision-1
baseline) is exactly what `DeltasApply` needs: `migrate` creates a missing
table in its current shape before it runs the deltas, so on SQLite a delta
that alters a table younger than the stamped revision would fail with a
duplicate column. The deltas of this repository satisfy it; a delta that
alters, say, `portfolio_forge_facts` would not.

`Refinement` shows that `StorageMigration` implements `MigrationAbs`, with the
stamp as the revision and the committed tables, columns and views as the
schema: only a commit changes any of them, and it changes them together.

`RegistryProofs` proves the registry's properties for any hosts, keys and
identifiers. The strengthening: a host past its upsert holds either a new row
under a key that is not stored and whose parents are, or a refreshed version
of the stored row that nobody else can be changing (`Wrote`, `Exclusive`), and
generated identifiers are unused (`FreshIds`, uuid4 taken as never repeating).
Since committed rows keep key and identifier, what one host established
survives every other host's commit.

`LedgerEventsProofs`: neither the trigger (blind to uncommitted rivals) nor the
index (which allows gaps) gives a log alone. The inductive invariant says that
every transaction sees contiguous, duplicate-free streams (`SeesLogs`), that a
row past the trigger follows such a stream (`Follows`) and that a layer has one
appender. The key lemma is `InsertIsAlone`: if a rival had rows in the layer,
contiguity would give it the very number being inserted, and the index would
block. Everything else follows; a commit by another writer only adds rows to
layers that this one does not hold.

`BumpChainProofs` proves the four safety properties and `ValidPinsStayValid`
for chains of any length and any bounds. The inductive invariant `ChainInv` is
the longest of the project, because each property rests on what a command read
earlier and has not looked at since:

- `GitInv`: histories are transitive, a branch of the fork stays, `main` is
  there. `Grows` says that a step only adds commits and never takes history
  from a branch of origin, so what was reachable stays reachable.
- `PinsStand`: every pin of a commit or a tree is on origin. It is inductive
  because HEAD is tested against origin when it is resolved (`Fetched`) and
  branches of origin do not lose commits; `Written` ties the tree to it.
- `TreeKept`, `HopSettled`: a tree that was clean has only new pins to commit,
  and from `Push` on the hop's branch holds what was tested. This is
  `ReconcileRepairs`: main as `Scan` read it is an ancestor of the main at the
  commit.
- `Walked`: the hops behind a chain's command pin the tips of their
  dependencies. At the end this covers every hop, and `ChainAgrees` follows: a
  hop and its dependency pin the same tip of a third repository.

Two more action properties say what a command may do to a repository at all.
`OnlyReviewMovesMain` needs `OffMain`: a recorded pull request's branch is not
main, and a hop stands on its branch, from the start when it resumes or
reconciles and from `FreshBranch` otherwise, through every step that commits,
pushes or records. `CommitsWhatItRead` follows from `Written`: when the last pin
is written the tree holds what was read, whatever an interrupted run had left.

All of them rest on what the model says of other people: nobody works in the
checkout of the hop under way.

`CiProofs` proves the release helper's safety for any versions, kinds of commit
and numbers of commits, edits and failures. `TagMatches` is not inductive: the
tag is made several steps after the version was checked. `Checked` carries the
check across them (a clean tree, or an edit recorded in `waived`, until HEAD is
tagged) and says that the branch is on origin when its tag follows; that a
branch which moves on keeps its tags is the transitivity of prefixes
(`PrefixTransitive`, `BranchMoved`). `Piped` says that a pipeline's command
stands on origin's main with a version above every tag until it pushes its own,
from which `TagsOnMain` and `TagsAscend` follow.

`PipelineNeverStuck` adds `UpOnly`, for the practice "pipeline": versions never
go down along the branch or in the checkout (each of the three bumps raises
them, a restore or a clone goes back to a commit's own), and main's two version
files agree. A tag is then at or below main's version, so the guards of
`release_if_ready` other than "already tagged" never stop it. Where versions
are set by hand TLC finds the pipeline stuck, which is why `WorthyReleased` is
stated of this practice only.

`AccessProofs`, of scopes: writer and reader resolve through the same function of
the same declaration (`tree_meta`), so a row written and read under one
configuration meets its reader. `ScopeInv` carries this through the steps between
resolving and using: a fresh pending scope is `scope_for` of the file in force,
a fresh row's scope likewise, a fresh answer is the selection over the rows
present; an edit makes all of them stale at once. `RegisteringOnlyAdds` is about a
configuration and its successor: an engagement is appended after the one that
declares its tree, and the first one decides (`FirstIsOne`, `AppendRegisters`);
a tree is only set when nothing registered it (`SetRegisters`). So every other
tree keeps its declaration, hence its scope, and the new one has a scope.

`CiProofs`, of the guard: the invariant is `NoNewFigure` of both branches; a commit
adds to a file only lines that the diff reports, or that one of the parents has
in the same file, or it is a file the guard sees nothing of. `NoNewFigure`
excepts what `slipped` records of those; `NothingSlips` proves that nothing
slips through where rename detection is off, all files are text and no path is
quoted. `DebtNeverBlocks` is about figures that stay where they are: when all
the old lines of a file can be matched at once, every longest matching covers
them, and the guard sees none of them.

`ReadingProofs`, of the loader: `LoadInv` says that a load in progress goes
through the manifest in order (`InOrder`), that what it has of the entries behind
it comes from its home, and what it lacks was absent at some moment
(`ReadSoFar`), and that in a home nobody touched it is what the files say
(`SoFarExact`). The manifest is the
real one; homes, files and edits are any.

`ReadingProofs`, of the timeline: what MIN and MAX pick has to exist before
anything can be said about a duration, and sets of events have no induction in
the prover's reach. So the inductive invariant is that every selection of events
has a first and a last text and the reports have ends (`TextsHaveEnds`,
`HaveEnds`); it survives an insertion because the new row is compared
with the end of the rest. The bound on a closing date is arithmetic: where two
texts are in order, the instants are out of order by no more than the offsets
differ. That a breach sticks needs no more: the
carrying reports only grow, so the age does, and what is left is a limit that
went away or grew.

`ReadingProofs`, of the views: `Newer` is a total order of rows, and every set of
rows has a newest (`NewestExists`, kept row by row as the ingests come), so a
row that no rival is newer than exists and is one. Reports are first narrowed
to the highest rank. `Rooted` leads every row back to a first one of its scope,
and two rows that stand to different ones: a scope with one first policy has
one current policy, which is `OneClock`.

`CiProofs`, of the walk: reachability is defined without recursion, as membership in
every set closed under references (no induction is needed). `Sound`: what calls
and the memo hold is reachable from their node, since each node on the stack
refers to the one above it. `ExactOffCycles`: a finished node that reaches no
cycle, but for a reference to itself (`"$ref": "#"`), never met another node on
the stack, so its memo holds the sites of all items
it walked and the memos of all nodes it refers to, which makes the known
acyclic nodes a closed set. The restriction is needed: two schemas that refer to
each other do lose vocabularies, because the memo keeps what was cut off at the
stack.

`AccessProofs` proves that `binding_id` is injective for texts of any length without
induction: a NUL-free text followed by NUL can be cut off the front of a buffer
in one way only (the shorter text's NUL would lie inside the longer one), an
optional field is told from an absent one by its first byte, and the domain
prefix cancels. Two equal buffers are peeled field by field; what is left is
the role, empty or not. `IdentityInv` ties the buffer to the field reached.

`ReadingProofs`, of the rating: a stored rating keeps its shape under any edits,
and `NoProblems` recomputes both scores, both levels and the severity from the
totals: a mean of eight or four integers is an exact number of thousandths, so
its level and the severity are functions of the totals. Two totals' means are at
least 125 thousandths apart, so no stored score is within a thousandth of two:
the tolerance hides no re-scored factor.

The proofs also cover what the runs do not: both dialects of every part that
has two (TLC runs the store, the registry, the ledger and the scopes on
PostgreSQL and migration on SQLite, where each has more that can go wrong), and
`Whole`, `RevisionsGrow`, `ReadBackFinds`, `OneAppender`, `OnlyCorpusScopes`,
`NoReentry`, `ReachIsSound`, `NoIdMoves`, `DebtNeverBlocks`, `NothingSlips` and
the type invariants, which are proved for every instance and not checked again.

Only model-checked: `EveryCallEnds` and `WorthyReleased`, because liveness under
fairness is out of the prover's reach. Of the first, what is left to TLC is the
fairness step: that a statement nothing holds up is executed and a waiter is
served (`WaitsAreShort`, `StatementsAdvance`). Of the second, it is that the
pipeline runs until its tag is pushed, and that the gate asks a higher version
of a worthy change, which is an induction over the commits of a merge
(`BumpLevel` folds them); that the pipeline then accepts the version is
`PipelineNeverStuck`. Every other property of a passing run, invariant or action
property, is a theorem.

## 5. Not modelled

JSON Schema validation and the typed models (generated, pure, tested over
every artifact), timestamp parsing (one value at a time, its cases enumerated
by tests), the column-by-column content of projections (conversions are pure
and per-column), the rollup views that only join and count, the DDL model
generators, the comparisons of `ci/enum_registry.py` with one registry file,
the guard's regular expressions, and network or filesystem effects beyond
success, failure and loss.

## Findings

`bump_open_pr` (violation) states a sentence of the tool's own text that the
code does not keep; `PROJECT.json` quotes it with its place: a hop's second
pull request is not opened when its record still holds the first one.

Behaviours to know, which are in the models as the code has them and which the
properties above are stated around:

- `reconcile` judges a pin of a commit still in review as orphaned and replaces
  it by main's (`BumpChain!Scan`).
- A run that dies between writing pins and checking out the branch leaves a
  dirty tree that the next run refuses (`BumpChain!Die`).
- Rows of a harness-qa tree are read with a scope that another tree shares
  (`ScopeAccess`); only one PostgreSQL view is filtered by the scope setting.
- Four kinds of files are not scanned by the estate guard, which `slipped` in
  `EstateGuard` records: renamed by git's detection in the commit that adds the
  figure (status R), turned from a symlink into a file or back (T), binary to
  git, and of a path that git quotes. A path with a space gets a header that ends
  in a tab: its file is not exempt and its merged lines are not recognised. A
  figure moved or repeated inside its file blocks the commit.
- A re-audit that drops, refutes or downgrades a finding takes its breach back,
  and the severity that sets the limit is the first by name, "low" before
  "medium" (`FindingTimeline`).
- The rating check accepts scores less than a thousandth off, and of those
  exactly a thousandth off the ones whose floats fall on the right side
  (`RiskRating`).
- A reopened finding keeps the duration of its first resolution, event times
  with offsets are compared as texts, and a regression before a later
  resolution does not reopen (`FindingTimeline`).
- A corrected registry or threat model can stay current when the correcting
  host's clock is behind, and a scope with two policies has two clocks
  (`CurrentViews`).
- Schemas in a reference cycle of two nodes or more can lose vocabularies that only the cycle
  reaches (`EnumReach`).

## 6. Plan

Every module planned at the outset is built. What would come next, in this
order:

| Work | Question |
|---|---|
| two merge requests at once in `ReleaseHelper` | both pass the gate against the main they saw |
| the rollup views over `CurrentViews` | counts joined from current rows count a finding once |
| the ledger's writers, once they live in this repository | liveness of an append |
