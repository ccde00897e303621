# TLA+ models of rsolve

rsolve resolves R package dependencies against CRAN, r-universe and git, writes a
lock file, and materializes a project-local source repository. Most of its
correctness on disk rests on files that several processes share: the project
directory `.rsolve`, the artifact object store, the snapshot store with its
refresh lock, the raw response cache and the git cache. A process may be killed
between any two file operations and the machine may lose power. Servers change
between two requests of one call, and a lock written yesterday meets the catalogue
of today. Those are the things that tests reach least, and what this project models.

Paths below are relative to `crates/` unless they say otherwise.

## 1. Inventory

| Component | State | Operations | Interaction | What is hard |
|---|---|---|---|---|
| Project materialization (`rsolve-repository/src/materialization.rs`, `transaction.rs`, `state.rs`, `filesystem.rs`) | `.rsolve`: state, marker, repository, their temporaries, `.gitignore`, lock | `materialize`, which runs `recover` and `reconstruct` first | reads archives from the object store; called once per prepare | two renames that must look like one, recovery of an interrupted recovery, fsync order |
| Artifact object store (`object.rs`, `metadata.rs`, `lib.rs`, `paths.rs`) | objects by SHA-256, metadata by descriptor, two kinds of locks | `commit_artifact`, `commit_validated_artifact`, `probe_artifact` | filled by artifact acquisition, read by materialization | several descriptors share one object, quarantine and replacement of corrupt objects, nested locks |
| Bounded copy (`input.rs`) | bytes copied so far | `copy_compressed_input` | inside a commit | counters at their limits, short reads |
| Snapshot store (`rsolve-provider/src/snapshot/cache.rs`) | generations, view heads, `tmp/`, refresh lock | publish, locked and unlocked readers, `cleanup` | the refresh publishes, the resolver reads | a head and its generation must become durable in order; heads shared by processes that do not lock |
| Persistent CRAN refresh (`cran/provider/refresher.rs`, `persistent_cache.rs`) | the captured policy and observed revision of each caller | observe, wait, inspect, acquire, publish | on the snapshot store | coalescing of concurrent refreshes, stale decisions after a wait, forced refresh |
| Prepared snapshots (`rsolve/src/prepared_snapshot.rs`) | none of its own | cache-or-refresh, offline modes | calls the refresh and the store | acquisition before the lock is taken |
| Raw metadata cache (`raw_cache/`, `session/acquisition.rs`) | one entry per representation, projections of bodies | lookup, conditional request, store, revalidation, projection, retention | used by the CRAN session | a 304 is about the body that was there when it was asked for; a body and its projection are two files |
| CRAN session (`cran/provider/session/`, `qualification.rs`, `allpackages.rs`) | per-run caches, the qualification record | index, archive listing, bulk feed, comparison with CRAN | on the raw cache | sources of different ages are combined; a repository trusted on an old comparison |
| CRAN catalog and evidence (`cran/catalog/`, `cran/evidence/`) | none | import, eligibility, conflicts | pure | many cases |
| Git cache (`source_control/`) | bare repository, origin record, views, locks | resolve, fetch, check again, publish a view, validate, read DESCRIPTION | git as an external program | a branch that moves, a half-written view, path collisions |
| r-universe provider (`r_universe/`) | views by endpoint and scope | list, bulk and per-package requests, publish, open compatible | HTTP, the snapshot store | a catalogue that changes between two requests; which view covers which scope |
| Core vocabulary (`rsolve-core`) | none | version order, constraints, aggregation | pure | total orders, canonical forms |
| Resolver (`rsolve-resolver/src/adapter.rs`, `lib.rs`) | interned candidates | PubGrub callbacks, explanations | asks the union of repositories | one release under several keys, one name once, preference and cutoff |
| Resolution and demand (`repository_resolution/`, `orchestration/`) | demanded and loaded packages | fixpoint of demands, union of candidates | calls the providers | termination, error precedence |
| Lock file (`lock.rs`) | the lock document | project, consume, update policy | read and written by the lock command | which releases an update may change, against a catalogue that grew |
| Artifact acquisition (`artifact_acquisition.rs`, `repository_preparation.rs`) | handles found in preflight | plan, preflight, fetch, commit | on the object store | handles used long after they were checked |
| Manifest (`manifest/`) | none | validate, compose groups, intent digest | pure | the result must not depend on order or spelling |
| `rsolve lock` (`cli.rs`) | lock file, report, their temporaries | checks, read, resolve, replace, report | several processes in one directory | two destinations that are one file; power loss around the rename |
| Scripts and CI | none | | | not modelled |

`PROJECT.json` lists the source files of each component and its status, and under
`hazards` the places in this code that are hard to test.

The properties that make the parts correct:

- *Materialization.* Nobody ever sees a partial repository; a committed state
  describes the repository beside it; whatever a crash leaves can be recovered or
  is a clean slate; a project is bound to one selection for good.
- *Object store.* A digest never leads to other bytes; metadata is never durable
  before its object; a path handed out stays good; corrupt bytes are kept, not
  deleted.
- *Bounded copy.* Exactly the streams of the declared or permitted size are
  accepted, and at most one byte more than that is read.
- *Snapshot store.* A head that survives names a generation that survives; no two
  views share a sequence; the view published last is the one selected; a reader
  gets a view that was selected during its call; crashes alone never make the
  store unusable.
- *Refresh.* A forced refresh returns metadata acquired after the request, an online
  call fresh metadata, every call metadata for its own packages; older content never
  replaces newer as long as metadata is acquired under the lock; everyone returns.
- *Metadata.* What a server is said to have, it had during the call; no release falls
  between two sources; a repository is trusted with the bulk feed of CRAN only on a
  recent comparison; a catalogue is whole; a view of a commit is whole.
- *Resolution.* The demand fixpoint ends and its snapshots cover what is reachable; an
  answer satisfies every requirement, and no answer means that there is none; a lock
  is reproduced; explanations are true.
- *Project.* Composition does not depend on the order of groups, and digests are equal
  exactly for equal intents; a lock file is whole, and no report replaces it; the
  repository holds the selection, each package from the first repository that has it.

## 2. Plan

In the order of importance: the three stores that processes share
(materialization, objects, snapshots), then what is built on them (refresh, caches,
preparation), then the decisions (resolution, lock, manifest). All of these are
modelled. What is left:

1. The evidence rules of the CRAN catalogue (`cran/evidence/`) and the order and
   constraints of `rsolve-core` against reference definitions.
2. The other commands of `cli.rs`.

## 3. Modules

| Module | Role |
|---|---|
| `ProjectView` | what `materialize` promises: a view bound at most once and for ever, durable for the call that published it, and shown to the one that found it |
| `Materialization` | `materialize`, `recover`, `reconstruct`, error paths; refines `ProjectView` |
| `MaterializationInvariant` | the phases of the directory where operations persist in order, and what holds of it where they persist in any order |
| `ArtifactIndex` | what the object store promises: an index of descriptors, each bound once |
| `ObjectStore` | commits and probes with their locks and temporaries; refines `ArtifactIndex` |
| `ObjectStoreInvariant` | what each call knows at its step |
| `BoundedCopy` | the copy loop of `copy_compressed_input`, with its invariant |
| `ViewRegister` | what the snapshot store promises: a register per scope |
| `SnapshotStore` | publication, readers, unlocked observation, cleanup; refines `ViewRegister` |
| `SnapshotStoreInvariant` | what survives a crash, and what a publisher knows |
| `PersistentRefresh` | calls that read, refresh or force one endpoint's view, on top of what `ViewRegister` promises |
| `RawMetadataCache` | one metadata source over the raw response cache |
| `CranSession` | a session that combines index, archive and bulk feed, and the qualification of a mirror |
| `RUniverse` | catalogues, their validation and their views |
| `GitCache` | selectors, fetches, views of trees |
| `RepositoryResolution` | rounds of planning and preparing until nothing new is asked for |
| `Resolver` | the adapter under an external search, beside a reference by enumeration |
| `LockUpdate` | two resolutions with a lock between them; extends `Resolver` |
| `LockCommand` | `rsolve lock` in one directory |
| `RepositoryPreparation` | plan, preflight, fetch, commit and bind, on top of what `ArtifactIndex` and `ProjectView` promise |
| `Manifest` | validation, composition and digest of two manifests |
| `Metadata` | `RawMetadataCache`, `CranSession`, `RUniverse` and `GitCache` in one specification, with what they assume of their constants; the variable `which`, fixed by the initial state, says the one that runs |
| `Project` | `BoundedCopy`, `LockCommand`, `RepositoryPreparation`, `RepositoryResolution` and `LockUpdate` in the same way |
| `MCMaterialization`, `MCObjectStore`, `MCSnapshotStore`, `MCPersistentRefresh` | instances for TLC |
| `MCMetadata`, `MCProject` | instances of `Metadata` and of `Project`; the second adds `Manifest` and two instances of `Materialization` |
| `*Proofs` | theorems with proofs |

In `Metadata` and `Project` a variable belongs to every component that has one of its
name, and is `<<>>` where the component that runs has none.

Each `VARIABLE` carries a comment that names the file or local it stands for, and
each action the function. An action is one file operation together with everything
the code does up to the next one; a call's local decisions are part of the action
that makes them. Definitions named "Mutant" in their comment are plausible bugs
and not part of any specification.

**Materialization.** `fs` is the `.rsolve` directory; temporaries are named by the
invocation that creates them. `pc` walks through `ensure_gitignore` (before the
lock), the lock, `validate_inputs`, `recover`, the check of an existing state,
staging, copying, `PACKAGES`, the state temporary, the marker, the two renames with
the directory fsync between them, and the removal of the marker.

**Object store.** `objects` and `metadata` are functions from digest and from
descriptor to content. A call holds its descriptor's lock from its first look to
its return, and the object's lock too while it publishes.

**Snapshot store.** A generation is identified by its content; its header also
carries `created_at` (`stamp`), which is not part of its name, so that the same
generation name may hold files with different headers. A head is bound to one
header. The unlocked observation reads one head per step. `seen` is a history
variable for the refinement only: the views selected in a reader's scope since its
call began.

**Refresh.** A call is of a kind: online, forced, offline, or preparing a repository
loader. `policyNow` is the time it captured when it started, `observed` the view it saw
before it waited for the lock. The store is one register, read and replaced under the
lock; that the store of files behaves like that is what `SnapshotStore` shows.

**Raw cache and CRAN session.** A body is the version the server had; headers are what
decides reuse. The session model has the state of CRAN, of the configured repository
and of the feed as separate variables that move separately, and what the session
fetched of each at its own time.

**r-universe and git.** The list request, the bulk request and each package request
are steps, and the servers may change between any two of them. In `GitCache` the
repository lock is shared or exclusive, a view is written to staging, synced and
renamed, and damage may hit any file of a view at any time.

**Resolution.** `RepositoryResolution` has one variable per loop-carried local of
`resolve_composed_with_prepared_direct`. In `Resolver` the search is PubGrub's
contract: it decides the pending package of the highest priority, and after a conflict
forgets some of the last decisions and never makes all of them again. What it forgets
is left open, so the checks hold for any learning scheme within that contract.

**Lock command, preparation, manifest.** The lock command has the directory, the disk
under it and the files as separate variables, and a flag for a file system that folds
case. Preparation has the bytes each server gives as a choice per fetch. A manifest is
composed group by group; the digest is the sequence of fields that the code hashes.

### Failure model

- *Kill.* A process may end between any two actions; its locks go with it, its
  temporaries stay.
- *I/O error.* One call of an invocation fails before taking effect and the error
  path of the code follows; where the error path itself does I/O (the way back of a
  failed replacement), that may fail as well. `MayMisread` adds failures that the
  code swallows.
- *Power loss.* In `Materialization`, `images` is the set of whole directories that
  may be found afterwards. With `JournalOrdered` operations persist in order;
  without it, any subset of the operations since the last fsync may persist.
  Contents have a `synced` flag of their own and are lost unless it is set. In
  `ObjectStore` and `SnapshotStore` each name has its own set of images, so that
  renames persist independently of each other.
- *Damage from outside.* Objects may rot, once per digest; generations may become
  unreadable, change identity, or have a corrupt history under a good header;
  heads may become malformed. `damaged` counts them and properties about crashes
  are stated for `damaged = 0`.

### Abstractions

- SHA-256 and the descriptor hash are injective; nonces are unique.
- An archive is what the checks look at: bytes, MD5, size, identity. Tar, gzip,
  DESCRIPTION, TOML, JSON and PACKAGES syntax are predicates.
- Syncing a directory persists its own link; `sync_directory` is supported, as on
  Unix. The order in which archives are copied, and the `method` by which, are left out.
- Materialization: the staged tree is one node, made durable by one step. The code syncs
  the archives, `PACKAGES`, `src/contrib` and the staging directory, but not `src`
  itself (`materialization.rs:297-315`); a file system that needs that one too is outside
  the model.
- Removals on error paths do not fail; those of `cleanup` may. The two names a partial goes through are
  one variable.
- Snapshot store: staged content is synced before its rename, so a generation file
  is never torn. `Unreadable` covers a header that does not decode and a file that
  does not open. Two heads of the same sequence are ordered by a digest, hence
  either may win. The unlocked scan lists the directory at its start.
  `view_endpoint_matches` is equality. Heads are read without transient errors.
- CRAN session: a package is loaded or is not; rejections and quarantined releases local
  to one package are left out. The session answers a package that CRAN lacks with an
  empty list (`session/package.rs:434-462`), never with `NotFound`, so that the branch of
  the closure for a required root that is not found (`prepared_snapshot.rs:612-633`) is
  not taken.
- Lock update: the repositories that a lock lists as visible are a set, and their
  allowlists are left out (`lock.rs:692-717`). `Begin` takes the cutoff of the new
  request where the code keeps that of the lock (`lock.rs:467-469`); since every cutoff is
  explored this allows more than the code does.
- Preparation: what a source archive is expected to be is reduced to the package's name;
  version and git provenance (`artifact_acquisition.rs:312-325`) are left out. `Lose`
  stands for the removal of a cached descriptor from outside or by a loss of power: no
  code removes one.
- Counters are bounded by named constants: `MaxSequence` stands for `u64::MAX`,
  `MaxSize` likewise, `HardLimit` for `MAX_COMPRESSED_INPUT_BYTES`, `Buffer` for the
  read buffer, `MaxDamage` for the number of damaged files. The number of
  invocations is the number of calls in a behaviour.

## 4. Runs

| Run | Checks | Instance |
|---|---|---|
| `mat_journal` | no partial repository, recoverability and the refinement, with kills, I/O errors and power losses on an ordered journal | 3 invocations, 2 selections that differ in their index only |
| `obj_crash` | three safety properties and the refinement, with kills, I/O errors, rot and power losses | 3 calls: two descriptors of one archive, probes, one for another identity |
| `obj_faults` | no temporaries left, every call returns; MD5 collisions, sizes beyond the limit, swallowed errors | 2 calls, 3 contents, 7 requests |
| `snap_crash` | durability of heads, no wedged store and the refinement, with kills and power losses | 3 processes, 2 endpoints, 2 contents, 2 time stamps |
| `snap_cleanup` | heads keep their intact generations, pinned loaders, with cleanup, I/O errors (heads that a cleanup cannot read included), damaged heads, generations and histories, and a full sequence counter | 3 processes, 2 endpoints |
| `refresh` | what forced, online and all calls are answered with, that the view moves forward, and that every call returns | 2 processes of any kind with different requests, 2 ticks, TTL 1, one change of the server, deaths, failures and damage |
| `metadata` | the raw cache, the CRAN session, r-universe and git | see below |
| `project` | resolution, lock update, lock command, preparation, manifest, materialization, copy | see below |
| `snap_repair` | finding 1 | 2 processes |
| `resolve_absence` | finding 2 | the resolution instance of `project` |
| `resolve_views` | finding 3 | the lock update instance of `project` |
| `git_collision` | finding 4 | the git instance of `metadata` |

`metadata` explores four instances. Raw cache: 2 sessions that exclude each other, 2
representations, 3 versions of which one does not parse and one is not to be stored,
entries left by an earlier release. CRAN session: 2 sessions, 2 packages, one release
that appears at any time, six kinds of repositories. r-universe: 2 calls, 2 endpoints,
4 scopes, 2 changes of the server and one damaged head. Git: 2 calls, 3 commits, 8
kinds of requests, a branch that moves twice, one fault.

`project` explores eight. Resolution: 3 packages and a base package, 5 configurations of
repositories, 6 sets of roots, 5 modes. Lock update: 11 releases under two catalogues,
9 sets of roots, 7 of them with and without a cutoff, every lock policy. Edges name no
source, as those that providers read. Lock command: 2
processes, one foreign change, one power loss. Preparation: 2 calls, 5 selections, 3
repositories, one loss in the cache. Manifest: every pair of 94 documents.
Materialization: 2 invocations and 5 requests, of which 2 are refused, once with I/O
errors and once with power losses on a file system that persists directory operations in
any order, both for `StateImpliesRepository`. Copy: every length to `MaxSize + 2` and
every declared size.

`CHECK_DEADLOCK FALSE` in the runs of the stores: each call ends, and once all have
ended nothing is left to do. The other runs check for deadlock, with an explicit step
for the end.

*Why the bounds are enough.* Three processes let one be interrupted, one meet what
it left and one meet what both left: recovery of an interrupted recovery. A chain of
interrupted recoveries may be longer, since a recovery has four renames and removals to
be killed after. `RepositoryNeverPartial`, `InterruptedIsRecoverable` and
`ImplementsProjectView` are theorems for any number of invocations. Two contents for one view
and one content shared by two endpoints are the two ways in which publications
collide. Two selections that differ only in their index are the ones that a check
of archives alone would confuse. `MaxSequence` 2 in `snap_cleanup` makes the overflow
happen. In the refresh a call interferes with another through the one view and the one
lock only, so two suffice for every pair of kinds. One change of a server between any
two requests is what tears a catalogue; the second one shows that what was torn does
not become whole by luck. Three packages are a root, what it depends on, and what only
that one's other release depends on, so that a round can ask for a package that no
earlier round knew. Beyond the bounds, the safety properties of the stores are
theorems (section 6). Symmetry is used over processes only, and not in runs that check
liveness.

*Fairness.* Weak fairness of each call's own steps once it has started: a running
process is scheduled, its system calls return, and its stream answers. Nothing obliges
a call to start, to fail or to be killed. Weak fairness of the step that takes a lock
says that a free lock is eventually given to a waiter, with finitely many calls in a
behaviour. In `project` the same is assumed of the resolution, of the copy and of the
calls of `materialize`.

Each property of a passing run has a mutant of the code in `PROJECT.json` under
which TLC finds it violated.

## 5. Findings

1. `snap_repair`. Replacing a generation with a corrupt history gives it a new
   header. If its head is the only one, the head is now invalid and the publication
   that was to repair the store fails, as do all later ones. The test for the repair
   uses the same `created_at` twice.
2. `resolve_absence`. The CRAN snapshot of a resolution is always partial, so that a
   package CRAN does not have is `MetadataInvalid` instead of `NotFound`; the demand plan
   passes over `NotFound` only (`repository_resolution/demand.rs:210-216`), and a package
   that only an r-universe repository has fails the resolution. The tests for this case
   use an in-memory snapshot, which is complete.
3. `resolve_views`. A release that two r-universe repositories build is seen with one
   occurrence under the key of a qualified root and with two under its installed name;
   `intern` takes the difference for conflicting metadata and the resolution fails.
4. `git_collision`. `check_path` compares a path with its neighbours in the sorted set
   of lowercased paths; `A`, `a-a`, `a/a` is accepted although `A` and `a/a` cannot
   stand side by side where case is ignored.

Found on the way, without a run of its own:

- A recovery syncs after its own renames only, and a call that finds the finished
  project syncs nothing. Let a call be killed between the rename of the marker and its
  sync, a second one in its recovery between the rename of staging and its sync, a third
  between the rename of the state and its sync, and a fourth between the removal of the
  marker and its sync. The fifth finds a state and no marker, validates it and answers
  that the project exists, although none of the four operations is durable
  (`transaction.rs:130-162`, `materialization.rs:249`). After a power loss the project
  may be unbound and another selection be bound. `ProjectView` therefore promises less to
  a call that finds the project than to the one that publishes it: the first is told what
  is shown, the second what is durable. TLC finds the behaviour with five invocations, no
  I/O errors and one selection, as a violation of `AnswersAreDurable`, which demands
  durability for both; the theorem `SuccessIsDurable` says that kills or I/O errors are
  needed for it. What is found after the power loss is consistent: the invariants are
  theorems for any number of invocations, and so is `BindingIsForEver`, which does not
  count what was answered but what is durable.
  On a file system that does not order directory operations, a kill and a power loss are
  enough. (1) A call is killed between the rename of staging to the repository and its
  sync; the next one finds the repository and goes on to rename the state. A power loss
  may keep the state and lose the repository, which violates `StateImpliesRepository`
  until a later recovery, which still finds the marker and staging, finishes the
  transaction. (2) A call is killed between the rename of the marker and its sync; the
  next one renames staging. A power loss may keep that and lose the marker, and every
  later call is refused because "orphaned transaction temporaries are ambiguous". Both
  need two invocations and neither happens on an ordered journal. The theorem
  `StateDescribesRepositoryInAnyOrder` says that (1) does not happen without kills and
  I/O errors either.
- `.rsolve/.gitignore` is written and never synced, and any other content is rejected
  before the state is looked at. After a power loss a committed project may have an
  empty `.gitignore`, and every rerun fails, where the documentation of `materialize`
  promises a validated no-op (`filesystem.rs:56`).
- `cleanup` passes over a view head that it cannot read, and then removes the generation
  of that head, which it was to keep (`snapshot/cache.rs:1058-1067`). `ValidHeadsStayValid`
  excepts the heads that a cleanup missed in this way (`missed`). Nothing outside the tests
  calls `cleanup`.
- `validate_object(..).is_ok()` takes a read error for corruption and moves an intact
  object away from the path other callers hold (`object.rs:147`).
- `root_requirement` gives every root that goes to CRAN the source `Any`
  (`rsolve/src/repository_resolution.rs:574`), so that `is_remote_cran_root` drops a root
  that names its CRAN repository and is called like a base package, although its comment
  says that "a repository-qualified root must be acquired from that repository even when
  its name is also an R base package" (`prepared_snapshot.rs:717-721`). CRAN is then not
  prepared for that root. `ResolutionAssumption` excludes such roots.
- A forced refresh judges what another process published during its wait by the time
  at which it started; anything published a second or more later is in its future, and
  it fetches again (`prepared_snapshot.rs:1152`, against the test at
  `cran/provider/tests/current/persistent_refresh.rs:258`).
- The online call of the r-universe provider opens any view that covers its scope,
  without regard to age.
- A view of the Git cache that was damaged is reported and never repaired.

Behaviours met on the way that are as the code intends: staging directories or
state temporaries without a marker make later calls report a conflict; a corrupt
object is an error through its own descriptors and is repaired only through another
one; a hit may fail while another descriptor's publisher has the corrupt object in
quarantine; a publication is rejected when the only existing head is malformed
(there is a test for it).

## 6. Theorems

For every value of the constants that satisfies the named assumptions. No hypothesis
is about the number of processes, files or values. The assumptions on constants are in
the modules that declare them, and TLC evaluates them on the instances; the theorems of
a module that composes components are about the properties that its run checks, and rest
on lemmas that the steps of one component leave the others' variables alone.

**`MaterializationProofs`.**
Whatever the order in which directory operations persist, and with every failure: types
and `NeverPartial`. A repository is partial only if a tree was renamed before it was
whole and synced. `TreesInAnyOrder` says what the holder of the lock finds at each of its
steps, and `UnsyncedTreesAreAlone` that a tree that is not synced comes before every
document about it: while there is one there is neither a state temporary nor a marker
that a recovery could follow to it.

- `StateDescribesRepositoryInAnyOrder`: `StateImpliesRepository` without kills and I/O
  errors (`~MayKill`, `~MayFail`), for any order of durability. `StatesInAnyOrder` says
  that no image has a state from the moment at which a tree is to be exposed to the one at
  which it is durable, and that the state then renamed is for that tree. With kills it is
  false: section 5.

The others assume `JournalOrdered`.

- `PhasesHold`, and from it `StateDescribesRepository` and `AlwaysRecoverable`, with every
  failure. Neither property is inductive: what a crash leaves depends on how far the
  holder of the lock has come. `DirectoryPhases` says that the directory, and every image
  of it, is in one of ten phases of a single transaction, that the step of the lock holder
  determines which phases are possible, and that nobody else changes a file.
  `InterruptedIsRecoverable` does not hold without the order, even without kills.
- `BoundForEver`: under kills, I/O errors and power losses the selection that every
  image of the directory leads to is bound once, to something that was asked for, and
  never changes. `ViewInvariant` adds to the phases whose selection each of them is for
  (`Asked`) and what the lock holder has of its own (`Progress`).
- `ImplementsView`: the refinement of `ProjectView`, with kills, I/O errors and power
  losses. The view is what every image of the directory leads to, `seen` what the visible
  directory leads to. Besides `ViewInvariant` it needs that a call which found the project
  stands before a directory that shows its selection (`FoundIsShown`), and that a call
  which is about to say that it published has its selection in every image.
- `SuccessIsDurable`: `AnswersAreDurable`, that every call that succeeded, also one that
  only found the project, did so for a selection that is durable. Assumed besides:
  `~MayKill`, `~MayFail`. The additional invariant, `Durable`, says that between
  transactions the visible directory is the only image. With kills both are false: see the
  first item of "found on the way" in section 5. An I/O error at a sync has the same effect
  as a kill before it.
- `NoOrphans`: without kills and power losses (after which the property does not hold,
  by design) every temporary belongs to a call that is still at work, or a marker
  accounts for it (`TemporariesOwned`).

**`ObjectStoreProofs`.**
With every fault of the model: types, `FailuresLeaveNoTemporaries`, and
`QuarantineBesideObject`. `Whereabouts` says between which steps each temporary exists.
Without swallowed read errors (`~MayMisread`; with them `HandlesStayValid` does not hold):

- `StoreInvariant`: what a call knows at its step, `Knows`, is stable under the others
  because of the two locks; what metadata names is durable and satisfies the descriptor.
  From it four safety properties and two action properties.
- `ImplementsIndex`: the refinement of `ArtifactIndex`, with kills, I/O errors, rot and
  power losses. The index is the metadata that is visible. `IndexInvariant` says that
  what a call has read of it is still so when the call binds or answers, because of the
  descriptor's lock, and that a power loss leaves a descriptor bound as it is or not at
  all (which `ArtifactIndex` allows as `Forget`).

**`SnapshotStoreProofs`.**
Types and `PinnedIsPublished`, with every fault of the model.

- `CrashInvariant`, and from it durability of heads, distinct sequences, and that crashes
  alone never wedge the store. `HeadsNameDurableGenerations` is not inductive on its own:
  it needs that a publisher's generation is in place while it is being flushed, and the
  only image afterwards (`PublicationKnown`), which others respect because of the lock
  (`LockHeld`). Distinct sequences need that a sequence is drawn above every head a power
  loss may bring back, which holds because no image of a view is above its visible head
  (`SequencesOrdered`). Assumed: no cleanup (`NoCleanup`). With cleanup and power losses
  durability is not claimed: cleanup keeps what visible heads name, and a power loss may
  bring an older head back. Cleanup has no caller outside the tests.
- `ValidStaysValid`, with cleanup and every damage, histories included: a publication
  replaces a generation only when it is not intact, and what a cleanup has left to remove
  is named by no valid head but those that it could not read (`CleanupInvariant`), which
  stays so because it holds the lock. Nothing is assumed. The property is about intact
  generations: one with a corrupt history is replaced under a head that is valid, which is
  finding 1.
- `ImplementsRegister`: the refinement of `ViewRegister`. A locked reader returns what is
  selected. For the unlocked scan, `ScanKnown` relates the best head read so far, the
  heads still to be read, and what was selected since the call began: whichever head is
  read last as the greatest was the selected one at some moment in between, because
  sequences only grow. Assumed: `NoCleanup` and `MaxDamage = 0`. Damage may take the
  selected head away between two reads, and what the scan then reports was not selected
  at any one moment.

**`PersistentRefreshProofs`.**
`RefreshInvariant`, and from it that forced calls are current, that answers cover the
request and that online calls are fresh. None of these is inductive: they speak of calls
that have returned, so the invariant says what a call has in its hands before
(`RightAnswer` from `finish` on, `Holds` while it has metadata to publish), and that a
probe lies between the revision at the start of the call and the present one
(`Remembers`), which is why another revision under the lock is a later one.
`LockedRefreshMovesForward` needs `CachedIsNewest` besides: the cached response is never
older than the view made of it, and the lock lets one process at a time go from the
response to the publication. Assumed: the sentinels are neither views nor responses.
Every fault of the model is allowed.

**`ProjectProofs`** (assumed: `SizesAssumption`, `CommandAssumption`,
`PreparationAssumption`, `ResolutionAssumption`).

- *Copy.* Types and `CopyInvariant`, the consumption bound, and `OutcomeCorrect`, the
  outcome against the reference, for every length and declared size.
- `WholeLock`: `LockIsWhole`, with every fault. Inductive is `NamedIsSynced`: whatever has
  a name in the visible directory or on disk is whole and was synced first, and so is
  what a process is about to rename.
- `ReportsSpare`: `ReportsSpareTheLock`. `Unpublished` says that a file that is not yet
  renamed has no name in any directory, and `Compared` that once a command whose report
  folds onto the lock's name has compared its destinations, that name leads to something
  other than its lock, which cannot come back. Assumed: no process is called `"directory"`,
  the model's word for the files of directories.
- `PublishedSelection`: the repository holds the selection, whatever the servers answer,
  the cache loses and other calls bind in between. `PreparationInvariant` says of each
  call what its plans (`PlansAreRight`) and the artifacts in its hands
  (`ArtifactsAreRight`) are for, package by package, and that a descriptor is bound to
  bytes of its digest (`BoundIsRight`).
- `ClosureCovered`: when the rounds have ended, the snapshots hold everything that is
  reachable in the registries. `ResolutionInvariant` says that a snapshot of an r-universe
  repository is the whole of it (`UniverseIsWhole`), that one of CRAN tells the truth
  about what it has (`CranIsTrue`), that what CRAN was asked for is in the snapshot or in
  the closure being collected (`AskedIsThere`, `AskedIsCollected`), that a round that asks
  for nothing new has nothing left to ask (`Settled`), or that no repository may answer for
  any root (`Undemanded`). That the walk over the snapshots is the walk over the
  registries goes by induction on its levels, through a least level at which they differ.

**`LockUpdateProofs`** (assumed: `UpdateAssumption`).

- `AnswersAreTheReferences`: an answer is a solution in the sense of the reference, and
  without a lock "no solution" is true. A set of releases that solves the request
  *assigns* one decision to each package of the solver, under whichever key it is asked
  for. `UpdateInvariant` says that decisions are possible ones with the dependencies the
  adapter gave (`DecisionsAreKnown`), that they agree with each other (`Agreeing`), and
  that no solution makes all the decisions of a conflict (`ConflictsAreReal`). A
  conflict that PubGrub learns is therefore real, and when nothing is left to try there
  is no solution. When nothing is pending the decisions are a solution, because the
  occupancy package makes the releases of one name one release. Preferences are a total
  order of a finite set, so that a choice always exists.
- `LocksAreReproduced`: `LocksReproduce`. The same request, resolved again against a later
  catalogue with the lock, selects the releases of the lock, under the preferring and
  under the exact policy. Assumed besides:
  `CataloguesGrow`, that a later catalogue still offers, in the same repositories, what an
  earlier one did, and that its releases can be loaded; when a release is withdrawn a lock
  cannot be reproduced. The property excludes the outcome of finding 3. `GoodLock` says
  what a written lock is: one package for each name, edges to packages of the lock,
  recorded repository requirements, everything reachable from the roots. `Fits` says that
  its releases are a solution of the catalogue in use, which remains so as the catalogue
  grows, and `AsLocked` that every decision is the one that the lock assigns, so that no
  conflict is ever learnt: a locked release is preferred under every key by which the
  solver asks for it. What `mark_reachable` keeps is followed by induction on its levels.

**`MetadataProofs`** (assumed: `RawAssumption`, `CranAssumption`, `UniverseAssumption`).

- `RevalidatedCurrent`: `RevalidatedIsCurrent`, for sessions that exclude each other. The
  invariant says that an entry's body is the one its entity tag names, and what a session
  holds at each step between its request and its answer (`RawCall`).
- `NoReleaseLost`: `NoReleaseVanishes`. `Ordered` puts the surfaces a refreshing session
  has read in the order in which they were read: the current index after the session
  began and the archive after the index, so that what left the first is in the second.
  `Complete` says that no answer lacks what the repository had at the beginning.
  `QualificationsAreRecent` is the action property `QualificationsExpire`.
- `OfferedAnswers` and `WholeCatalogues`, of the r-universe provider. The invariant says,
  for each call, which moments of the server the names and the packages it holds were
  taken from (`Fetching`), that a view in the store holds what its endpoint offered at
  such moments (`GoodView`), and that an answer is read off such a view (`Answered`).

**`GitCacheProofs`** (assumed: `GitAssumption`, that the sentinel `None` is not a call).
`WholeViews`, `StableAnswers`, `TrueDescriptions`, with kills, failures, power losses and
changes from outside. The invariant has what a call may conclude from the references it
saw (`Asking`), what is in the staging directory at each step of its holder (`Building`),
what was remembered of validated files (`Remembering`), and `WholeView`: a view has its
commit's files except those that something outside changed.

*Only model-checked*:

- liveness (`CallsReturn`, `EveryCallReturns`), which is out of the prover's reach;
- `ReasonsAreTrue`, which compares each explanation with an enumeration of the catalogue;
- `CompositionIsTheJoin` and `DigestsIdentifyIntents`, which are about folds over
  sequences of groups and sorted fields, hence induction over data.

## 7. Not modelled

- *CRAN catalogue and evidence, package descriptions, core vocabulary*: decoding of
  RDS and DCF documents, version syntax and order. The models take versions and
  constraints as numbers and sets of numbers, except `Manifest`, where the spelling of
  a version matters.
- *Formats and transport*: HTTP, JSON, TOML, tar, output, progress and metrics.
- *PubGrub and git*, which are external and modelled by their contract.
- *The other commands of the command line*, scripts and CI.
- Within the modelled components: directory layout and path syntax, permissions,
  platforms where directories cannot be synced, and the lazy decoding of histories in
  a generation, which is one flag. The raw cache and the
  qualification record are attached to a session only under the refresh lock
  (`refresher.rs:205`, `264-271`), so that sessions that use them do not overlap: `Serial`,
  and sessions that run one after the other, stand for that lock.
