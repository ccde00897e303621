-------------------------- MODULE Materialization --------------------------
(***************************************************************************)
(* Publication of a project repository by rsolve-repository: materialize,  *)
(* with the recovery it runs first (recover, reconstruct).                 *)
(*                                                                         *)
(* Any number of invocations of materialize work on one `.rsolve`          *)
(* directory.  They may be killed at any step, any of their I/O calls may  *)
(* fail, and the machine may lose power.  The directory is a function from *)
(* names to nodes; `images` holds every content of the directory that a    *)
(* power loss at this moment may leave behind, so that fsync and the lack  *)
(* of it are visible to the properties.                                    *)
(*                                                                         *)
(* Data: a selection is the set of selected artifacts and the digest of    *)
(* the PACKAGES index generated from their metadata.  A tree is the set of *)
(* archives in src/contrib and the digest of its PACKAGES file.            *)
(***************************************************************************)
CONSTANTS
  Invocations,     \* invocations of materialize; each is also the nonce of its temporaries
  Selections,      \* the requests: records [arts, index]
  WellFormed,      \* artifacts that pass the per-artifact checks of validate_inputs
  JournalOrdered,  \* TRUE: directory operations reach the disk in order
  MayKill,         \* an invocation may die between two steps
  MayFail,         \* an I/O call may return an error
  MayLosePower,    \* the machine may lose power
  Absent,          \* no node under this name
  Torn,            \* the selection read from an empty or partly written document
  NoIndex,         \* no PACKAGES file, or metadata that write_packages rejects
  Published,       \* the nonce of the names without a nonce
  NoOne            \* nobody holds the materialization lock

\* The switches are Boolean and the sentinels differ from what they stand beside.
ASSUME SwitchesAssumption ==
  {JournalOrdered, MayKill, MayFail, MayLosePower} \subseteq BOOLEAN

ASSUME NoOneAssumption == NoOne \notin Invocations

ASSUME TornAssumption == Torn \notin Selections

\* A selection is its artifacts and its index.
ASSUME SelectionsAssumption ==
  \A s, t \in Selections : s.arts = t.arts /\ s.index = t.index => s = t

VARIABLES
  fs,         \* the .rsolve directory as every process sees it
  images,     \* the directories that a power loss may leave
  gitignore,  \* .rsolve/.gitignore: "absent", "torn" or "ok"
  lock,       \* the holder of .materialization.lock
  pc,         \* the next step of every invocation
  req,        \* the selection every invocation was given
  result      \* what every invocation returned

vars == <<fs, images, gitignore, lock, pc, req, result>>

(***************************************************************************)
(* Names and nodes                                                         *)
(***************************************************************************)

State == <<"state", Published>>
Marker == <<"marker", Published>>
Repository == <<"repository", Published>>
StateTemp(n) == <<"stateTemp", n>>
MarkerTemp(n) == <<"markerTemp", n>>
Staging(n) == <<"staging", n>>

Names == {State, Marker, Repository} \cup {StateTemp(n) : n \in Invocations}
           \cup {MarkerTemp(n) : n \in Invocations} \cup {Staging(n) : n \in Invocations}

Artifacts == UNION {s.arts : s \in Selections}
Indexes == {s.index : s \in Selections} \cup {NoIndex}

\* materialization.toml, the transaction marker, and a repository tree.  A node
\* is synced when its own content can no longer be lost.
StateDocs == [sel : Selections \cup {Torn}, synced : BOOLEAN]
MarkerDocs == [sel : Selections \cup {Torn}, stateTemp : Invocations,
               staging : Invocations, synced : BOOLEAN]
Trees == [files : SUBSET Artifacts, index : Indexes, synced : BOOLEAN]

ASSUME AbsentAssumption == Absent \notin StateDocs \cup MarkerDocs \cup Trees \cup Selections

Nodes == {Absent} \cup StateDocs \cup MarkerDocs \cup Trees

NodesOf(x) ==
  {Absent} \cup IF x[1] \in {"state", "stateTemp"} THEN StateDocs
                ELSE IF x[1] \in {"marker", "markerTemp"} THEN MarkerDocs
                ELSE Trees

IsDirectory(d) == d \in [Names -> Nodes] /\ \A x \in Names : d[x] \in NodesOf(x)

Exists(d, x) == d[x] # Absent

\* partial_paths: the temporaries of each kind in directory d.
StateTemps(d) == {n \in Invocations : Exists(d, StateTemp(n))}
MarkerTemps(d) == {n \in Invocations : Exists(d, MarkerTemp(n))}
Stagings(d) == {n \in Invocations : Exists(d, Staging(n))}

TheOnly(nonces) == CHOOSE n \in nonces : TRUE

(***************************************************************************)
(* What the file system does (external)                                    *)
(***************************************************************************)

Apply(im, upd) == [x \in Names |-> IF x \in DOMAIN upd THEN upd[x] ELSE im[x]]

\* A create, rename or remove.  It is durable in any order with the other
\* directory operations since the last fsync, or in their order on a journal.
DirectoryOperation(upd) ==
  /\ fs' = Apply(fs, upd)
  /\ images' = images \cup IF JournalOrdered
                           THEN {Apply(fs, upd)}
                           ELSE {Apply(im, upd) : im \in images}

\* A write to, or an fsync of, the node called x: wherever the directory entry
\* survives, it is this node.
WriteNode(x, node) ==
  /\ fs' = [fs EXCEPT ![x] = node]
  /\ images' = {IF im[x] = Absent THEN im ELSE [im EXCEPT ![x] = node] : im \in images}

\* sync_directory of .rsolve.
SyncRsolve == images' = {fs} /\ UNCHANGED fs

Rename(from, to) == DirectoryOperation([x \in {from, to} |-> IF x = to THEN fs[from] ELSE Absent])
Create(x, node) == DirectoryOperation([y \in {x} |-> node])
Remove(x) == DirectoryOperation([y \in {x} |-> Absent])

Unsynced(im) == {x \in Names : im[x] # Absent /\ ~im[x].synced}

\* The directory found after a power loss that kept image im and lost the
\* content of the nodes in lost.
Settle(im, lost) ==
  [x \in Names |->
     IF im[x] = Absent THEN Absent
     ELSE IF x \notin lost THEN [im[x] EXCEPT !.synced = TRUE]
     ELSE IF x[1] \in {"repository", "staging"}
          THEN [files |-> {}, index |-> NoIndex, synced |-> TRUE]
          ELSE [im[x] EXCEPT !.sel = Torn, !.synced = TRUE]]

(***************************************************************************)
(* The checks of materialize, recover and reconstruct                      *)
(***************************************************************************)

\* validate_inputs: every artifact is well formed, no two share a package.
ValidInputs(s) ==
  /\ s.arts \subseteq WellFormed
  /\ \A a, b \in s.arts : a.package = b.package => a = b

\* records_match_requested, and the comparison of the records of two documents.
RecordsMatch(sel, s) == sel # Torn /\ sel.arts = s.arts

\* validate_index_digest: the request's own index is generated again.
IndexMatches(sel, s) == s.index # NoIndex /\ sel.index = s.index

\* validate_repository_contents
ContentsValid(tree, sel) == tree.files = sel.arts /\ tree.index = sel.index

\* state_matches
StateMatches(doc, tx, s) ==
  /\ RecordsMatch(doc.sel, s)
  /\ doc.sel = tx.sel

\* recover with a marker in directory d: all the validation before the first
\* rename, for the request s.
Recoverable(d, s) ==
  LET tx == d[Marker]
      temps == StateTemps(d)
      temp == d[StateTemp(tx.stateTemp)]
  IN /\ MarkerTemps(d) = {}
     /\ RecordsMatch(tx.sel, s)
     /\ IndexMatches(tx.sel, s)
     /\ Stagings(d) \subseteq {tx.staging}
     /\ Exists(d, Repository) # Exists(d, Staging(tx.staging))
     /\ IF Exists(d, State) /\ temps = {}
        THEN StateMatches(d[State], tx, s)
        ELSE /\ temps = {tx.stateTemp}
             /\ StateMatches(temp, tx, s)
             /\ Exists(d, State) => d[State].sel = temp.sel
     /\ LET tree == IF Exists(d, Repository) THEN d[Repository] ELSE d[Staging(tx.staging)]
        IN ContentsValid(tree, tx.sel)

NoTemporaries(d) == StateTemps(d) = {} /\ MarkerTemps(d) = {} /\ Stagings(d) = {}

\* reconstruct: the temporaries of one transaction that was interrupted before
\* its marker was published.
Reconstructible(d, s) ==
  /\ \E n \in Invocations : StateTemps(d) = {n}
  /\ \E n \in Invocations : Stagings(d) = {n}
  /\ MarkerTemps(d) = {} \/ \E n \in Invocations : MarkerTemps(d) = {n}
  /\ LET st == TheOnly(StateTemps(d))
         sg == TheOnly(Stagings(d))
         sel == d[StateTemp(st)].sel
     IN /\ RecordsMatch(sel, s)
        /\ \A m \in MarkerTemps(d) :
              LET tx == d[MarkerTemp(m)]
              IN tx.stateTemp = st /\ tx.staging = sg /\ tx.sel = sel
        /\ IndexMatches(sel, s)
        /\ ContentsValid(d[Staging(sg)], sel)

\* Mutant: the index of an existing project is not compared.
ExistingIgnoringIndex(d, s) ==
  /\ RecordsMatch(d[State].sel, s)
  /\ Exists(d, Repository)
  /\ d[Repository].files = s.arts

\* validate_existing_state, the index comparison and validate_repository_contents.
ExistingMatches(d, s) ==
  /\ RecordsMatch(d[State].sel, s)
  /\ IndexMatches(d[State].sel, s)
  /\ Exists(d, Repository)
  /\ ContentsValid(d[Repository], s)

(***************************************************************************)
(* Steps                                                                   *)
(***************************************************************************)

GitSteps == {"gitCheck", "gitOpen", "gitWrite"}

\* The steps of recover and reconstruct.
RecoverySteps == {"recover", "recCreate", "recWrite", "recRename", "recMarkerSync",
                  "recPublish", "recPublishSync", "recState", "recStateSync",
                  "recUnmark", "recUnmarkSync"}

\* The steps of materialize whose error path removes the invocation's temporaries.
BuildSteps == {"mkStaging", "copy", "packages", "syncStaging", "stateCreate",
               "stateWrite", "markerCreate", "markerWrite", "markerRename"}

\* The steps of materialize whose error path leaves the directory as it is.
CommitSteps == {"markerSync", "publish", "publishSync", "commit", "commitSync",
                "unmark", "unmarkSync"}

LockedSteps == {"validate", "existing", "clean"} \cup RecoverySteps \cup BuildSteps \cup CommitSteps

Steps == {"idle", "lock", "done"} \cup GitSteps \cup LockedSteps

\* "ok" for a call that published the project, "found" for the validated no-op.
Results == {"none", "ok", "found", "conflict", "invalid", "io", "killed"}

Active(i) == pc[i] \notin {"idle", "done"}

Goto(i, from, to) ==
  /\ pc[i] = from
  /\ pc' = [pc EXCEPT ![i] = to]
  /\ UNCHANGED <<gitignore, lock, req, result>>

\* Mutant: the lock outlives the call.
ReturnHoldingLock(i, outcome) ==
  /\ pc' = [pc EXCEPT ![i] = "done"]
  /\ result' = [result EXCEPT ![i] = outcome]
  /\ UNCHANGED <<gitignore, lock, req>>

\* Leaving materialize closes the lock file.
Return(i, outcome) ==
  /\ pc' = [pc EXCEPT ![i] = "done"]
  /\ result' = [result EXCEPT ![i] = outcome]
  /\ lock' = IF lock = i THEN NoOne ELSE lock
  /\ UNCHANGED <<gitignore, req>>

(***************************************************************************)
(* The entry of materialize, before the lock                               *)
(***************************************************************************)

Start(i) ==
  /\ pc[i] = "idle"
  /\ pc' = [pc EXCEPT ![i] = "gitCheck"]
  /\ UNCHANGED <<fs, images, gitignore, lock, req, result>>

\* ensure_gitignore reads the file, and creates it only when it did not exist.
GitCheck(i) ==
  /\ pc[i] = "gitCheck"
  /\ \/ gitignore = "absent" /\ Goto(i, "gitCheck", "gitOpen")
     \/ gitignore = "ok" /\ Goto(i, "gitCheck", "lock")
     \/ gitignore = "torn" /\ Return(i, "invalid")
  /\ UNCHANGED <<fs, images>>

\* fs::write truncates the file, whoever created it meanwhile, then fills it.
GitOpen(i) ==
  /\ pc[i] = "gitOpen"
  /\ pc' = [pc EXCEPT ![i] = "gitWrite"]
  /\ gitignore' = "torn"
  /\ UNCHANGED <<fs, images, lock, req, result>>

GitWrite(i) ==
  /\ pc[i] = "gitWrite"
  /\ pc' = [pc EXCEPT ![i] = "lock"]
  /\ gitignore' = "ok"
  /\ UNCHANGED <<fs, images, lock, req, result>>

Lock(i) ==
  /\ pc[i] = "lock"
  /\ lock = NoOne
  /\ lock' = i
  /\ pc' = [pc EXCEPT ![i] = "validate"]
  /\ UNCHANGED <<fs, images, gitignore, req, result>>

Validate(i) ==
  /\ pc[i] = "validate"
  /\ \/ ValidInputs(req[i]) /\ Goto(i, "validate", "recover")
     \/ ~ValidInputs(req[i]) /\ Return(i, "invalid")
  /\ UNCHANGED <<fs, images>>

(***************************************************************************)
(* recover and reconstruct                                                 *)
(***************************************************************************)

AfterRepository == IF StateTemps(fs) # {} THEN "recState" ELSE "recUnmark"

Recover(i) ==
  /\ pc[i] = "recover"
  /\ UNCHANGED <<fs, images>>
  /\ IF Exists(fs, Marker)
     THEN \/ /\ Recoverable(fs, req[i])
             /\ Goto(i, "recover", IF Exists(fs, Repository) THEN AfterRepository ELSE "recPublish")
          \/ ~Recoverable(fs, req[i]) /\ Return(i, "conflict")
     ELSE \/ NoTemporaries(fs) /\ Goto(i, "recover", "existing")
          \/ /\ Reconstructible(fs, req[i])
             /\ Goto(i, "recover", IF MarkerTemps(fs) = {} THEN "recCreate" ELSE "recRename")
          \/ ~NoTemporaries(fs) /\ ~Reconstructible(fs, req[i]) /\ Return(i, "conflict")

\* write_transaction_temp of reconstruct: create_new, then write_all and sync_all.
RecCreate(i) ==
  /\ Goto(i, "recCreate", "recWrite")
  /\ Create(MarkerTemp(i), [sel |-> Torn, stateTemp |-> TheOnly(StateTemps(fs)),
                            staging |-> TheOnly(Stagings(fs)), synced |-> FALSE])

RecWrite(i) ==
  /\ Goto(i, "recWrite", "recRename")
  /\ WriteNode(MarkerTemp(i), [fs[MarkerTemp(i)] EXCEPT
                                 !.sel = fs[StateTemp(TheOnly(StateTemps(fs)))].sel,
                                 !.synced = TRUE])

RecRename(i) ==
  /\ Goto(i, "recRename", "recMarkerSync")
  /\ Rename(MarkerTemp(TheOnly(MarkerTemps(fs))), Marker)

\* reconstruct returned true: recover calls itself.
RecMarkerSync(i) == Goto(i, "recMarkerSync", "recover") /\ SyncRsolve

RecPublish(i) ==
  /\ Goto(i, "recPublish", "recPublishSync")
  /\ Rename(Staging(fs[Marker].staging), Repository)

RecPublishSync(i) == Goto(i, "recPublishSync", AfterRepository) /\ SyncRsolve

\* A temporary beside a committed state is removed, else it becomes the state.
RecState(i) ==
  LET temp == StateTemp(fs[Marker].stateTemp)
  IN IF Exists(fs, State)
     THEN Goto(i, "recState", "recUnmark") /\ Remove(temp)
     ELSE Goto(i, "recState", "recStateSync") /\ Rename(temp, State)

RecStateSync(i) == Goto(i, "recStateSync", "recUnmark") /\ SyncRsolve

RecUnmark(i) == Goto(i, "recUnmark", "recUnmarkSync") /\ Remove(Marker)

RecUnmarkSync(i) == Goto(i, "recUnmarkSync", "existing") /\ SyncRsolve

(***************************************************************************)
(* The rest of materialize                                                 *)
(***************************************************************************)

\* A committed state makes the call a validated no-op or a conflict.  The index
\* is generated before staging exists, so bad metadata leaves no residue.
Existing(i) ==
  /\ pc[i] = "existing"
  /\ UNCHANGED <<fs, images>>
  /\ \/ Exists(fs, State) /\ Return(i, IF ExistingMatches(fs, req[i]) THEN "found" ELSE "conflict")
     \/ ~Exists(fs, State) /\ Exists(fs, Repository) /\ Return(i, "conflict")
     \/ /\ ~Exists(fs, State) /\ ~Exists(fs, Repository)
        /\ IF req[i].index = NoIndex THEN Return(i, "invalid")
           ELSE Goto(i, "existing", "mkStaging")

MkStaging(i) ==
  /\ Goto(i, "mkStaging", "copy")
  /\ Create(Staging(i), [files |-> {}, index |-> NoIndex, synced |-> FALSE])

\* materialize_files: one archive at a time, in some order.
Copy(i) ==
  /\ pc[i] = "copy"
  /\ \/ /\ \E a \in req[i].arts \ fs[Staging(i)].files :
             WriteNode(Staging(i), [fs[Staging(i)] EXCEPT !.files = @ \cup {a}])
        /\ Goto(i, "copy", "copy")
     \/ /\ fs[Staging(i)].files = req[i].arts
        /\ Goto(i, "copy", "packages")
        /\ UNCHANGED <<fs, images>>

WritePackages(i) ==
  /\ Goto(i, "packages", "syncStaging")
  /\ WriteNode(Staging(i), [fs[Staging(i)] EXCEPT !.index = req[i].index])

\* Mutant: the staged tree is not synced.
SyncStagingSkipped(i) == Goto(i, "syncStaging", "stateCreate") /\ UNCHANGED <<fs, images>>

\* sync_all of PACKAGES, sync_directory of src/contrib and of the staging directory.
SyncStaging(i) ==
  /\ Goto(i, "syncStaging", "stateCreate")
  /\ WriteNode(Staging(i), [fs[Staging(i)] EXCEPT !.synced = TRUE])

\* write_state_temp
StateCreate(i) ==
  /\ Goto(i, "stateCreate", "stateWrite")
  /\ Create(StateTemp(i), [sel |-> Torn, synced |-> FALSE])

\* Mutant: the state temporary is written and not synced.
StateWriteUnsynced(i) ==
  /\ Goto(i, "stateWrite", "markerCreate")
  /\ WriteNode(StateTemp(i), [sel |-> req[i], synced |-> FALSE])

StateWrite(i) ==
  /\ Goto(i, "stateWrite", "markerCreate")
  /\ WriteNode(StateTemp(i), [sel |-> req[i], synced |-> TRUE])

\* write_transaction_temp
MarkerCreate(i) ==
  /\ Goto(i, "markerCreate", "markerWrite")
  /\ Create(MarkerTemp(i), [sel |-> Torn, stateTemp |-> i, staging |-> i, synced |-> FALSE])

MarkerWrite(i) ==
  /\ Goto(i, "markerWrite", "markerRename")
  /\ WriteNode(MarkerTemp(i), [sel |-> req[i], stateTemp |-> i, staging |-> i, synced |-> TRUE])

MarkerRename(i) ==
  /\ Goto(i, "markerRename", "markerSync")
  /\ Rename(MarkerTemp(i), Marker)

MarkerSync(i) == Goto(i, "markerSync", "publish") /\ SyncRsolve

Publish(i) == Goto(i, "publish", "publishSync") /\ Rename(Staging(i), Repository)

\* Mutant: the repository is not made durable before the state.
PublishSyncSkipped(i) == Goto(i, "publishSync", "commit") /\ UNCHANGED <<fs, images>>

PublishSync(i) == Goto(i, "publishSync", "commit") /\ SyncRsolve

Commit(i) == Goto(i, "commit", "commitSync") /\ Rename(StateTemp(i), State)

CommitSync(i) == Goto(i, "commitSync", "unmark") /\ SyncRsolve

Unmark(i) == Goto(i, "unmark", "unmarkSync") /\ Remove(Marker)

UnmarkSync(i) == pc[i] = "unmarkSync" /\ SyncRsolve /\ Return(i, "ok")

\* Mutant: the error path forgets the state temporary.
CleanStagingOnly(i) ==
  \/ Exists(fs, Staging(i)) /\ Goto(i, "clean", "clean") /\ Remove(Staging(i))
  \/ ~Exists(fs, Staging(i)) /\ pc[i] = "clean" /\ Return(i, "io") /\ UNCHANGED <<fs, images>>

\* An error before the marker is published: the temporaries of this invocation
\* are removed, newest first, and the error is returned.
Clean(i) ==
  LET mine == {x \in {MarkerTemp(i), StateTemp(i), Staging(i)} : Exists(fs, x)}
  IN \/ MarkerTemp(i) \in mine /\ Goto(i, "clean", "clean") /\ Remove(MarkerTemp(i))
     \/ /\ MarkerTemp(i) \notin mine /\ StateTemp(i) \in mine
        /\ Goto(i, "clean", "clean") /\ Remove(StateTemp(i))
     \/ mine = {Staging(i)} /\ Goto(i, "clean", "clean") /\ Remove(Staging(i))
     \/ mine = {} /\ pc[i] = "clean" /\ Return(i, "io") /\ UNCHANGED <<fs, images>>

(***************************************************************************)
(* The environment (external)                                              *)
(***************************************************************************)

\* One I/O call fails.  A failed write of a temporary removes it (write_temp); a
\* failed step of recover, or after the marker rename, leaves everything.
IoFails(i) ==
  /\ MayFail
  /\ pc[i] \in (GitSteps \cup {"lock"} \cup LockedSteps) \ {"validate", "clean"}
  /\ IF pc[i] \in BuildSteps \cup {"recWrite"}
     THEN Goto(i, pc[i], "clean")
     ELSE Return(i, "io")
  /\ UNCHANGED <<fs, images>>

\* The process dies; the kernel releases its lock and keeps the directory.
Kill(i) ==
  /\ MayKill
  /\ Active(i)
  /\ Return(i, "killed")
  /\ UNCHANGED <<fs, images>>

PowerLoss ==
  /\ MayLosePower
  /\ \E im \in images : \E lost \in SUBSET Unsynced(im) :
        /\ fs' = Settle(im, lost)
        /\ images' = {Settle(im, lost)}
  /\ gitignore' \in IF gitignore = "absent" THEN {"absent"} ELSE {"absent", "torn", gitignore}
  /\ lock' = NoOne
  /\ pc' = [i \in Invocations |-> IF Active(i) THEN "done" ELSE pc[i]]
  /\ result' = [i \in Invocations |-> IF Active(i) THEN "killed" ELSE result[i]]
  /\ UNCHANGED req

(***************************************************************************)
(* The specification                                                       *)
(***************************************************************************)

EmptyDirectory == [x \in Names |-> Absent]

Init ==
  /\ fs = EmptyDirectory
  /\ images = {EmptyDirectory}
  /\ gitignore = "absent"
  /\ lock = NoOne
  /\ pc = [i \in Invocations |-> "idle"]
  /\ req \in [Invocations -> Selections]
  /\ result = [i \in Invocations |-> "none"]

Entry(i) == Start(i) \/ GitCheck(i) \/ GitOpen(i) \/ GitWrite(i) \/ Lock(i) \/ Validate(i)

Recovery(i) ==
  \/ Recover(i) \/ RecCreate(i) \/ RecWrite(i) \/ RecRename(i) \/ RecMarkerSync(i)
  \/ RecPublish(i) \/ RecPublishSync(i) \/ RecState(i) \/ RecStateSync(i)
  \/ RecUnmark(i) \/ RecUnmarkSync(i)

Build(i) ==
  \/ Existing(i) \/ MkStaging(i) \/ Copy(i) \/ WritePackages(i) \/ SyncStaging(i)
  \/ StateCreate(i) \/ StateWrite(i) \/ MarkerCreate(i) \/ MarkerWrite(i)
  \/ MarkerRename(i) \/ Clean(i)

Finish(i) ==
  \/ MarkerSync(i) \/ Publish(i) \/ PublishSync(i) \/ Commit(i) \/ CommitSync(i)
  \/ Unmark(i) \/ UnmarkSync(i)

Step(i) == Entry(i) \/ Recovery(i) \/ Build(i) \/ Finish(i)

Next ==
  \/ \E i \in Invocations : Step(i) \/ IoFails(i) \/ Kill(i)
  \/ PowerLoss

Spec == Init /\ [][Next]_vars

\* An invocation that was started keeps running; the blocking file lock is
\* granted to one of those that wait for it.
FairSpec == Spec /\ \A i \in Invocations : WF_vars(Step(i) /\ pc[i] # "idle")

(***************************************************************************)
(* Properties                                                              *)
(***************************************************************************)

\* Types of the variables.
TypeOK ==
  /\ fs \in images
  /\ \A d \in images : IsDirectory(d)
  /\ gitignore \in {"absent", "torn", "ok"}
  /\ lock \in Invocations \cup {NoOne}
  /\ pc \in [Invocations -> Steps]
  /\ req \in [Invocations -> Selections]
  /\ result \in [Invocations -> Results]

\* The name `repository` never leads to a partial tree, neither now nor after a
\* power loss: materialize renames only complete, synced trees to it.
RepositoryNeverPartial ==
  \A d \in images : Exists(d, Repository) =>
     /\ d[Repository].synced
     /\ \E s \in Selections : ContentsValid(d[Repository], s)

\* A committed state describes the repository beside it, even in a directory left
\* by a power loss: the state is published after the repository it describes.
StateImpliesRepository ==
  \A d \in images : Exists(d, State) =>
     /\ d[State].sel # Torn
     /\ Exists(d, Repository)
     /\ ContentsValid(d[Repository], d[State].sel)

\* Once the marker is published, wherever the invocation stops or the power fails,
\* recover accepts the directory for the selection the marker names.
InterruptedIsRecoverable ==
  \A d \in images : Exists(d, Marker) =>
     /\ d[Marker].sel # Torn
     /\ Recoverable(d, d[Marker].sel)

\* The error paths of materialize remove what the invocation created: unless a
\* process was killed or the power failed, no temporaries are left without a marker.
FailuresLeaveNoOrphans ==
  lock = NoOne /\ ~Exists(fs, Marker) => NoTemporaries(fs)

\* Every call returns, or dies: no two invocations wait for each other.
EveryCallReturns == \A i \in Invocations : pc[i] # "idle" ~> pc[i] = "done"

(***************************************************************************)
(* What the module promises, as the specification ProjectView              *)
(***************************************************************************)

\* A fresh invocation for s on directory d finishes the work for s, or finds it done.
Serves(d, s) ==
  IF Exists(d, Marker) THEN Recoverable(d, s)
  ELSE NoTemporaries(d) /\ Exists(d, State) /\ ExistingMatches(d, s)

\* The selection the project is bound to, whatever happens from now on.
BoundSelection ==
  LET served == {s \in Selections : \A d \in images : Serves(d, s)}
  IN IF served = {} THEN Absent ELSE CHOOSE s \in served : TRUE

\* The selection the directory shows: what the next invocation is led to.
ShownSelection ==
  LET served == {s \in Selections : Serves(fs, s)}
  IN IF served = {} THEN Absent ELSE CHOOSE s \in served : TRUE

Answer(outcome) ==
  CASE outcome = "none" -> "none"
    [] outcome = "ok" -> "published"
    [] outcome = "found" -> "found"
    [] OTHER -> "failed"

Replies == [i \in Invocations |-> Answer(result[i])]

\* What materialize is bound to, it stays bound to, whoever is killed and whatever
\* fails; and it is only ever bound to what some invocation was asked for.
BindingIsForEver ==
  [][\/ BoundSelection' = BoundSelection
     \/ BoundSelection = Absent /\ \E i \in Invocations : BoundSelection' = req[i]]_vars

View == INSTANCE ProjectView WITH
  Callers <- Invocations, Selections <- Selections, Nothing <- Absent,
  view <- BoundSelection, seen <- ShownSelection, want <- req, reply <- Replies

\* materialize implements the write-once view of ProjectView, whoever is killed and
\* whatever fails: the project is bound to one selection for ever, a caller is told
\* that its call published the project only when that binding is durable, and that
\* it found the project only when the directory shows its selection.
ImplementsProjectView == View!Spec
=============================================================================
