--------------------- MODULE MaterializationInvariant ---------------------
(***************************************************************************)
(* The inductive invariants of Materialization.                            *)
(*                                                                         *)
(* On a file system that makes directory operations durable in their       *)
(* order, every directory that exists now or may be left by a power loss   *)
(* is in one of ten phases of a single transaction; the step of the        *)
(* invocation that holds the lock fixes the phase of the current           *)
(* directory.  On any other file system only the calls of fsync order what *)
(* becomes durable, and the last section says what they guarantee.         *)
(***************************************************************************)
EXTENDS Materialization

\* Which names of directory d are taken: the three published ones, and the
\* nonces of the temporaries.
Shape(d, state, marker, repository, stateTemps, markerTemps, stagings) ==
  /\ Exists(d, State) <=> state
  /\ Exists(d, Marker) <=> marker
  /\ Exists(d, Repository) <=> repository
  /\ StateTemps(d) = stateTemps
  /\ MarkerTemps(d) = markerTemps
  /\ Stagings(d) = stagings

Complete(tree, s) == tree.synced /\ ContentsValid(tree, s)
Written(doc, s) == doc.synced /\ doc.sel = s
Binds(tx, n, s) == Written(tx, s) /\ tx.stateTemp = n /\ tx.staging = n

\* The phases.  n is the invocation that prepared the transaction, m the one
\* that writes the marker, s the selection.
Empty(d) == Shape(d, FALSE, FALSE, FALSE, {}, {}, {})

Staged(d, n) == Shape(d, FALSE, FALSE, FALSE, {}, {}, {n})

StateOpened(d, n, s) ==
  /\ Shape(d, FALSE, FALSE, FALSE, {n}, {}, {n})
  /\ Complete(d[Staging(n)], s)
  /\ d[StateTemp(n)].sel = Torn

StatePrepared(d, n, s) ==
  /\ Shape(d, FALSE, FALSE, FALSE, {n}, {}, {n})
  /\ Complete(d[Staging(n)], s)
  /\ Written(d[StateTemp(n)], s)

MarkerOpened(d, n, m, s) ==
  /\ Shape(d, FALSE, FALSE, FALSE, {n}, {m}, {n})
  /\ Complete(d[Staging(n)], s)
  /\ Written(d[StateTemp(n)], s)
  /\ d[MarkerTemp(m)].sel = Torn
  /\ d[MarkerTemp(m)].stateTemp = n
  /\ d[MarkerTemp(m)].staging = n

MarkerPrepared(d, n, m, s) ==
  /\ Shape(d, FALSE, FALSE, FALSE, {n}, {m}, {n})
  /\ Complete(d[Staging(n)], s)
  /\ Written(d[StateTemp(n)], s)
  /\ Binds(d[MarkerTemp(m)], n, s)

Marked(d, n, s) ==
  /\ Shape(d, FALSE, TRUE, FALSE, {n}, {}, {n})
  /\ Complete(d[Staging(n)], s)
  /\ Written(d[StateTemp(n)], s)
  /\ Binds(d[Marker], n, s)

Exposed(d, n, s) ==
  /\ Shape(d, FALSE, TRUE, TRUE, {n}, {}, {})
  /\ Complete(d[Repository], s)
  /\ Written(d[StateTemp(n)], s)
  /\ Binds(d[Marker], n, s)

Committed(d, n, s) ==
  /\ Shape(d, TRUE, TRUE, TRUE, {}, {}, {})
  /\ Complete(d[Repository], s)
  /\ Written(d[State], s)
  /\ Binds(d[Marker], n, s)

Finished(d, s) ==
  /\ Shape(d, TRUE, FALSE, TRUE, {}, {}, {})
  /\ Complete(d[Repository], s)
  /\ Written(d[State], s)

Indexed == {s \in Selections : s.index # NoIndex}

Legal(d) ==
  \/ Empty(d)
  \/ \E n \in Invocations : Staged(d, n)
  \/ \E n \in Invocations, s \in Indexed :
       \/ StateOpened(d, n, s) \/ StatePrepared(d, n, s)
       \/ Marked(d, n, s) \/ Exposed(d, n, s) \/ Committed(d, n, s)
  \/ \E n \in Invocations, m \in Invocations, s \in Indexed :
       MarkerOpened(d, n, m, s) \/ MarkerPrepared(d, n, m, s)
  \/ \E s \in Indexed : Finished(d, s)

\* The phase of the current directory at each step of invocation i.
AtRecovery(i) ==
  /\ pc[i] = "recCreate" =>
       \E n \in Invocations, s \in Indexed : StatePrepared(fs, n, s)
  /\ pc[i] = "recWrite" =>
       \E n \in Invocations, s \in Indexed : MarkerOpened(fs, n, i, s)
  /\ pc[i] = "recRename" =>
       \E n \in Invocations, m \in Invocations, s \in Indexed : MarkerPrepared(fs, n, m, s)
  /\ pc[i] \in {"recMarkerSync", "recPublish"} =>
       \E n \in Invocations, s \in Indexed : Marked(fs, n, s)
  /\ pc[i] \in {"recPublishSync", "recState"} =>
       \E n \in Invocations, s \in Indexed : Exposed(fs, n, s)
  /\ pc[i] \in {"recStateSync", "recUnmark"} =>
       \E n \in Invocations, s \in Indexed : Committed(fs, n, s)
  /\ pc[i] = "recUnmarkSync" => \E s \in Indexed : Finished(fs, s)

AtBuild(i) ==
  /\ pc[i] = "existing" => Empty(fs) \/ \E s \in Indexed : Finished(fs, s)
  /\ pc[i] = "mkStaging" => Empty(fs)
  /\ pc[i] \in {"copy", "packages", "syncStaging", "stateCreate"} => Staged(fs, i)
  /\ pc[i] \in {"packages", "syncStaging", "stateCreate"} => fs[Staging(i)].files = req[i].arts
  /\ pc[i] \in {"syncStaging", "stateCreate"} => fs[Staging(i)].index = req[i].index
  /\ pc[i] = "stateCreate" => fs[Staging(i)].synced
  /\ pc[i] = "stateWrite" => StateOpened(fs, i, req[i])
  /\ pc[i] = "markerCreate" => StatePrepared(fs, i, req[i])
  /\ pc[i] = "markerWrite" => MarkerOpened(fs, i, i, req[i])
  /\ pc[i] = "markerRename" => MarkerPrepared(fs, i, i, req[i])
  /\ pc[i] = "clean" => ~Exists(fs, Marker) /\ MarkerTemps(fs) \subseteq {i}

AtCommit(i) ==
  /\ pc[i] \in {"markerSync", "publish"} => Marked(fs, i, req[i])
  /\ pc[i] \in {"publishSync", "commit"} => Exposed(fs, i, req[i])
  /\ pc[i] \in {"commitSync", "unmark"} => Committed(fs, i, req[i])
  /\ pc[i] = "unmarkSync" => Finished(fs, req[i])

Phases(i) ==
  /\ AtRecovery(i) /\ AtBuild(i) /\ AtCommit(i)
  /\ pc[i] \in BuildSteps \cup CommitSteps => req[i] \in Indexed

\* Steps after which the temporaries of each kind may exist.
BeforeStaging == {"idle", "lock", "validate", "existing", "mkStaging"} \cup GitSteps \cup RecoverySteps
BeforeStateTemp == BeforeStaging \cup {"copy", "packages", "syncStaging", "stateCreate"}
BeforeMarkerTemp ==
  (BeforeStateTemp \cup {"stateWrite", "markerCreate"}) \ {"recWrite", "recRename", "recMarkerSync"}

\* A nonce is unused until its owner uses it, and while the owner still writes a
\* temporary, the only directory with that temporary is the current one.
Ownership(i) ==
  \A d \in images :
    /\ pc[i] \in BeforeStaging => ~Exists(d, Staging(i))
    /\ pc[i] \in BeforeStateTemp => ~Exists(d, StateTemp(i))
    /\ pc[i] \in BeforeMarkerTemp => ~Exists(d, MarkerTemp(i))
    /\ pc[i] \in {"copy", "packages", "syncStaging"} /\ Exists(d, Staging(i)) => d = fs
    /\ pc[i] = "stateWrite" /\ Exists(d, StateTemp(i)) => d = fs
    /\ pc[i] \in {"markerWrite", "recWrite"} /\ Exists(d, MarkerTemp(i)) => d = fs

\* Only the holder of the lock is past it.
Exclusion == \A i \in Invocations : pc[i] \in LockedSteps => lock = i

\* Every directory that exists now or after a power loss is in a legal phase, and
\* the current one is in the phase that the lock holder's step calls for.
DirectoryPhases ==
  /\ Exclusion
  /\ \A d \in images : Legal(d)
  /\ \A i \in Invocations : Phases(i) /\ Ownership(i)

(***************************************************************************)
(* What the refinement of ProjectView adds                                 *)
(***************************************************************************)

\* Recovery, or validation, of directory d ends with selection s published.
BoundTo(d, s) ==
  \/ Finished(d, s)
  \/ \E n \in Invocations : Marked(d, n, s) \/ Exposed(d, n, s) \/ Committed(d, n, s)

\* Every document in directory d is torn or holds the selection of some invocation.
Documents == {State, Marker} \cup {StateTemp(n) : n \in Invocations}
               \cup {MarkerTemp(n) : n \in Invocations}

Asked(d) ==
  \A x \in Documents : Exists(d, x) =>
    d[x].sel = Torn \/ \E i \in Invocations : d[x].sel = req[i]

\* Once its marker is synced, the selection of an invocation that goes on is what
\* every such directory is bound to; only those that are done have a result.
Progress(i) ==
  /\ result[i] = "none" <=> pc[i] # "done"
  /\ pc[i] \in CommitSteps \ {"markerSync"} => \A d \in images : BoundTo(d, req[i])

\* What a power loss may leave, the current directory leads to already.
ShownBeforeBound ==
  \A d \in images, s \in Indexed : BoundTo(d, s) => BoundTo(fs, s)

ViewInvariant ==
  /\ \A d \in images : Asked(d)
  /\ \A i \in Invocations : Progress(i)
  /\ ShownBeforeBound

\* When calls end only by returning or by a power loss: between transactions the
\* current directory is durable.
QuietSteps == {"validate", "recover", "existing"}

Durable ==
  /\ \A i \in Invocations : pc[i] # "clean"
  /\ (\A i \in Invocations : pc[i] \in LockedSteps => pc[i] \in QuietSteps) => images = {fs}

\* Whoever was told that the project is there, was told what is durable: published
\* or found, the project is bound to the selection of the call.
AnswersAreDurable ==
  \A i \in Invocations : result[i] \in {"ok", "found"} => BoundSelection = req[i]

(***************************************************************************)
(* What the error paths add                                                *)
(***************************************************************************)

Temporaries(d) == StateTemps(d) \cup MarkerTemps(d) \cup Stagings(d)

\* When nobody is killed and the power stays on: a temporary without a marker
\* belongs to an invocation that will publish or remove it, and nobody finds one
\* to reconstruct from.
TemporariesOwned ==
  /\ \A i \in Invocations : pc[i] \notin {"recCreate", "recWrite", "recRename", "recMarkerSync"}
  /\ \A n \in Temporaries(fs) : ~Exists(fs, Marker) => pc[n] \in BuildSteps \cup {"clean"}

(***************************************************************************)
(* What holds whatever the order in which operations become durable        *)
(***************************************************************************)

\* Names of the current directory whose content may still be lost.
SyncedExcept(names) == \A x \in Names \ names : Exists(fs, x) => fs[x].synced

\* A tree that is not synced comes before every document about it.
UnsyncedTreesAreAlone ==
  \A n \in Invocations : Exists(fs, Staging(n)) /\ ~fs[Staging(n)].synced =>
    StateTemps(fs) = {} /\ ~Exists(fs, Marker)

\* The tree that invocation i is to expose, at each of its steps.
TreeAtBuild(i) ==
  /\ pc[i] = "existing" =>
       Exists(fs, State) \/ (NoTemporaries(fs) /\ ~Exists(fs, Marker))
  /\ pc[i] = "mkStaging" => NoTemporaries(fs) /\ ~Exists(fs, Marker)
  /\ pc[i] \in {"copy", "packages", "syncStaging", "stateCreate"} =>
       Stagings(fs) = {i} /\ StateTemps(fs) = {} /\ ~Exists(fs, Marker)
  /\ pc[i] \in {"packages", "syncStaging", "stateCreate"} => fs[Staging(i)].files = req[i].arts
  /\ pc[i] \in {"syncStaging", "stateCreate"} => fs[Staging(i)].index = req[i].index
  /\ pc[i] = "stateCreate" => fs[Staging(i)].synced
  /\ pc[i] \in {"stateWrite", "markerCreate", "markerWrite", "markerRename"} => Exists(fs, StateTemp(i))
  /\ pc[i] = "markerWrite" => Exists(fs, MarkerTemp(i))
  /\ pc[i] \in {"stateWrite", "markerCreate", "markerWrite", "markerRename", "markerSync", "publish"} =>
       Exists(fs, Staging(i)) /\ Complete(fs[Staging(i)], req[i])

TempOrState ==
  IF StateTemps(fs) = {} THEN Exists(fs, State) ELSE Exists(fs, StateTemp(fs[Marker].stateTemp))

TreeAtRecovery(i) ==
  /\ pc[i] \in {"recCreate", "recWrite", "recRename"} =>
       StateTemps(fs) # {} /\ Stagings(fs) # {}
  /\ pc[i] = "recWrite" => Exists(fs, MarkerTemp(i))
  /\ pc[i] = "recRename" => MarkerTemps(fs) # {}
  /\ pc[i] = "recPublish" =>
       /\ Exists(fs, Staging(fs[Marker].staging))
       /\ ContentsValid(fs[Staging(fs[Marker].staging)], fs[Marker].sel)
  /\ pc[i] \in {"recPublish", "recPublishSync", "recState"} =>
       Exists(fs, Marker) /\ fs[Marker].sel \in Selections /\ TempOrState
  /\ pc[i] = "recState" => StateTemps(fs) # {}
  /\ pc[i] \in {"recStateSync", "recUnmark", "recUnmarkSync"} => Exists(fs, State)

TreesInAnyOrder ==
  /\ Exclusion
  /\ RepositoryNeverPartial
  /\ UnsyncedTreesAreAlone
  /\ \A i \in Invocations : TreeAtBuild(i) /\ TreeAtRecovery(i)

\* A state in directory d is whole and describes a repository beside it.
StateIsGood(d) ==
  Exists(d, State) =>
    /\ d[State].synced /\ d[State].sel # Torn
    /\ Exists(d, Repository) /\ ContentsValid(d[Repository], d[State].sel)

\* The name that invocation i is writing to.
Writing(i) ==
  CASE pc[i] \in {"copy", "packages", "syncStaging"} -> {Staging(i)}
    [] pc[i] = "stateWrite" -> {StateTemp(i)}
    [] pc[i] \in {"markerWrite", "recWrite"} -> {MarkerTemp(i)}
    [] OTHER -> {}

\* When calls end only by returning or by a power loss: from the moment at which a
\* tree is to be exposed to the moment at which it is durable, no directory that
\* may be left has a state; then the state is for the tree that is durable.
StateAfterTree(i) ==
  /\ pc[i] \in BuildSteps \cup {"markerSync", "publish", "publishSync", "recPublish", "recPublishSync"} =>
       \A d \in images : ~Exists(d, State)
  /\ pc[i] \in {"commit", "recState"} => images = {fs}
  /\ pc[i] \in {"markerCreate", "markerWrite", "markerRename", "markerSync", "publish", "publishSync", "commit"} =>
       Exists(fs, StateTemp(i)) /\ Written(fs[StateTemp(i)], req[i])
  /\ pc[i] \in {"publishSync", "commit"} =>
       Exists(fs, Repository) /\ ContentsValid(fs[Repository], req[i])
  /\ pc[i] \in {"recPublish", "recPublishSync", "recState"} /\ StateTemps(fs) # {} =>
       fs[StateTemp(fs[Marker].stateTemp)].sel = fs[Marker].sel
  /\ pc[i] \in {"recPublishSync", "recState"} =>
       Exists(fs, Repository) /\ ContentsValid(fs[Repository], fs[Marker].sel)

StatesInAnyOrder ==
  /\ Durable
  /\ \A d \in images : StateIsGood(d)
  /\ SyncedExcept(UNION {Writing(i) : i \in Invocations})
  /\ \A i \in Invocations : StateAfterTree(i)
=============================================================================
