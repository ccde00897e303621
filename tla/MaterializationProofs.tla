----------------------- MODULE MaterializationProofs -----------------------
(***************************************************************************)
(* Proofs about Materialization, for any set of invocations and any set of *)
(* selections.                                                             *)
(*                                                                         *)
(* On a file system that makes directory operations durable in their order *)
(* the inductive invariant is TypeOK /\ DirectoryPhases.  A step of the    *)
(* lock holder adds at most one directory to images, the new current one,  *)
(* so the work of every step is to show in which phase that directory is.  *)
(* The refinement of ProjectView adds ViewInvariant (documents hold what   *)
(* was asked for) and, for what a caller is told, Durable; the error paths *)
(* add TemporariesOwned.                                                   *)
(*                                                                         *)
(* On any file system an operation may reach any of the images, and the    *)
(* invariants are TreesInAnyOrder (every failure) and StatesInAnyOrder     *)
(* (power losses only).                                                    *)
(***************************************************************************)
EXTENDS MaterializationInvariant, TLAPS

IInv == TypeOK /\ DirectoryPhases

(***************************************************************************)
(* Names and nodes                                                         *)
(***************************************************************************)

\* The names used by materialize are pairwise different.
LEMMA NamesDistinct ==
  /\ State \in Names /\ Marker \in Names /\ Repository \in Names
  /\ State # Marker /\ State # Repository /\ Marker # Repository
  /\ \A n \in Invocations :
       /\ StateTemp(n) \in Names /\ MarkerTemp(n) \in Names /\ Staging(n) \in Names
       /\ StateTemp(n) \notin {State, Marker, Repository}
       /\ MarkerTemp(n) \notin {State, Marker, Repository}
       /\ Staging(n) \notin {State, Marker, Repository}
  /\ \A n, m \in Invocations :
       /\ StateTemp(n) = StateTemp(m) => n = m
       /\ MarkerTemp(n) = MarkerTemp(m) => n = m
       /\ Staging(n) = Staging(m) => n = m
       /\ StateTemp(n) # MarkerTemp(m)
       /\ StateTemp(n) # Staging(m)
       /\ MarkerTemp(n) # Staging(m)
BY DEF Names, State, Marker, Repository, StateTemp, MarkerTemp, Staging

\* What kind of node each name may lead to.
LEMMA NodeKinds ==
  /\ NodesOf(State) = {Absent} \cup StateDocs
  /\ NodesOf(Marker) = {Absent} \cup MarkerDocs
  /\ NodesOf(Repository) = {Absent} \cup Trees
  /\ \A n \in Invocations :
       /\ NodesOf(StateTemp(n)) = {Absent} \cup StateDocs
       /\ NodesOf(MarkerTemp(n)) = {Absent} \cup MarkerDocs
       /\ NodesOf(Staging(n)) = {Absent} \cup Trees
BY DEF NodesOf, State, Marker, Repository, StateTemp, MarkerTemp, Staging

\* Every node is one of the three kinds.
LEMMA NodesOfNodes == \A x \in Names : NodesOf(x) \subseteq Nodes
BY DEF NodesOf, Nodes

(***************************************************************************)
(* Effects of the directory operations                                     *)
(***************************************************************************)

\* A rename moves one node and touches nothing else.
LEMMA RenameEffect ==
  ASSUME JournalOrdered, NEW from \in Names, NEW to \in Names, from # to,
         NodesOf(from) = NodesOf(to), IsDirectory(fs), Rename(from, to)
  PROVE  /\ IsDirectory(fs')
         /\ fs'[from] = Absent /\ fs'[to] = fs[from]
         /\ \A x \in Names \ {from, to} : fs'[x] = fs[x]
         /\ images' = images \cup {fs'}
<1>1. \A x \in Names : Absent \in NodesOf(x)
  BY DEF NodesOf
<1> QED
  BY <1>1 DEF Rename, DirectoryOperation, Apply, Nodes, IsDirectory

\* A creation changes one name.
LEMMA CreateEffect ==
  ASSUME JournalOrdered, NEW x \in Names, NEW node \in NodesOf(x),
         IsDirectory(fs), Create(x, node)
  PROVE  /\ IsDirectory(fs')
         /\ fs'[x] = node
         /\ \A y \in Names \ {x} : fs'[y] = fs[y]
         /\ images' = images \cup {fs'}
<1>1. node \in Nodes
  BY NodesOfNodes
<1> QED
  BY <1>1 DEF Create, DirectoryOperation, Apply, IsDirectory

\* So does a removal.
LEMMA RemoveEffect ==
  ASSUME JournalOrdered, NEW x \in Names, IsDirectory(fs), Remove(x)
  PROVE  /\ IsDirectory(fs')
         /\ fs'[x] = Absent
         /\ \A y \in Names \ {x} : fs'[y] = fs[y]
         /\ images' = images \cup {fs'}
<1>1. \A y \in Names : Absent \in NodesOf(y)
  BY DEF NodesOf
<1> QED
  BY <1>1 DEF Remove, DirectoryOperation, Apply, Nodes, IsDirectory

\* A write to a node that only the current directory has changes that directory.
LEMMA WriteEffect ==
  ASSUME NEW x \in Names, NEW node \in NodesOf(x), IsDirectory(fs), fs \in images,
         \A d \in images : Exists(d, x) => d = fs,
         Exists(fs, x), node # Absent,
         WriteNode(x, node)
  PROVE  /\ IsDirectory(fs')
         /\ fs'[x] = node
         /\ \A y \in Names \ {x} : fs'[y] = fs[y]
         /\ images' \subseteq images \cup {fs'}
         /\ fs' \in images'
         /\ \A d \in images' : Exists(d, x) => d = fs'
<1>1. node \in Nodes
  BY NodesOfNodes
<1> QED
  BY <1>1 DEF WriteNode, IsDirectory, Exists

(***************************************************************************)
(* A step of the lock holder                                               *)
(***************************************************************************)

\* The directory changes by a step of i: at most the new current directory joins
\* images, and it has no temporaries of others that were not there before.
Advances(i) ==
  /\ images' \subseteq images \cup {fs'}
  /\ fs' \in images'
  /\ IsDirectory(fs')
  /\ \A j \in Invocations \ {i} :
       /\ Exists(fs', Staging(j)) => Exists(fs, Staging(j))
       /\ Exists(fs', StateTemp(j)) => Exists(fs, StateTemp(j))
       /\ Exists(fs', MarkerTemp(j)) => Exists(fs, MarkerTemp(j))

\* A step that renames or removes creates no temporaries, for anyone.
CreatesNothing ==
  \A j \in Invocations :
    /\ Exists(fs', Staging(j)) => Exists(fs, Staging(j))
    /\ Exists(fs', StateTemp(j)) => Exists(fs, StateTemp(j))
    /\ Exists(fs', MarkerTemp(j)) => Exists(fs, MarkerTemp(j))

\* The frame of a step of the lock holder i: what remains to show of it is that
\* the new current directory is legal and in the phase of the new step of i.
LEMMA HolderStep ==
  ASSUME IInv, NEW i \in Invocations, pc[i] \in LockedSteps,
         NEW to \in LockedSteps, Goto(i, pc[i], to),
         Advances(i), Legal(fs'), Phases(i)', Ownership(i)'
  PROVE  IInv'
<1>1. TypeOK'
  BY DEF IInv, TypeOK, Goto, LockedSteps, Steps, Advances
<1>2. Exclusion'
  BY DEF IInv, TypeOK, DirectoryPhases, Exclusion, Goto
<1>3. \A d \in images' : Legal(d)
  BY DEF IInv, DirectoryPhases, Advances
<1>4. ASSUME NEW j \in Invocations \ {i}
      PROVE  Phases(j)' /\ Ownership(j)'
  <2>1. pc[j] \notin LockedSteps /\ pc'[j] = pc[j]
    BY DEF IInv, TypeOK, DirectoryPhases, Exclusion, Goto
  <2>2. Phases(j)'
    BY <2>1 DEF Phases, AtRecovery, AtBuild, AtCommit, LockedSteps, RecoverySteps,
                BuildSteps, CommitSteps
  <2>3. \A d \in images' :
          /\ pc[j] \in BeforeStaging => ~Exists(d, Staging(j))
          /\ pc[j] \in BeforeStateTemp => ~Exists(d, StateTemp(j))
          /\ pc[j] \in BeforeMarkerTemp => ~Exists(d, MarkerTemp(j))
    BY DEF IInv, TypeOK, DirectoryPhases, Ownership, Advances
  <2> QED
    BY <2>1, <2>2, <2>3 DEF Ownership, LockedSteps, RecoverySteps, BuildSteps
<1> QED
  BY <1>1, <1>2, <1>3, <1>4 DEF IInv, DirectoryPhases

\* A step that leaves the current directory as it is, or makes it durable.
LEMMA HolderStays ==
  ASSUME IInv, NEW i \in Invocations, pc[i] \in LockedSteps,
         NEW to \in LockedSteps, Goto(i, pc[i], to),
         fs' = fs, images' \subseteq images, fs \in images', Phases(i)', Ownership(i)'
  PROVE  IInv'
<1>1. Advances(i) /\ Legal(fs')
  BY DEF Advances, IInv, TypeOK, DirectoryPhases
<1> QED
  BY <1>1, HolderStep

\* The end of a call: the phases of the others do not depend on it.
LEMMA Leaves ==
  ASSUME IInv, NEW i \in Invocations, NEW outcome \in Results, Return(i, outcome),
         fs' = fs, images' \subseteq images, fs \in images'
  PROVE  IInv'
<1>1. TypeOK'
  BY DEF IInv, TypeOK, Return, Steps
<1>2. Exclusion'
  BY NoOneAssumption DEF IInv, TypeOK, DirectoryPhases, Exclusion, Return, LockedSteps,
     RecoverySteps, BuildSteps, CommitSteps
<1>3. \A d \in images' : Legal(d)
  BY DEF IInv, DirectoryPhases
<1>4. ASSUME NEW j \in Invocations \ {i}
      PROVE  Phases(j)' /\ Ownership(j)'
  <2>1. pc'[j] = pc[j] /\ req'[j] = req[j]
    BY DEF IInv, TypeOK, Return
  <2>2. Phases(j) /\ Ownership(j)
    BY DEF IInv, DirectoryPhases
  <2>3. Phases(j)'
    BY <2>1, <2>2 DEF Phases, AtRecovery, AtBuild, AtCommit
  <2> QED
    BY <2>1, <2>2, <2>3 DEF Ownership
<1>5. Phases(i)' /\ Ownership(i)'
  <2>1. pc'[i] = "done"
    BY DEF IInv, TypeOK, Return
  <2> QED
    BY <2>1 DEF Phases, AtRecovery, AtBuild, AtCommit, Ownership, BuildSteps, CommitSteps,
                BeforeStaging, BeforeStateTemp, BeforeMarkerTemp, GitSteps, RecoverySteps
<1> QED
  BY <1>1, <1>2, <1>3, <1>4, <1>5 DEF IInv, DirectoryPhases

(***************************************************************************)
(* From one phase to the next                                              *)
(***************************************************************************)

\* The marker temporary becomes the marker.
LEMMA MarkAdvances ==
  ASSUME IInv, JournalOrdered, NEW i \in Invocations, NEW n \in Invocations,
         NEW m \in Invocations, NEW s \in Indexed,
         MarkerPrepared(fs, n, m, s), Rename(MarkerTemp(m), Marker)
  PROVE  Advances(i) /\ CreatesNothing /\ Marked(fs', n, s)
<1>1. IsDirectory(fs) /\ fs \in images
  BY DEF IInv, TypeOK
<1>2. /\ IsDirectory(fs')
      /\ fs'[MarkerTemp(m)] = Absent /\ fs'[Marker] = fs[MarkerTemp(m)]
      /\ \A x \in Names \ {MarkerTemp(m), Marker} : fs'[x] = fs[x]
      /\ images' = images \cup {fs'}
  BY <1>1, RenameEffect, NamesDistinct, NodeKinds
<1>3. Marked(fs', n, s)
  BY <1>2, NamesDistinct DEF MarkerPrepared, Marked, Shape, Exists, StateTemps, MarkerTemps,
     Stagings
<1>4. Advances(i) /\ CreatesNothing
  BY <1>2, NamesDistinct DEF Advances, CreatesNothing, Exists
<1> QED
  BY <1>3, <1>4

\* The staged tree becomes the repository.
LEMMA ExposeAdvances ==
  ASSUME IInv, JournalOrdered, NEW i \in Invocations, NEW n \in Invocations,
         NEW s \in Indexed, Marked(fs, n, s), Rename(Staging(n), Repository)
  PROVE  Advances(i) /\ CreatesNothing /\ Exposed(fs', n, s)
<1>1. IsDirectory(fs) /\ fs \in images
  BY DEF IInv, TypeOK
<1>2. /\ IsDirectory(fs')
      /\ fs'[Staging(n)] = Absent /\ fs'[Repository] = fs[Staging(n)]
      /\ \A x \in Names \ {Staging(n), Repository} : fs'[x] = fs[x]
      /\ images' = images \cup {fs'}
  BY <1>1, RenameEffect, NamesDistinct, NodeKinds
<1>3. Exposed(fs', n, s)
  BY <1>2, NamesDistinct DEF Marked, Exposed, Shape, Exists, StateTemps, MarkerTemps, Stagings
<1>4. Advances(i) /\ CreatesNothing
  BY <1>2, NamesDistinct DEF Advances, CreatesNothing, Exists
<1> QED
  BY <1>3, <1>4

\* The state temporary becomes the state.
LEMMA CommitAdvances ==
  ASSUME IInv, JournalOrdered, NEW i \in Invocations, NEW n \in Invocations,
         NEW s \in Indexed, Exposed(fs, n, s), Rename(StateTemp(n), State)
  PROVE  Advances(i) /\ CreatesNothing /\ Committed(fs', n, s)
<1>1. IsDirectory(fs) /\ fs \in images
  BY DEF IInv, TypeOK
<1>2. /\ IsDirectory(fs')
      /\ fs'[StateTemp(n)] = Absent /\ fs'[State] = fs[StateTemp(n)]
      /\ \A x \in Names \ {StateTemp(n), State} : fs'[x] = fs[x]
      /\ images' = images \cup {fs'}
  BY <1>1, RenameEffect, NamesDistinct, NodeKinds
<1>3. Committed(fs', n, s)
  BY <1>2, NamesDistinct DEF Exposed, Committed, Shape, Exists, StateTemps, MarkerTemps,
     Stagings
<1>4. Advances(i) /\ CreatesNothing
  BY <1>2, NamesDistinct DEF Advances, CreatesNothing, Exists
<1> QED
  BY <1>3, <1>4

\* The marker goes.
LEMMA UnmarkAdvances ==
  ASSUME IInv, JournalOrdered, NEW i \in Invocations, NEW n \in Invocations,
         NEW s \in Indexed, Committed(fs, n, s), Remove(Marker)
  PROVE  Advances(i) /\ CreatesNothing /\ Finished(fs', s)
<1>1. IsDirectory(fs) /\ fs \in images
  BY DEF IInv, TypeOK
<1>2. /\ IsDirectory(fs')
      /\ fs'[Marker] = Absent
      /\ \A x \in Names \ {Marker} : fs'[x] = fs[x]
      /\ images' = images \cup {fs'}
  BY <1>1, RemoveEffect, NamesDistinct
<1>3. Finished(fs', s)
  BY <1>2, NamesDistinct DEF Committed, Finished, Shape, Exists, StateTemps, MarkerTemps,
     Stagings
<1>4. Advances(i) /\ CreatesNothing
  BY <1>2, NamesDistinct DEF Advances, CreatesNothing, Exists
<1> QED
  BY <1>3, <1>4

(***************************************************************************)
(* The entry                                                               *)
(***************************************************************************)

\* Steps before the lock, and the lock itself, do not touch the directory.
LEMMA EntryStep ==
  ASSUME IInv, NEW i \in Invocations, Entry(i)
  PROVE  IInv'
<1> DEFINE Outside == {"idle", "lock"} \cup GitSteps
<1>1. IsDirectory(fs) /\ fs \in images
  BY DEF IInv, TypeOK
<1>2. ASSUME NEW to \in Outside \cup {"validate"}, pc[i] \in Outside,
             pc' = [pc EXCEPT ![i] = to], UNCHANGED <<fs, images, req, result>>,
             gitignore' \in {"absent", "torn", "ok"},
             lock' = lock \/ (lock = NoOne /\ lock' = i),
             to = "validate" => lock' = i
      PROVE  IInv'
  <2>1. TypeOK'
    BY <1>2 DEF IInv, TypeOK, Steps, LockedSteps
  <2>2. Exclusion'
    BY <1>2, NoOneAssumption DEF IInv, TypeOK, DirectoryPhases, Exclusion, LockedSteps,
       RecoverySteps, BuildSteps, CommitSteps, GitSteps
  <2>3. ASSUME NEW j \in Invocations \ {i} PROVE Phases(j)' /\ Ownership(j)'
    <3>1. pc'[j] = pc[j] /\ Phases(j) /\ Ownership(j)
      BY <1>2 DEF IInv, TypeOK, DirectoryPhases
    <3> QED
      BY <1>2, <3>1 DEF Phases, AtRecovery, AtBuild, AtCommit, Ownership
  <2>4. Phases(i)' /\ Ownership(i)'
    <3>1. pc'[i] = to /\ Ownership(i)
      BY <1>2 DEF IInv, TypeOK, DirectoryPhases
    <3>2. Phases(i)'
      BY <1>2, <3>1 DEF Phases, AtRecovery, AtBuild, AtCommit, GitSteps, BuildSteps, CommitSteps
    <3> QED
      BY <1>2, <3>1, <3>2 DEF Ownership, GitSteps, BeforeStaging, BeforeStateTemp,
         BeforeMarkerTemp, RecoverySteps
  <2> QED
    BY <1>2, <2>1, <2>2, <2>3, <2>4 DEF IInv, DirectoryPhases
<1>3. CASE Start(i) \/ GitOpen(i) \/ GitWrite(i) \/ Lock(i)
  <2>1. pc[i] \in Outside /\ gitignore \in {"absent", "torn", "ok"}
    BY <1>3 DEF Start, GitOpen, GitWrite, Lock, GitSteps, IInv, TypeOK
  <2>2. CASE Start(i)
    BY <2>1, <2>2, <1>2 DEF Start, GitSteps
  <2>3. CASE GitOpen(i)
    BY <2>1, <2>3, <1>2 DEF GitOpen, GitSteps
  <2>4. CASE GitWrite(i)
    BY <2>1, <2>4, <1>2 DEF GitWrite, GitSteps
  <2>5. CASE Lock(i)
    BY <2>1, <2>5, <1>2 DEF Lock, GitSteps
  <2> QED
    BY <1>3, <2>2, <2>3, <2>4, <2>5
<1>4. CASE GitCheck(i)
  <2>1. /\ pc[i] \in Outside /\ gitignore \in {"absent", "torn", "ok"}
        /\ UNCHANGED <<fs, images>>
    BY <1>4 DEF GitCheck, GitSteps, IInv, TypeOK
  <2>2. CASE Goto(i, "gitCheck", "gitOpen")
    BY <2>1, <2>2, <1>2 DEF Goto, GitSteps
  <2>3. CASE Goto(i, "gitCheck", "lock")
    BY <2>1, <2>3, <1>2 DEF Goto, GitSteps
  <2>4. CASE Return(i, "invalid")
    BY <2>1, <2>4, <1>1, Leaves DEF Results
  <2> QED
    BY <1>4, <2>2, <2>3, <2>4 DEF GitCheck
<1>5. CASE Validate(i)
  <2>1. CASE Goto(i, "validate", "recover")
    <3>1. pc[i] = "validate" /\ pc'[i] = "recover" /\ UNCHANGED <<fs, images>> /\ Ownership(i)
      BY <1>5, <2>1 DEF Validate, Goto, IInv, TypeOK, DirectoryPhases
    <3>2. Phases(i)'
      BY <3>1 DEF Phases, AtRecovery, AtBuild, AtCommit, BuildSteps, CommitSteps
    <3>3. Ownership(i)'
      BY <3>1 DEF Ownership, BeforeStaging, BeforeStateTemp, BeforeMarkerTemp
    <3> QED
      BY <3>1, <3>2, <3>3, <2>1, <1>1, HolderStays DEF LockedSteps, RecoverySteps
  <2>2. CASE Return(i, "invalid")
    <3>1. UNCHANGED <<fs, images>>
      BY <1>5 DEF Validate
    <3> QED
      BY <3>1, <2>2, <1>1, Leaves DEF Results
  <2> QED
    BY <1>5, <2>1, <2>2 DEF Validate
<1> QED
  BY <1>3, <1>4, <1>5 DEF Entry

(***************************************************************************)
(* Recovery                                                                *)
(***************************************************************************)

\* The three phases with a marker, told apart by what recover looks at.
LEMMA MarkerPhases ==
  ASSUME NEW d, Legal(d), Exists(d, Marker)
  PROVE  \E n \in Invocations, s \in Indexed :
           \/ Marked(d, n, s) /\ ~Exists(d, Repository)
           \/ Exposed(d, n, s) /\ Exists(d, Repository) /\ StateTemps(d) # {}
           \/ Committed(d, n, s) /\ Exists(d, Repository) /\ StateTemps(d) = {}
BY DEF Legal, Empty, Staged, StateOpened, StatePrepared, MarkerOpened, MarkerPrepared, Marked,
       Exposed, Committed, Finished, Shape

\* Without marker and temporaries there is nothing, or a finished project.
LEMMA QuietPhases ==
  ASSUME NEW d, Legal(d), ~Exists(d, Marker), NoTemporaries(d)
  PROVE  Empty(d) \/ \E s \in Indexed : Finished(d, s)
BY DEF Legal, Staged, StateOpened, StatePrepared, MarkerOpened, MarkerPrepared, Marked,
       Exposed, Committed, Shape, NoTemporaries

\* What reconstruct accepts was completely prepared.
LEMMA ReconstructPhases ==
  ASSUME NEW d, NEW r, Legal(d), ~Exists(d, Marker), Reconstructible(d, r)
  PROVE  /\ MarkerTemps(d) = {} =>
              \E n \in Invocations, s \in Indexed : StatePrepared(d, n, s)
         /\ MarkerTemps(d) # {} =>
              \E n \in Invocations, m \in Invocations, s \in Indexed : MarkerPrepared(d, n, m, s)
<1>1. StateTemps(d) # {}
  BY DEF Reconstructible
<1>2. TheOnly(StateTemps(d)) \in StateTemps(d)
  BY <1>1 DEF TheOnly
<1>3. d[StateTemp(TheOnly(StateTemps(d)))].sel # Torn
  BY DEF Reconstructible, RecordsMatch
<1>4. \A m \in MarkerTemps(d) : d[MarkerTemp(m)].sel # Torn
  BY <1>3 DEF Reconstructible
<1>5. ASSUME NEW n \in Invocations, NEW s \in Indexed PROVE ~StateOpened(d, n, s)
  BY <1>2, <1>3 DEF StateOpened, Shape
<1>6. ASSUME NEW n \in Invocations, NEW m \in Invocations, NEW s \in Indexed
      PROVE ~MarkerOpened(d, n, m, s)
  BY <1>4 DEF MarkerOpened, Shape
<1>7. \/ \E n \in Invocations, s \in Indexed : StatePrepared(d, n, s)
      \/ \E n \in Invocations, m \in Invocations, s \in Indexed : MarkerPrepared(d, n, m, s)
  BY <1>1, <1>5, <1>6 DEF Legal, Empty, Staged, Marked, Exposed, Committed, Finished, Shape
<1> QED
  BY <1>7 DEF StatePrepared, MarkerPrepared, Shape

\* recover decides without changing the directory.
LEMMA RecoverStep ==
  ASSUME IInv, NEW i \in Invocations, Recover(i)
  PROVE  IInv'
<1>1. /\ IsDirectory(fs) /\ fs \in images /\ Legal(fs) /\ Ownership(i)
      /\ pc[i] = "recover" /\ UNCHANGED <<fs, images>>
  BY DEF IInv, TypeOK, DirectoryPhases, Recover
<1>2. ASSUME NEW to \in {"recPublish", "recState", "recUnmark", "recCreate", "recRename", "existing"},
             Goto(i, "recover", to), Phases(i)'
      PROVE  IInv'
  <2>1. pc'[i] = to
    BY <1>2 DEF Goto, IInv, TypeOK
  <2>2. Ownership(i)'
    BY <1>1, <1>2, <2>1 DEF Ownership, BeforeStaging, BeforeStateTemp, BeforeMarkerTemp,
       RecoverySteps
  <2>3. to \in LockedSteps /\ pc[i] \in LockedSteps /\ Goto(i, pc[i], to)
    BY <1>1, <1>2 DEF LockedSteps, RecoverySteps
  <2> QED
    BY <1>1, <1>2, <2>2, <2>3, HolderStays
<1>3. ASSUME NEW to, Goto(i, "recover", to) PROVE pc'[i] = to
  BY <1>3 DEF Goto, IInv, TypeOK
<1>4. CASE Return(i, "conflict")
  BY <1>1, <1>4, Leaves DEF Results
<1>5. CASE Exists(fs, Marker) /\ ~Return(i, "conflict")
  <2>1. Goto(i, "recover", IF Exists(fs, Repository) THEN AfterRepository ELSE "recPublish")
    BY <1>5 DEF Recover
  <2>2. PICK n \in Invocations, s \in Indexed :
           \/ Marked(fs, n, s) /\ ~Exists(fs, Repository)
           \/ Exposed(fs, n, s) /\ Exists(fs, Repository) /\ StateTemps(fs) # {}
           \/ Committed(fs, n, s) /\ Exists(fs, Repository) /\ StateTemps(fs) = {}
    BY <1>1, <1>5, MarkerPhases
  <2>3. CASE Marked(fs, n, s) /\ ~Exists(fs, Repository)
    <3>1. Goto(i, "recover", "recPublish")
      BY <2>1, <2>3
    <3>2. Phases(i)'
      BY <3>1, <2>3, <1>1, <1>3 DEF Phases, AtRecovery, AtBuild, AtCommit, BuildSteps, CommitSteps
    <3> QED
      BY <3>1, <3>2, <1>2
  <2>4. CASE Exposed(fs, n, s) /\ Exists(fs, Repository) /\ StateTemps(fs) # {}
    <3>1. Goto(i, "recover", "recState")
      BY <2>1, <2>4 DEF AfterRepository
    <3>2. Phases(i)'
      BY <3>1, <2>4, <1>1, <1>3 DEF Phases, AtRecovery, AtBuild, AtCommit, BuildSteps, CommitSteps
    <3> QED
      BY <3>1, <3>2, <1>2
  <2>5. CASE Committed(fs, n, s) /\ Exists(fs, Repository) /\ StateTemps(fs) = {}
    <3>1. Goto(i, "recover", "recUnmark")
      BY <2>1, <2>5 DEF AfterRepository
    <3>2. Phases(i)'
      BY <3>1, <2>5, <1>1, <1>3 DEF Phases, AtRecovery, AtBuild, AtCommit, BuildSteps, CommitSteps
    <3> QED
      BY <3>1, <3>2, <1>2
  <2> QED
    BY <2>2, <2>3, <2>4, <2>5
<1>6. CASE ~Exists(fs, Marker) /\ NoTemporaries(fs) /\ Goto(i, "recover", "existing")
  <2>1. Empty(fs) \/ \E s \in Indexed : Finished(fs, s)
    BY <1>1, <1>6, QuietPhases
  <2>2. Phases(i)'
    BY <1>6, <2>1, <1>1, <1>3 DEF Phases, AtRecovery, AtBuild, AtCommit, BuildSteps, CommitSteps
  <2> QED
    BY <1>6, <2>2, <1>2
<1>7. CASE /\ ~Exists(fs, Marker) /\ Reconstructible(fs, req[i])
           /\ Goto(i, "recover", IF MarkerTemps(fs) = {} THEN "recCreate" ELSE "recRename")
  <2>1. CASE MarkerTemps(fs) = {}
    <3>1. Goto(i, "recover", "recCreate") /\ \E n \in Invocations, s \in Indexed : StatePrepared(fs, n, s)
      BY <1>1, <1>7, <2>1, ReconstructPhases
    <3>2. Phases(i)'
      BY <3>1, <1>1, <1>3 DEF Phases, AtRecovery, AtBuild, AtCommit, BuildSteps, CommitSteps
    <3> QED
      BY <3>1, <3>2, <1>2
  <2>2. CASE MarkerTemps(fs) # {}
    <3>1. /\ Goto(i, "recover", "recRename")
          /\ \E n \in Invocations, m \in Invocations, s \in Indexed : MarkerPrepared(fs, n, m, s)
      BY <1>1, <1>7, <2>2, ReconstructPhases
    <3>2. Phases(i)'
      BY <3>1, <1>1, <1>3 DEF Phases, AtRecovery, AtBuild, AtCommit, BuildSteps, CommitSteps
    <3> QED
      BY <3>1, <3>2, <1>2
  <2> QED
    BY <2>1, <2>2
<1> QED
  BY <1>4, <1>5, <1>6, <1>7 DEF Recover

\* A step from recovery to recovery that creates nothing keeps nonces unused.
LEMMA RecoveryOwnership ==
  ASSUME IInv, NEW i \in Invocations, pc[i] \in RecoverySteps,
         pc'[i] \in RecoverySteps \ {"recWrite"},
         pc'[i] \in BeforeMarkerTemp => pc[i] \in BeforeMarkerTemp,
         images' \subseteq images \cup {fs'}, CreatesNothing
  PROVE  Ownership(i)'
<1>1. Ownership(i) /\ fs \in images
  BY DEF IInv, TypeOK, DirectoryPhases
<1> QED
  BY <1>1 DEF Ownership, CreatesNothing, RecoverySteps, BeforeStaging, BeforeStateTemp

\* reconstruct opens the temporary of a new marker.
LEMMA RecCreateStep ==
  ASSUME IInv, JournalOrdered, NEW i \in Invocations, RecCreate(i)
  PROVE  IInv'
<1> DEFINE tx == [sel |-> Torn, stateTemp |-> TheOnly(StateTemps(fs)),
                  staging |-> TheOnly(Stagings(fs)), synced |-> FALSE]
<1>1. /\ pc[i] = "recCreate" /\ pc'[i] = "recWrite" /\ Goto(i, pc[i], "recWrite")
      /\ IsDirectory(fs) /\ fs \in images /\ Ownership(i)
  BY DEF RecCreate, Goto, IInv, TypeOK, DirectoryPhases
<1>2. PICK n \in Invocations, s \in Indexed : StatePrepared(fs, n, s)
  BY <1>1 DEF IInv, DirectoryPhases, Phases, AtRecovery
<1>3. TheOnly(StateTemps(fs)) = n /\ TheOnly(Stagings(fs)) = n
  BY <1>2 DEF StatePrepared, Shape, TheOnly
<1>4. tx \in MarkerDocs /\ Create(MarkerTemp(i), tx)
  BY <1>3 DEF RecCreate, MarkerDocs
<1>5. tx # Absent /\ tx.sel = Torn /\ tx.stateTemp = n /\ tx.staging = n
  BY <1>3, <1>4, AbsentAssumption
<1> HIDE DEF tx
<1>6. /\ IsDirectory(fs')
      /\ fs'[MarkerTemp(i)] = tx
      /\ \A y \in Names \ {MarkerTemp(i)} : fs'[y] = fs[y]
      /\ images' = images \cup {fs'}
  BY <1>1, <1>4, CreateEffect, NamesDistinct, NodeKinds
<1>7. MarkerOpened(fs', n, i, s)
  BY <1>2, <1>5, <1>6, NamesDistinct DEF StatePrepared, MarkerOpened, Shape, Exists, StateTemps,
     MarkerTemps, Stagings
<1>8. Advances(i)
  BY <1>6, NamesDistinct DEF Advances, Exists
<1>9. Legal(fs')
  BY <1>7 DEF Legal
<1>10. Phases(i)'
  BY <1>1, <1>7 DEF Phases, AtRecovery, AtBuild, AtCommit, BuildSteps, CommitSteps
<1>11. Ownership(i)'
  BY <1>1, <1>6, NamesDistinct DEF Ownership, Exists, RecoverySteps, BeforeStaging,
     BeforeStateTemp, BeforeMarkerTemp
<1> QED
  BY <1>1, <1>8, <1>9, <1>10, <1>11, HolderStep DEF LockedSteps, RecoverySteps

\* reconstruct fills it.
LEMMA RecWriteStep ==
  ASSUME IInv, NEW i \in Invocations, RecWrite(i)
  PROVE  IInv'
<1> DEFINE tx == [fs[MarkerTemp(i)] EXCEPT !.sel = fs[StateTemp(TheOnly(StateTemps(fs)))].sel,
                                           !.synced = TRUE]
<1>1. /\ pc[i] = "recWrite" /\ pc'[i] = "recRename" /\ Goto(i, pc[i], "recRename")
      /\ IsDirectory(fs) /\ fs \in images /\ Ownership(i)
  BY DEF RecWrite, Goto, IInv, TypeOK, DirectoryPhases
<1>2. PICK n \in Invocations, s \in Indexed : MarkerOpened(fs, n, i, s)
  BY <1>1 DEF IInv, DirectoryPhases, Phases, AtRecovery
<1>3. fs[StateTemp(TheOnly(StateTemps(fs)))].sel = s
  BY <1>2 DEF MarkerOpened, Written, Shape, TheOnly
<1>4. Exists(fs, MarkerTemp(i)) /\ fs[MarkerTemp(i)] \in MarkerDocs
  BY <1>1, <1>2, NamesDistinct, NodeKinds DEF MarkerOpened, Shape, MarkerTemps, Exists, IsDirectory
<1>5. /\ tx \in MarkerDocs /\ Binds(tx, n, s)
      /\ WriteNode(MarkerTemp(i), tx)
  BY <1>2, <1>3, <1>4 DEF RecWrite, MarkerDocs, Binds, Written, MarkerOpened, Indexed
<1>6. tx # Absent
  BY <1>5, AbsentAssumption
<1> HIDE DEF tx
<1>7. \A d \in images : Exists(d, MarkerTemp(i)) => d = fs
  BY <1>1 DEF Ownership
<1>8. /\ IsDirectory(fs')
      /\ fs'[MarkerTemp(i)] = tx
      /\ \A y \in Names \ {MarkerTemp(i)} : fs'[y] = fs[y]
      /\ images' \subseteq images \cup {fs'}
      /\ fs' \in images'
  BY <1>1, <1>4, <1>5, <1>6, <1>7, WriteEffect, NamesDistinct, NodeKinds
<1>9. MarkerPrepared(fs', n, i, s)
  BY <1>2, <1>5, <1>6, <1>8, NamesDistinct DEF MarkerOpened, MarkerPrepared, Shape, Exists,
     StateTemps, MarkerTemps, Stagings
<1>10. Advances(i) /\ CreatesNothing
  BY <1>4, <1>8, NamesDistinct DEF Advances, CreatesNothing, Exists
<1>11. Legal(fs')
  BY <1>9 DEF Legal
<1>12. Phases(i)'
  BY <1>1, <1>9 DEF Phases, AtRecovery, AtBuild, AtCommit, BuildSteps, CommitSteps
<1>13. Ownership(i)'
  BY <1>1, <1>10, RecoveryOwnership DEF RecoverySteps, Advances, BeforeMarkerTemp, BeforeStateTemp,
     BeforeStaging
<1> QED
  BY <1>1, <1>10, <1>11, <1>12, <1>13, HolderStep DEF LockedSteps, RecoverySteps

\* reconstruct publishes the marker.
LEMMA RecRenameStep ==
  ASSUME IInv, JournalOrdered, NEW i \in Invocations, RecRename(i)
  PROVE  IInv'
<1>1. pc[i] = "recRename" /\ pc'[i] = "recMarkerSync" /\ Goto(i, pc[i], "recMarkerSync")
  BY DEF RecRename, Goto, IInv, TypeOK
<1>2. PICK n \in Invocations, m \in Invocations, s \in Indexed : MarkerPrepared(fs, n, m, s)
  BY <1>1 DEF IInv, DirectoryPhases, Phases, AtRecovery
<1>3. Rename(MarkerTemp(m), Marker)
  BY <1>2 DEF RecRename, MarkerPrepared, Shape, TheOnly
<1>4. Advances(i) /\ CreatesNothing /\ Marked(fs', n, s)
  BY <1>2, <1>3, MarkAdvances
<1>5. Legal(fs')
  BY <1>4 DEF Legal
<1>6. Phases(i)'
  BY <1>1, <1>4 DEF Phases, AtRecovery, AtBuild, AtCommit, BuildSteps, CommitSteps
<1>7. Ownership(i)'
  BY <1>1, <1>4, RecoveryOwnership DEF RecoverySteps, Advances, BeforeMarkerTemp, BeforeStateTemp,
     BeforeStaging
<1> QED
  BY <1>1, <1>4, <1>5, <1>6, <1>7, HolderStep DEF LockedSteps, RecoverySteps

\* The marker is durable; recover starts again.
LEMMA RecMarkerSyncStep ==
  ASSUME IInv, NEW i \in Invocations, RecMarkerSync(i)
  PROVE  IInv'
<1>1. /\ IsDirectory(fs) /\ fs \in images /\ Legal(fs) /\ Phases(i)
      /\ pc[i] = "recMarkerSync" /\ fs' = fs /\ images' = {fs} /\ req' = req
  BY DEF RecMarkerSync, Goto, SyncRsolve, IInv, TypeOK, DirectoryPhases
<1>2. PICK n \in Invocations, s \in Indexed : Marked(fs, n, s)
  BY <1>1 DEF Phases, AtRecovery
<1>3. pc'[i] = "recover" /\ Goto(i, pc[i], "recover")
  BY <1>1, <1>2 DEF RecMarkerSync, Goto, IInv, TypeOK
<1>4. Phases(i)'
  BY <1>1, <1>2, <1>3 DEF Phases, AtRecovery, AtBuild, AtCommit, BuildSteps, CommitSteps
<1>5. Ownership(i)'
  <2>1. Ownership(i) /\ MarkerTemps(fs) = {}
    BY <1>2 DEF IInv, DirectoryPhases, Marked, Shape
  <2> QED
    BY <1>1, <1>3, <2>1 DEF Ownership, MarkerTemps, RecoverySteps, BeforeMarkerTemp,
       BeforeStateTemp, BeforeStaging
<1> QED
  BY <1>1, <1>3, <1>4, <1>5, HolderStays DEF LockedSteps, RecoverySteps

\* recover publishes the staged tree.
LEMMA RecPublishStep ==
  ASSUME IInv, JournalOrdered, NEW i \in Invocations, RecPublish(i)
  PROVE  IInv'
<1>1. pc[i] = "recPublish" /\ pc'[i] = "recPublishSync" /\ Goto(i, pc[i], "recPublishSync")
  BY DEF RecPublish, Goto, IInv, TypeOK
<1>2. PICK n \in Invocations, s \in Indexed : Marked(fs, n, s)
  BY <1>1 DEF IInv, DirectoryPhases, Phases, AtRecovery
<1>3. Rename(Staging(n), Repository)
  BY <1>2 DEF RecPublish, Marked, Binds
<1>4. Advances(i) /\ CreatesNothing /\ Exposed(fs', n, s)
  BY <1>2, <1>3, ExposeAdvances
<1>5. Legal(fs')
  BY <1>4 DEF Legal
<1>6. Phases(i)'
  BY <1>1, <1>4 DEF Phases, AtRecovery, AtBuild, AtCommit, BuildSteps, CommitSteps
<1>7. Ownership(i)'
  BY <1>1, <1>4, RecoveryOwnership DEF RecoverySteps, Advances, BeforeMarkerTemp, BeforeStateTemp,
     BeforeStaging
<1> QED
  BY <1>1, <1>4, <1>5, <1>6, <1>7, HolderStep DEF LockedSteps, RecoverySteps

\* The repository is durable; the state temporary comes next.
LEMMA RecPublishSyncStep ==
  ASSUME IInv, NEW i \in Invocations, RecPublishSync(i)
  PROVE  IInv'
<1>1. /\ IsDirectory(fs) /\ fs \in images /\ Legal(fs) /\ Phases(i)
      /\ pc[i] = "recPublishSync" /\ fs' = fs /\ images' = {fs} /\ req' = req
  BY DEF RecPublishSync, Goto, SyncRsolve, IInv, TypeOK, DirectoryPhases
<1>2. PICK n \in Invocations, s \in Indexed : Exposed(fs, n, s)
  BY <1>1 DEF Phases, AtRecovery
<1>3. pc'[i] = "recState" /\ Goto(i, pc[i], "recState")
  BY <1>1, <1>2 DEF RecPublishSync, Goto, IInv, TypeOK, AfterRepository, Exposed, Shape
<1>4. Phases(i)'
  BY <1>1, <1>2, <1>3 DEF Phases, AtRecovery, AtBuild, AtCommit, BuildSteps, CommitSteps
<1>5. Ownership(i)'
  <2>1. Ownership(i) /\ MarkerTemps(fs) = {}
    BY <1>2 DEF IInv, DirectoryPhases, Exposed, Shape
  <2> QED
    BY <1>1, <1>3, <2>1 DEF Ownership, MarkerTemps, RecoverySteps, BeforeMarkerTemp,
       BeforeStateTemp, BeforeStaging
<1> QED
  BY <1>1, <1>3, <1>4, <1>5, HolderStays DEF LockedSteps, RecoverySteps

\* recover publishes the state.
LEMMA RecStateStep ==
  ASSUME IInv, JournalOrdered, NEW i \in Invocations, RecState(i)
  PROVE  IInv'
<1>0. pc[i] = "recState"
  BY DEF RecState, Goto
<1>2. PICK n \in Invocations, s \in Indexed : Exposed(fs, n, s)
  BY <1>0 DEF IInv, DirectoryPhases, Phases, AtRecovery
<1>3. Goto(i, "recState", "recStateSync") /\ Rename(StateTemp(n), State)
  BY <1>2 DEF RecState, Exposed, Shape, Binds
<1>1. pc'[i] = "recStateSync" /\ Goto(i, pc[i], "recStateSync") /\ pc[i] = "recState"
  BY <1>0, <1>3 DEF Goto, IInv, TypeOK
<1>4. Advances(i) /\ CreatesNothing /\ Committed(fs', n, s)
  BY <1>2, <1>3, CommitAdvances
<1>5. Legal(fs')
  BY <1>4 DEF Legal
<1>6. Phases(i)'
  BY <1>1, <1>4 DEF Phases, AtRecovery, AtBuild, AtCommit, BuildSteps, CommitSteps
<1>7. Ownership(i)'
  BY <1>1, <1>4, RecoveryOwnership DEF RecoverySteps, Advances, BeforeMarkerTemp, BeforeStateTemp,
     BeforeStaging
<1> QED
  BY <1>1, <1>4, <1>5, <1>6, <1>7, HolderStep DEF LockedSteps, RecoverySteps

\* The state is durable.
LEMMA RecStateSyncStep ==
  ASSUME IInv, NEW i \in Invocations, RecStateSync(i)
  PROVE  IInv'
<1>1. /\ IsDirectory(fs) /\ fs \in images /\ Legal(fs) /\ Phases(i)
      /\ pc[i] = "recStateSync" /\ fs' = fs /\ images' = {fs} /\ req' = req
  BY DEF RecStateSync, Goto, SyncRsolve, IInv, TypeOK, DirectoryPhases
<1>2. PICK n \in Invocations, s \in Indexed : Committed(fs, n, s)
  BY <1>1 DEF Phases, AtRecovery
<1>3. pc'[i] = "recUnmark" /\ Goto(i, pc[i], "recUnmark")
  BY <1>1, <1>2 DEF RecStateSync, Goto, IInv, TypeOK
<1>4. Phases(i)'
  BY <1>1, <1>2, <1>3 DEF Phases, AtRecovery, AtBuild, AtCommit, BuildSteps, CommitSteps
<1>5. Ownership(i)'
  <2>1. Ownership(i) /\ MarkerTemps(fs) = {}
    BY <1>2 DEF IInv, DirectoryPhases, Committed, Shape
  <2> QED
    BY <1>1, <1>3, <2>1 DEF Ownership, MarkerTemps, RecoverySteps, BeforeMarkerTemp,
       BeforeStateTemp, BeforeStaging
<1> QED
  BY <1>1, <1>3, <1>4, <1>5, HolderStays DEF LockedSteps, RecoverySteps

\* recover removes the marker.
LEMMA RecUnmarkStep ==
  ASSUME IInv, JournalOrdered, NEW i \in Invocations, RecUnmark(i)
  PROVE  IInv'
<1>1. pc[i] = "recUnmark" /\ pc'[i] = "recUnmarkSync" /\ Goto(i, pc[i], "recUnmarkSync")
  BY DEF RecUnmark, Goto, IInv, TypeOK
<1>2. PICK n \in Invocations, s \in Indexed : Committed(fs, n, s)
  BY <1>1 DEF IInv, DirectoryPhases, Phases, AtRecovery
<1>3. Remove(Marker)
  BY DEF RecUnmark
<1>4. Advances(i) /\ CreatesNothing /\ Finished(fs', s)
  BY <1>2, <1>3, UnmarkAdvances
<1>5. Legal(fs')
  BY <1>4 DEF Legal
<1>6. Phases(i)'
  BY <1>1, <1>4 DEF Phases, AtRecovery, AtBuild, AtCommit, BuildSteps, CommitSteps
<1>7. Ownership(i)'
  BY <1>1, <1>4, RecoveryOwnership DEF RecoverySteps, Advances, BeforeMarkerTemp, BeforeStateTemp,
     BeforeStaging
<1> QED
  BY <1>1, <1>4, <1>5, <1>6, <1>7, HolderStep DEF LockedSteps, RecoverySteps

\* The marker is gone for good: materialize goes on with a finished project.
LEMMA RecUnmarkSyncStep ==
  ASSUME IInv, NEW i \in Invocations, RecUnmarkSync(i)
  PROVE  IInv'
<1>1. /\ IsDirectory(fs) /\ fs \in images /\ Phases(i) /\ Ownership(i)
      /\ pc[i] = "recUnmarkSync" /\ pc'[i] = "existing" /\ Goto(i, pc[i], "existing")
      /\ fs' = fs /\ images' = {fs}
  BY DEF RecUnmarkSync, Goto, SyncRsolve, IInv, TypeOK, DirectoryPhases
<1>2. PICK s \in Indexed : Finished(fs, s)
  BY <1>1 DEF Phases, AtRecovery
<1>3. Phases(i)'
  BY <1>1, <1>2 DEF Phases, AtRecovery, AtBuild, AtCommit, BuildSteps, CommitSteps
<1>4. Ownership(i)'
  <2>1. MarkerTemps(fs) = {}
    BY <1>2 DEF Finished, Shape
  <2> QED
    BY <1>1, <2>1 DEF Ownership, MarkerTemps, RecoverySteps, BeforeMarkerTemp, BeforeStateTemp,
       BeforeStaging
<1> QED
  BY <1>1, <1>3, <1>4, HolderStays DEF LockedSteps, RecoverySteps

\* Every step of recover and reconstruct preserves the invariant.
LEMMA RecoveryStep ==
  ASSUME IInv, JournalOrdered, NEW i \in Invocations, Recovery(i)
  PROVE  IInv'
BY RecoverStep, RecCreateStep, RecWriteStep, RecRenameStep, RecMarkerSyncStep, RecPublishStep,
   RecPublishSyncStep, RecStateStep, RecStateSyncStep, RecUnmarkStep, RecUnmarkSyncStep
   DEF Recovery

(***************************************************************************)
(* The build                                                               *)
(***************************************************************************)

\* A finished project ends the call, an empty directory starts the build.
LEMMA ExistingStep ==
  ASSUME IInv, NEW i \in Invocations, Existing(i)
  PROVE  IInv'
<1>1. /\ pc[i] = "existing" /\ UNCHANGED <<fs, images>> /\ fs \in images
      /\ Phases(i) /\ Ownership(i) /\ req[i] \in Selections
  BY DEF Existing, IInv, TypeOK, DirectoryPhases
<1>2. ASSUME NEW outcome \in {"found", "conflict", "invalid"}, Return(i, outcome) PROVE IInv'
  BY <1>1, <1>2, Leaves DEF Results
<1>3. CASE ~Exists(fs, State) /\ req[i].index # NoIndex /\ Goto(i, "existing", "mkStaging")
  <2>1. pc'[i] = "mkStaging" /\ req' = req /\ Goto(i, pc[i], "mkStaging")
    BY <1>1, <1>3 DEF Goto, IInv, TypeOK
  <2>2. Empty(fs)
    BY <1>1, <1>3 DEF Phases, AtBuild, Finished, Shape
  <2>3. Phases(i)'
    BY <1>1, <1>3, <2>1, <2>2 DEF Phases, AtRecovery, AtBuild, AtCommit, BuildSteps, CommitSteps, Indexed
  <2>4. Ownership(i)'
    BY <1>1, <2>1 DEF Ownership, BeforeStaging, BeforeStateTemp, BeforeMarkerTemp
  <2> QED
    BY <1>1, <2>1, <2>3, <2>4, HolderStays DEF LockedSteps, BuildSteps
<1> QED
  BY <1>2, <1>3 DEF Existing

\* The staging directory is created.
LEMMA MkStagingStep ==
  ASSUME IInv, JournalOrdered, NEW i \in Invocations, MkStaging(i)
  PROVE  IInv'
<1> DEFINE node == [files |-> {}, index |-> NoIndex, synced |-> FALSE]
<1>1. /\ pc[i] = "mkStaging" /\ pc'[i] = "copy" /\ Goto(i, pc[i], "copy")
      /\ req[i] \in Indexed /\ req' = req
      /\ IsDirectory(fs) /\ fs \in images /\ Ownership(i)
      /\ Empty(fs)
      /\ Create(Staging(i), node)
  BY DEF MkStaging, Goto, IInv, TypeOK, DirectoryPhases, Phases, AtRecovery, AtBuild, AtCommit, BuildSteps,
     CommitSteps
<1>2. node \in Trees
  BY <1>1 DEF Trees, Indexes
<1>3. node # Absent
  BY <1>2, AbsentAssumption
<1> HIDE DEF node
<1>5. /\ IsDirectory(fs')
      /\ fs'[Staging(i)] = node
      /\ \A y \in Names \ {Staging(i)} : fs'[y] = fs[y]
      /\ images' = images \cup {fs'}
  BY <1>1, <1>2, <1>3, CreateEffect, NamesDistinct, NodeKinds
<1>6. Staged(fs', i)
  BY <1>1, <1>2, <1>3, <1>5, NamesDistinct DEF Empty, Staged, Shape, Exists, StateTemps,
     MarkerTemps, Stagings
<1>7. Advances(i)
  BY <1>5, NamesDistinct DEF Advances, Exists
<1>8. Legal(fs')
  BY <1>1, <1>6 DEF Legal
<1>9. Phases(i)'
  BY <1>1, <1>2, <1>5, <1>6 DEF Phases, AtRecovery, AtBuild, AtCommit, BuildSteps, CommitSteps
<1>10. Ownership(i)'
  BY <1>1, <1>5, NamesDistinct DEF Exists, Ownership, BeforeStaging, BeforeStateTemp, BeforeMarkerTemp,
     GitSteps,
     RecoverySteps
<1> QED
  BY <1>1, <1>7, <1>8, <1>9, <1>10, HolderStep DEF LockedSteps, BuildSteps

\* One more archive, or the loop ends.
LEMMA CopyStep ==
  ASSUME IInv, NEW i \in Invocations, Copy(i)
  PROVE  IInv'
<1>1. /\ pc[i] = "copy" /\ IsDirectory(fs) /\ fs \in images /\ Ownership(i) /\ Staged(fs, i)
      /\ req[i] \in Indexed
  BY DEF Copy, IInv, TypeOK, DirectoryPhases, Phases, AtRecovery, AtBuild, AtCommit, BuildSteps, CommitSteps
<1>2. Exists(fs, Staging(i)) /\ \A d \in images : Exists(d, Staging(i)) => d = fs
  BY <1>1 DEF Staged, Shape, Stagings, Ownership
<1>3. fs[Staging(i)] \in Trees
  BY <1>1, <1>2, NamesDistinct, NodeKinds DEF IsDirectory, Exists
<1>4. CASE /\ \E a \in req[i].arts \ fs[Staging(i)].files :
                WriteNode(Staging(i), [fs[Staging(i)] EXCEPT !.files = @ \cup {a}])
           /\ Goto(i, "copy", "copy")
  <2>1. PICK a \in req[i].arts :
           WriteNode(Staging(i), [fs[Staging(i)] EXCEPT !.files = @ \cup {a}])
    BY <1>4
  <2> DEFINE node == [fs[Staging(i)] EXCEPT !.files = @ \cup {a}]
  <2>2. a \in Artifacts
    BY <1>1 DEF Artifacts, Indexed
  <2>3. node \in Trees /\ WriteNode(Staging(i), node)
    BY <1>3, <2>1, <2>2 DEF Trees
  <2>4. node # Absent
    BY <2>3, AbsentAssumption
  <2> HIDE DEF node
  <2>5. /\ IsDirectory(fs')
        /\ fs'[Staging(i)] = node
        /\ \A y \in Names \ {Staging(i)} : fs'[y] = fs[y]
        /\ images' \subseteq images \cup {fs'}
        /\ fs' \in images'
        /\ \A d \in images' : Exists(d, Staging(i)) => d = fs'
    BY <1>1, <1>2, <2>3, <2>4, WriteEffect, NamesDistinct, NodeKinds
  <2>6. Staged(fs', i)
    BY <1>1, <2>4, <2>5, NamesDistinct DEF Staged, Shape, Exists, StateTemps, MarkerTemps, Stagings
  <2>7. Advances(i) /\ Legal(fs')
    BY <2>5, <2>6, NamesDistinct DEF Advances, Exists, Legal
  <2>8. pc'[i] = "copy" /\ Goto(i, pc[i], "copy") /\ req' = req
    BY <1>1, <1>4 DEF Goto, IInv, TypeOK
  <2>9. Phases(i)'
    BY <1>1, <2>6, <2>8 DEF Phases, AtRecovery, AtBuild, AtCommit, BuildSteps, CommitSteps
  <2>10. Ownership(i)'
    BY <1>1, <2>5, <2>8, NamesDistinct DEF Exists, Ownership, BeforeStaging, BeforeStateTemp,
       BeforeMarkerTemp, GitSteps,
     RecoverySteps
  <2> QED
    BY <1>1, <2>7, <2>8, <2>9, <2>10, HolderStep DEF LockedSteps, BuildSteps
<1>5. CASE /\ fs[Staging(i)].files = req[i].arts /\ Goto(i, "copy", "packages")
           /\ UNCHANGED <<fs, images>>
  <2>1. pc'[i] = "packages" /\ Goto(i, pc[i], "packages") /\ req' = req
    BY <1>1, <1>5 DEF Goto, IInv, TypeOK
  <2>2. Phases(i)'
    BY <1>1, <1>5, <2>1 DEF Phases, AtRecovery, AtBuild, AtCommit, BuildSteps, CommitSteps
  <2>3. Ownership(i)'
    BY <1>1, <1>5, <2>1 DEF Ownership, BeforeStaging, BeforeStateTemp, BeforeMarkerTemp, GitSteps,
     RecoverySteps
  <2> QED
    BY <1>1, <1>5, <2>1, <2>2, <2>3, HolderStays DEF LockedSteps, BuildSteps
<1> QED
  BY <1>4, <1>5 DEF Copy

\* The index is written.
LEMMA WritePackagesStep ==
  ASSUME IInv, NEW i \in Invocations, WritePackages(i)
  PROVE  IInv'
<1> DEFINE node == [fs[Staging(i)] EXCEPT !.index = req[i].index]
<1>1. /\ pc[i] = "packages" /\ pc'[i] = "syncStaging" /\ Goto(i, pc[i], "syncStaging")
      /\ req[i] \in Indexed /\ req' = req
      /\ IsDirectory(fs) /\ fs \in images /\ Ownership(i)
      /\ Staged(fs, i) /\ fs[Staging(i)].files = req[i].arts
      /\ WriteNode(Staging(i), node)
  BY DEF WritePackages, Goto, IInv, TypeOK, DirectoryPhases, Phases, AtRecovery, AtBuild, AtCommit,
     BuildSteps, CommitSteps
<1>11. Exists(fs, Staging(i))
  BY <1>1 DEF Staged, Shape, Stagings
<1>12. fs[Staging(i)] \in Trees
  BY <1>1, <1>11, NamesDistinct, NodeKinds DEF IsDirectory, Exists
<1>2. node \in Trees /\ node.files = req[i].arts /\ node.index = req[i].index
  BY <1>1, <1>12 DEF Trees, Indexes, Indexed
<1>3. node # Absent
  BY <1>2, AbsentAssumption
<1> HIDE DEF node
<1>4. Exists(fs, Staging(i)) /\ \A d \in images : Exists(d, Staging(i)) => d = fs
  BY <1>1 DEF Staged, StateOpened, MarkerOpened, Shape, Stagings, StateTemps, MarkerTemps, Ownership
<1>5. /\ IsDirectory(fs')
      /\ fs'[Staging(i)] = node
      /\ \A y \in Names \ {Staging(i)} : fs'[y] = fs[y]
      /\ images' \subseteq images \cup {fs'}
      /\ fs' \in images'
      /\ \A d \in images' : Exists(d, Staging(i)) => d = fs'
  BY <1>1, <1>2, <1>3, <1>4, WriteEffect, NamesDistinct, NodeKinds
<1>6. Staged(fs', i)
  BY <1>1, <1>2, <1>3, <1>5, NamesDistinct DEF Staged, Shape, Exists, StateTemps,
     MarkerTemps, Stagings
<1>7. Advances(i)
  BY <1>5, NamesDistinct DEF Advances, Exists
<1>8. Legal(fs')
  BY <1>1, <1>6 DEF Legal
<1>9. Phases(i)'
  BY <1>1, <1>2, <1>5, <1>6 DEF Phases, AtRecovery, AtBuild, AtCommit, BuildSteps, CommitSteps
<1>10. Ownership(i)'
  BY <1>1, <1>5, NamesDistinct DEF Exists, Ownership, BeforeStaging, BeforeStateTemp, BeforeMarkerTemp,
     GitSteps,
     RecoverySteps
<1> QED
  BY <1>1, <1>7, <1>8, <1>9, <1>10, HolderStep DEF LockedSteps, BuildSteps

\* The staged tree is durable.
LEMMA SyncStagingStep ==
  ASSUME IInv, NEW i \in Invocations, SyncStaging(i)
  PROVE  IInv'
<1> DEFINE node == [fs[Staging(i)] EXCEPT !.synced = TRUE]
<1>1. /\ pc[i] = "syncStaging" /\ pc'[i] = "stateCreate" /\ Goto(i, pc[i], "stateCreate")
      /\ req[i] \in Indexed /\ req' = req
      /\ IsDirectory(fs) /\ fs \in images /\ Ownership(i)
      /\ Staged(fs, i) /\ fs[Staging(i)].files = req[i].arts
      /\ fs[Staging(i)].index = req[i].index
      /\ WriteNode(Staging(i), node)
  BY DEF SyncStaging, Goto, IInv, TypeOK, DirectoryPhases, Phases, AtRecovery, AtBuild, AtCommit,
     BuildSteps, CommitSteps
<1>11. Exists(fs, Staging(i))
  BY <1>1 DEF Staged, Shape, Stagings
<1>12. fs[Staging(i)] \in Trees
  BY <1>1, <1>11, NamesDistinct, NodeKinds DEF IsDirectory, Exists
<1>2. node \in Trees /\ node.files = req[i].arts /\ node.index = req[i].index /\ node.synced
  BY <1>1, <1>12 DEF Trees
<1>3. node # Absent
  BY <1>2, AbsentAssumption
<1> HIDE DEF node
<1>4. Exists(fs, Staging(i)) /\ \A d \in images : Exists(d, Staging(i)) => d = fs
  BY <1>1 DEF Staged, StateOpened, MarkerOpened, Shape, Stagings, StateTemps, MarkerTemps, Ownership
<1>5. /\ IsDirectory(fs')
      /\ fs'[Staging(i)] = node
      /\ \A y \in Names \ {Staging(i)} : fs'[y] = fs[y]
      /\ images' \subseteq images \cup {fs'}
      /\ fs' \in images'
      /\ \A d \in images' : Exists(d, Staging(i)) => d = fs'
  BY <1>1, <1>2, <1>3, <1>4, WriteEffect, NamesDistinct, NodeKinds
<1>6. Staged(fs', i)
  BY <1>1, <1>2, <1>3, <1>5, NamesDistinct DEF Staged, Shape, Exists, StateTemps,
     MarkerTemps, Stagings
<1>7. Advances(i)
  BY <1>5, NamesDistinct DEF Advances, Exists
<1>8. Legal(fs')
  BY <1>1, <1>6 DEF Legal
<1>9. Phases(i)'
  BY <1>1, <1>2, <1>5, <1>6 DEF Phases, AtRecovery, AtBuild, AtCommit, BuildSteps, CommitSteps
<1>10. Ownership(i)'
  BY <1>1, <1>5, NamesDistinct DEF Exists, Ownership, BeforeStaging, BeforeStateTemp, BeforeMarkerTemp,
     GitSteps,
     RecoverySteps
<1> QED
  BY <1>1, <1>7, <1>8, <1>9, <1>10, HolderStep DEF LockedSteps, BuildSteps

\* The state temporary is opened.
LEMMA StateCreateStep ==
  ASSUME IInv, JournalOrdered, NEW i \in Invocations, StateCreate(i)
  PROVE  IInv'
<1> DEFINE node == [sel |-> Torn, synced |-> FALSE]
<1>1. /\ pc[i] = "stateCreate" /\ pc'[i] = "stateWrite" /\ Goto(i, pc[i], "stateWrite")
      /\ req[i] \in Indexed /\ req' = req
      /\ IsDirectory(fs) /\ fs \in images /\ Ownership(i)
      /\ Staged(fs, i) /\ fs[Staging(i)].files = req[i].arts
      /\ fs[Staging(i)].index = req[i].index /\ fs[Staging(i)].synced
      /\ Create(StateTemp(i), node)
  BY DEF StateCreate, Goto, IInv, TypeOK, DirectoryPhases, Phases, AtRecovery, AtBuild, AtCommit,
     BuildSteps, CommitSteps
<1>2. node \in StateDocs /\ node.sel = Torn
  BY <1>1 DEF StateDocs
<1>3. node # Absent
  BY <1>2, AbsentAssumption
<1> HIDE DEF node
<1>5. /\ IsDirectory(fs')
      /\ fs'[StateTemp(i)] = node
      /\ \A y \in Names \ {StateTemp(i)} : fs'[y] = fs[y]
      /\ images' = images \cup {fs'}
  BY <1>1, <1>2, <1>3, CreateEffect, NamesDistinct, NodeKinds
<1>6. StateOpened(fs', i, req[i])
  BY <1>1, <1>2, <1>3, <1>5, NamesDistinct DEF Staged, StateOpened, Complete, ContentsValid, Shape, Exists,
     StateTemps,
     MarkerTemps, Stagings
<1>7. Advances(i)
  BY <1>5, NamesDistinct DEF Advances, Exists
<1>8. Legal(fs')
  BY <1>1, <1>6 DEF Legal
<1>9. Phases(i)'
  BY <1>1, <1>2, <1>5, <1>6 DEF Phases, AtRecovery, AtBuild, AtCommit, BuildSteps, CommitSteps
<1>10. Ownership(i)'
  BY <1>1, <1>5, NamesDistinct DEF Exists, Ownership, BeforeStaging, BeforeStateTemp, BeforeMarkerTemp,
     GitSteps,
     RecoverySteps
<1> QED
  BY <1>1, <1>7, <1>8, <1>9, <1>10, HolderStep DEF LockedSteps, BuildSteps

\* The state temporary is filled.
LEMMA StateWriteStep ==
  ASSUME IInv, NEW i \in Invocations, StateWrite(i)
  PROVE  IInv'
<1> DEFINE node == [sel |-> req[i], synced |-> TRUE]
<1>1. /\ pc[i] = "stateWrite" /\ pc'[i] = "markerCreate" /\ Goto(i, pc[i], "markerCreate")
      /\ req[i] \in Indexed /\ req' = req
      /\ IsDirectory(fs) /\ fs \in images /\ Ownership(i)
      /\ StateOpened(fs, i, req[i])
      /\ WriteNode(StateTemp(i), node)
  BY DEF StateWrite, Goto, IInv, TypeOK, DirectoryPhases, Phases, AtRecovery, AtBuild, AtCommit,
     BuildSteps, CommitSteps
<1>2. node \in StateDocs /\ Written(node, req[i])
  BY <1>1 DEF StateDocs, Written, Indexed
<1>3. node # Absent
  BY <1>2, AbsentAssumption
<1> HIDE DEF node
<1>4. Exists(fs, StateTemp(i)) /\ \A d \in images : Exists(d, StateTemp(i)) => d = fs
  BY <1>1 DEF Staged, StateOpened, MarkerOpened, Shape, Stagings, StateTemps, MarkerTemps, Ownership
<1>5. /\ IsDirectory(fs')
      /\ fs'[StateTemp(i)] = node
      /\ \A y \in Names \ {StateTemp(i)} : fs'[y] = fs[y]
      /\ images' \subseteq images \cup {fs'}
      /\ fs' \in images'
      /\ \A d \in images' : Exists(d, StateTemp(i)) => d = fs'
  BY <1>1, <1>2, <1>3, <1>4, WriteEffect, NamesDistinct, NodeKinds
<1>6. StatePrepared(fs', i, req[i])
  BY <1>1, <1>2, <1>3, <1>5, NamesDistinct DEF StateOpened, StatePrepared, Shape, Exists, StateTemps,
     MarkerTemps, Stagings
<1>7. Advances(i)
  BY <1>5, NamesDistinct DEF Advances, Exists
<1>8. Legal(fs')
  BY <1>1, <1>6 DEF Legal
<1>9. Phases(i)'
  BY <1>1, <1>2, <1>5, <1>6 DEF Phases, AtRecovery, AtBuild, AtCommit, BuildSteps, CommitSteps
<1>10. Ownership(i)'
  BY <1>1, <1>5, NamesDistinct DEF Exists, Ownership, BeforeStaging, BeforeStateTemp, BeforeMarkerTemp,
     GitSteps,
     RecoverySteps
<1> QED
  BY <1>1, <1>7, <1>8, <1>9, <1>10, HolderStep DEF LockedSteps, BuildSteps

\* The marker temporary is opened.
LEMMA MarkerCreateStep ==
  ASSUME IInv, JournalOrdered, NEW i \in Invocations, MarkerCreate(i)
  PROVE  IInv'
<1> DEFINE node == [sel |-> Torn, stateTemp |-> i, staging |-> i, synced |-> FALSE]
<1>1. /\ pc[i] = "markerCreate" /\ pc'[i] = "markerWrite" /\ Goto(i, pc[i], "markerWrite")
      /\ req[i] \in Indexed /\ req' = req
      /\ IsDirectory(fs) /\ fs \in images /\ Ownership(i)
      /\ StatePrepared(fs, i, req[i])
      /\ Create(MarkerTemp(i), node)
  BY DEF MarkerCreate, Goto, IInv, TypeOK, DirectoryPhases, Phases, AtRecovery, AtBuild, AtCommit,
     BuildSteps, CommitSteps
<1>2. node \in MarkerDocs /\ node.sel = Torn /\ node.stateTemp = i /\ node.staging = i
  BY <1>1 DEF MarkerDocs
<1>3. node # Absent
  BY <1>2, AbsentAssumption
<1> HIDE DEF node
<1>5. /\ IsDirectory(fs')
      /\ fs'[MarkerTemp(i)] = node
      /\ \A y \in Names \ {MarkerTemp(i)} : fs'[y] = fs[y]
      /\ images' = images \cup {fs'}
  BY <1>1, <1>2, <1>3, CreateEffect, NamesDistinct, NodeKinds
<1>6. MarkerOpened(fs', i, i, req[i])
  BY <1>1, <1>2, <1>3, <1>5, NamesDistinct DEF StatePrepared, MarkerOpened, Shape, Exists, StateTemps,
     MarkerTemps, Stagings
<1>7. Advances(i)
  BY <1>5, NamesDistinct DEF Advances, Exists
<1>8. Legal(fs')
  BY <1>1, <1>6 DEF Legal
<1>9. Phases(i)'
  BY <1>1, <1>2, <1>5, <1>6 DEF Phases, AtRecovery, AtBuild, AtCommit, BuildSteps, CommitSteps
<1>10. Ownership(i)'
  BY <1>1, <1>5, NamesDistinct DEF Exists, Ownership, BeforeStaging, BeforeStateTemp, BeforeMarkerTemp,
     GitSteps,
     RecoverySteps
<1> QED
  BY <1>1, <1>7, <1>8, <1>9, <1>10, HolderStep DEF LockedSteps, BuildSteps

\* The marker temporary is filled.
LEMMA MarkerWriteStep ==
  ASSUME IInv, NEW i \in Invocations, MarkerWrite(i)
  PROVE  IInv'
<1> DEFINE node == [sel |-> req[i], stateTemp |-> i, staging |-> i, synced |-> TRUE]
<1>1. /\ pc[i] = "markerWrite" /\ pc'[i] = "markerRename" /\ Goto(i, pc[i], "markerRename")
      /\ req[i] \in Indexed /\ req' = req
      /\ IsDirectory(fs) /\ fs \in images /\ Ownership(i)
      /\ MarkerOpened(fs, i, i, req[i])
      /\ WriteNode(MarkerTemp(i), node)
  BY DEF MarkerWrite, Goto, IInv, TypeOK, DirectoryPhases, Phases, AtRecovery, AtBuild, AtCommit,
     BuildSteps, CommitSteps
<1>2. node \in MarkerDocs /\ Binds(node, i, req[i])
  BY <1>1 DEF MarkerDocs, Binds, Written, Indexed
<1>3. node # Absent
  BY <1>2, AbsentAssumption
<1> HIDE DEF node
<1>4. Exists(fs, MarkerTemp(i)) /\ \A d \in images : Exists(d, MarkerTemp(i)) => d = fs
  BY <1>1 DEF Staged, StateOpened, MarkerOpened, Shape, Stagings, StateTemps, MarkerTemps, Ownership
<1>5. /\ IsDirectory(fs')
      /\ fs'[MarkerTemp(i)] = node
      /\ \A y \in Names \ {MarkerTemp(i)} : fs'[y] = fs[y]
      /\ images' \subseteq images \cup {fs'}
      /\ fs' \in images'
      /\ \A d \in images' : Exists(d, MarkerTemp(i)) => d = fs'
  BY <1>1, <1>2, <1>3, <1>4, WriteEffect, NamesDistinct, NodeKinds
<1>6. MarkerPrepared(fs', i, i, req[i])
  BY <1>1, <1>2, <1>3, <1>5, NamesDistinct DEF MarkerOpened, MarkerPrepared, Shape, Exists, StateTemps,
     MarkerTemps, Stagings
<1>7. Advances(i)
  BY <1>5, NamesDistinct DEF Advances, Exists
<1>8. Legal(fs')
  BY <1>1, <1>6 DEF Legal
<1>9. Phases(i)'
  BY <1>1, <1>2, <1>5, <1>6 DEF Phases, AtRecovery, AtBuild, AtCommit, BuildSteps, CommitSteps
<1>10. Ownership(i)'
  BY <1>1, <1>5, NamesDistinct DEF Exists, Ownership, BeforeStaging, BeforeStateTemp, BeforeMarkerTemp,
     GitSteps,
     RecoverySteps
<1> QED
  BY <1>1, <1>7, <1>8, <1>9, <1>10, HolderStep DEF LockedSteps, BuildSteps

(***************************************************************************)
(* The commit                                                              *)
(***************************************************************************)

\* Past the marker no temporaries of the invocation are being written.
LEMMA CommitOwnership ==
  ASSUME NEW i \in Invocations, pc'[i] \in CommitSteps
  PROVE  Ownership(i)'
BY DEF Ownership, CommitSteps, BeforeStaging, BeforeStateTemp, BeforeMarkerTemp, GitSteps,
       RecoverySteps

\* The marker is published.
LEMMA MarkerRenameStep ==
  ASSUME IInv, JournalOrdered, NEW i \in Invocations, MarkerRename(i)
  PROVE  IInv'
<1>1. /\ pc[i] = "markerRename" /\ pc'[i] = "markerSync" /\ Goto(i, pc[i], "markerSync")
      /\ req[i] \in Indexed /\ req' = req /\ MarkerPrepared(fs, i, i, req[i]) /\ Rename(MarkerTemp(i), Marker)
  BY DEF MarkerRename, Goto, IInv, TypeOK, DirectoryPhases, Phases, AtRecovery, AtBuild, AtCommit,
     BuildSteps, CommitSteps
<1>2. Advances(i) /\ Marked(fs', i, req[i])
  BY <1>1, MarkAdvances
<1>3. Legal(fs')
  BY <1>1, <1>2 DEF Legal
<1>4. Phases(i)'
  BY <1>1, <1>2 DEF Phases, AtRecovery, AtBuild, AtCommit, BuildSteps, CommitSteps
<1>5. Ownership(i)'
  BY <1>1, CommitOwnership DEF CommitSteps
<1> QED
  BY <1>1, <1>2, <1>3, <1>4, <1>5, HolderStep DEF LockedSteps, BuildSteps, CommitSteps

\* The marker is durable.
LEMMA MarkerSyncStep ==
  ASSUME IInv, NEW i \in Invocations, MarkerSync(i)
  PROVE  IInv'
<1>1. /\ pc[i] = "markerSync" /\ pc'[i] = "publish" /\ Goto(i, pc[i], "publish")
      /\ fs \in images /\ fs' = fs /\ images' = {fs} /\ req' = req /\ Phases(i)
  BY DEF MarkerSync, Goto, SyncRsolve, IInv, TypeOK, DirectoryPhases
<1>2. Phases(i)'
  BY <1>1 DEF Phases, AtRecovery, AtBuild, AtCommit, BuildSteps, CommitSteps
<1>3. Ownership(i)'
  BY <1>1, CommitOwnership DEF CommitSteps
<1> QED
  BY <1>1, <1>2, <1>3, HolderStays DEF LockedSteps, CommitSteps

\* The repository is published.
LEMMA PublishStep ==
  ASSUME IInv, JournalOrdered, NEW i \in Invocations, Publish(i)
  PROVE  IInv'
<1>1. /\ pc[i] = "publish" /\ pc'[i] = "publishSync" /\ Goto(i, pc[i], "publishSync")
      /\ req[i] \in Indexed /\ req' = req /\ Marked(fs, i, req[i]) /\ Rename(Staging(i), Repository)
  BY DEF Publish, Goto, IInv, TypeOK, DirectoryPhases, Phases, AtRecovery, AtBuild, AtCommit, BuildSteps,
     CommitSteps
<1>2. Advances(i) /\ Exposed(fs', i, req[i])
  BY <1>1, ExposeAdvances
<1>3. Legal(fs')
  BY <1>1, <1>2 DEF Legal
<1>4. Phases(i)'
  BY <1>1, <1>2 DEF Phases, AtRecovery, AtBuild, AtCommit, BuildSteps, CommitSteps
<1>5. Ownership(i)'
  BY <1>1, CommitOwnership DEF CommitSteps
<1> QED
  BY <1>1, <1>2, <1>3, <1>4, <1>5, HolderStep DEF LockedSteps, BuildSteps, CommitSteps

\* The repository is durable.
LEMMA PublishSyncStep ==
  ASSUME IInv, NEW i \in Invocations, PublishSync(i)
  PROVE  IInv'
<1>1. /\ pc[i] = "publishSync" /\ pc'[i] = "commit" /\ Goto(i, pc[i], "commit")
      /\ fs \in images /\ fs' = fs /\ images' = {fs} /\ req' = req /\ Phases(i)
  BY DEF PublishSync, Goto, SyncRsolve, IInv, TypeOK, DirectoryPhases
<1>2. Phases(i)'
  BY <1>1 DEF Phases, AtRecovery, AtBuild, AtCommit, BuildSteps, CommitSteps
<1>3. Ownership(i)'
  BY <1>1, CommitOwnership DEF CommitSteps
<1> QED
  BY <1>1, <1>2, <1>3, HolderStays DEF LockedSteps, CommitSteps

\* The state is published.
LEMMA CommitStep ==
  ASSUME IInv, JournalOrdered, NEW i \in Invocations, Commit(i)
  PROVE  IInv'
<1>1. /\ pc[i] = "commit" /\ pc'[i] = "commitSync" /\ Goto(i, pc[i], "commitSync")
      /\ req[i] \in Indexed /\ req' = req /\ Exposed(fs, i, req[i]) /\ Rename(StateTemp(i), State)
  BY DEF Commit, Goto, IInv, TypeOK, DirectoryPhases, Phases, AtRecovery, AtBuild, AtCommit, BuildSteps,
     CommitSteps
<1>2. Advances(i) /\ Committed(fs', i, req[i])
  BY <1>1, CommitAdvances
<1>3. Legal(fs')
  BY <1>1, <1>2 DEF Legal
<1>4. Phases(i)'
  BY <1>1, <1>2 DEF Phases, AtRecovery, AtBuild, AtCommit, BuildSteps, CommitSteps
<1>5. Ownership(i)'
  BY <1>1, CommitOwnership DEF CommitSteps
<1> QED
  BY <1>1, <1>2, <1>3, <1>4, <1>5, HolderStep DEF LockedSteps, BuildSteps, CommitSteps

\* The state is durable.
LEMMA CommitSyncStep ==
  ASSUME IInv, NEW i \in Invocations, CommitSync(i)
  PROVE  IInv'
<1>1. /\ pc[i] = "commitSync" /\ pc'[i] = "unmark" /\ Goto(i, pc[i], "unmark")
      /\ fs \in images /\ fs' = fs /\ images' = {fs} /\ req' = req /\ Phases(i)
  BY DEF CommitSync, Goto, SyncRsolve, IInv, TypeOK, DirectoryPhases
<1>2. Phases(i)'
  BY <1>1 DEF Phases, AtRecovery, AtBuild, AtCommit, BuildSteps, CommitSteps
<1>3. Ownership(i)'
  BY <1>1, CommitOwnership DEF CommitSteps
<1> QED
  BY <1>1, <1>2, <1>3, HolderStays DEF LockedSteps, CommitSteps

\* The marker is removed.
LEMMA UnmarkStep ==
  ASSUME IInv, JournalOrdered, NEW i \in Invocations, Unmark(i)
  PROVE  IInv'
<1>1. /\ pc[i] = "unmark" /\ pc'[i] = "unmarkSync" /\ Goto(i, pc[i], "unmarkSync")
      /\ req[i] \in Indexed /\ req' = req /\ Committed(fs, i, req[i]) /\ Remove(Marker)
  BY DEF Unmark, Goto, IInv, TypeOK, DirectoryPhases, Phases, AtRecovery, AtBuild, AtCommit, BuildSteps,
     CommitSteps
<1>2. Advances(i) /\ Finished(fs', req[i])
  BY <1>1, UnmarkAdvances
<1>3. Legal(fs')
  BY <1>1, <1>2 DEF Legal
<1>4. Phases(i)'
  BY <1>1, <1>2 DEF Phases, AtRecovery, AtBuild, AtCommit, BuildSteps, CommitSteps
<1>5. Ownership(i)'
  BY <1>1, CommitOwnership DEF CommitSteps
<1> QED
  BY <1>1, <1>2, <1>3, <1>4, <1>5, HolderStep DEF LockedSteps, BuildSteps, CommitSteps

\* Every step from the synced marker to the return preserves the invariant.
LEMMA FinishStep ==
  ASSUME IInv, JournalOrdered, NEW i \in Invocations, Finish(i)
  PROVE  IInv'
<1>1. CASE UnmarkSync(i)
  <2>1. Return(i, "ok") /\ fs' = fs /\ images' = {fs} /\ fs \in images
    BY <1>1 DEF UnmarkSync, SyncRsolve, IInv, TypeOK
  <2> QED
    BY <2>1, Leaves DEF Results
<1> QED
  BY <1>1, MarkerSyncStep, PublishStep, PublishSyncStep, CommitStep, CommitSyncStep, UnmarkStep
     DEF Finish

\* The error path: each removal leads back to an earlier phase.
LEMMA CleanStep ==
  ASSUME IInv, JournalOrdered, NEW i \in Invocations, Clean(i)
  PROVE  IInv'
<1>1. /\ pc[i] = "clean" /\ IsDirectory(fs) /\ fs \in images /\ Legal(fs)
      /\ ~Exists(fs, Marker) /\ MarkerTemps(fs) \subseteq {i}
  BY DEF Clean, Goto, IInv, TypeOK, DirectoryPhases, Phases, AtBuild
<1>2. ASSUME Goto(i, "clean", "clean"), Advances(i), Legal(fs'), ~Exists(fs', Marker),
             MarkerTemps(fs') \subseteq {i}
      PROVE  IInv'
  <2>1. pc'[i] = "clean" /\ Goto(i, pc[i], "clean")
    BY <1>1, <1>2 DEF Goto, IInv, TypeOK
  <2>2. Phases(i)'
    BY <1>2, <2>1 DEF Phases, AtRecovery, AtBuild, AtCommit, BuildSteps, CommitSteps
  <2>3. Ownership(i)'
    BY <2>1 DEF Ownership, BeforeStaging, BeforeStateTemp, BeforeMarkerTemp, GitSteps,
     RecoverySteps
  <2> QED
    BY <1>1, <1>2, <2>1, <2>2, <2>3, HolderStep DEF LockedSteps
<1>3. ASSUME NEW x \in {MarkerTemp(i), StateTemp(i), Staging(i)}, Remove(x)
      PROVE  /\ Advances(i) /\ fs'[x] = Absent /\ \A y \in Names \ {x} : fs'[y] = fs[y]
             /\ ~Exists(fs', Marker) /\ MarkerTemps(fs') \subseteq {i}
  <2>1. x \in Names /\ x # Marker
    BY <1>3, NamesDistinct
  <2>2. /\ IsDirectory(fs')
        /\ fs'[x] = Absent
        /\ \A y \in Names \ {x} : fs'[y] = fs[y]
        /\ images' = images \cup {fs'}
    BY <1>1, <1>3, <2>1, RemoveEffect
  <2> QED
    BY <1>1, <2>1, <2>2, NamesDistinct DEF Advances, Exists, MarkerTemps
<1>4. CASE Exists(fs, MarkerTemp(i)) /\ Goto(i, "clean", "clean") /\ Remove(MarkerTemp(i))
  <2>1. PICK n \in Invocations, s \in Indexed :
          MarkerOpened(fs, n, i, s) \/ MarkerPrepared(fs, n, i, s)
    BY <1>1, <1>4 DEF Legal, Empty, Staged, StateOpened, StatePrepared, MarkerOpened,
       MarkerPrepared, Marked, Exposed, Committed, Finished, Shape, MarkerTemps
  <2>2. StatePrepared(fs', n, s)
    BY <1>3, <1>4, <2>1, NamesDistinct DEF MarkerOpened, MarkerPrepared, StatePrepared, Shape,
       Exists, StateTemps, MarkerTemps, Stagings
  <2>3. Legal(fs')
    BY <2>2 DEF Legal
  <2> QED
    BY <1>2, <1>3, <1>4, <2>3
<1>5. CASE /\ ~Exists(fs, MarkerTemp(i)) /\ Exists(fs, StateTemp(i))
           /\ Goto(i, "clean", "clean") /\ Remove(StateTemp(i))
  <2>1. MarkerTemps(fs) = {}
    BY <1>1, <1>5 DEF MarkerTemps
  <2>2. PICK s \in Indexed : StateOpened(fs, i, s) \/ StatePrepared(fs, i, s)
    BY <1>1, <1>5, <2>1 DEF Legal, Empty, Staged, StateOpened, StatePrepared, MarkerOpened,
       MarkerPrepared, Marked, Exposed, Committed, Finished, Shape, StateTemps
  <2>3. Staged(fs', i)
    BY <1>3, <1>5, <2>2, NamesDistinct DEF StateOpened, StatePrepared, Staged, Shape,
       Exists, StateTemps, MarkerTemps, Stagings
  <2>4. Legal(fs')
    BY <2>3 DEF Legal
  <2> QED
    BY <1>2, <1>3, <1>5, <2>4
<1>6. CASE /\ ~Exists(fs, MarkerTemp(i)) /\ ~Exists(fs, StateTemp(i)) /\ Exists(fs, Staging(i))
           /\ Goto(i, "clean", "clean") /\ Remove(Staging(i))
  <2>1. Staged(fs, i)
    BY <1>1, <1>6 DEF Legal, Empty, Staged, StateOpened, StatePrepared, MarkerOpened,
       MarkerPrepared, Marked, Exposed, Committed, Finished, Shape, StateTemps, Stagings
  <2>2. Empty(fs')
    BY <1>3, <1>6, <2>1, NamesDistinct DEF Staged, Empty, Shape, Exists, StateTemps,
       MarkerTemps, Stagings
  <2>3. Legal(fs')
    BY <2>2 DEF Legal
  <2> QED
    BY <1>2, <1>3, <1>6, <2>3
<1>7. CASE Return(i, "io") /\ UNCHANGED <<fs, images>>
  BY <1>1, <1>7, Leaves DEF Results
<1> QED
  BY <1>4, <1>5, <1>6, <1>7, NamesDistinct DEF Clean

\* Every step up to the marker, and the error path, preserves the invariant.
LEMMA BuildStep ==
  ASSUME IInv, JournalOrdered, NEW i \in Invocations, Build(i)
  PROVE  IInv'
BY ExistingStep, MkStagingStep, CopyStep, WritePackagesStep, SyncStagingStep, StateCreateStep,
   StateWriteStep, MarkerCreateStep, MarkerWriteStep, MarkerRenameStep, CleanStep
   DEF Build


(***************************************************************************)
(* The environment                                                         *)
(***************************************************************************)

\* A failed call goes to the error path, or ends the invocation.
LEMMA IoFailsStep ==
  ASSUME IInv, NEW i \in Invocations, IoFails(i)
  PROVE  IInv'
<1>1. UNCHANGED <<fs, images>> /\ fs \in images /\ Phases(i)
  BY DEF IoFails, IInv, TypeOK, DirectoryPhases
<1>2. CASE Return(i, "io")
  BY <1>1, <1>2, Leaves DEF Results
<1>3. CASE pc[i] \in BuildSteps \cup {"recWrite"} /\ Goto(i, pc[i], "clean")
  <2>1. pc'[i] = "clean"
    BY <1>3 DEF Goto, IInv, TypeOK
  <2>2. ~Exists(fs, Marker) /\ MarkerTemps(fs) \subseteq {i}
    BY <1>1, <1>3 DEF Phases, AtRecovery, AtBuild, AtCommit, BuildSteps, CommitSteps, Empty, Staged,
       StateOpened, StatePrepared, MarkerOpened,
       MarkerPrepared, Shape
  <2>3. Phases(i)'
    BY <1>1, <2>1, <2>2 DEF Phases, AtRecovery, AtBuild, AtCommit, BuildSteps, CommitSteps, MarkerTemps
  <2>4. Ownership(i)'
    BY <2>1 DEF Ownership, BeforeStaging, BeforeStateTemp, BeforeMarkerTemp, GitSteps,
     RecoverySteps
  <2> QED
    BY <1>1, <1>3, <2>3, <2>4, HolderStays DEF LockedSteps, RecoverySteps
<1> QED
  BY <1>2, <1>3 DEF IoFails

\* A power loss keeps the nodes of the image it leaves and their synced content.
LEMMA SettleEffect ==
  ASSUME NEW d, IsDirectory(d), NEW lost \in SUBSET Unsynced(d)
  PROVE  /\ IsDirectory(Settle(d, lost))
         /\ \A x \in Names : Exists(Settle(d, lost), x) <=> Exists(d, x)
         /\ \A x \in Names : Exists(d, x) /\ d[x].synced => Settle(d, lost)[x] = d[x]
         /\ \A n \in Invocations :
              /\ Exists(d, StateTemp(n)) /\ d[StateTemp(n)].sel = Torn
                   => Settle(d, lost)[StateTemp(n)].sel = Torn
              /\ Exists(d, MarkerTemp(n)) /\ d[MarkerTemp(n)].sel = Torn
                   => /\ Settle(d, lost)[MarkerTemp(n)].sel = Torn
                      /\ Settle(d, lost)[MarkerTemp(n)].stateTemp = d[MarkerTemp(n)].stateTemp
                      /\ Settle(d, lost)[MarkerTemp(n)].staging = d[MarkerTemp(n)].staging
<1> DEFINE e == Settle(d, lost)
<1>1. ASSUME NEW x \in Names
      PROVE  /\ e[x] \in NodesOf(x)
             /\ Exists(e, x) <=> Exists(d, x)
             /\ Exists(d, x) /\ d[x].synced => e[x] = d[x]
  <2>1. CASE d[x] = Absent
    BY <2>1 DEF Settle, Exists, NodesOf
  <2>2. CASE d[x] # Absent /\ x[1] \in {"state", "stateTemp"}
    <3>1. d[x] \in StateDocs
      BY <2>2 DEF IsDirectory, NodesOf
    <3>2. e[x] = IF x \notin lost THEN [d[x] EXCEPT !.synced = TRUE]
                 ELSE [d[x] EXCEPT !.sel = Torn, !.synced = TRUE]
      BY <2>2 DEF Settle
    <3>3. e[x] \in StateDocs
      BY <3>1, <3>2 DEF StateDocs
    <3>4. d[x].synced => e[x] = d[x]
      BY <3>1, <3>2 DEF StateDocs, Unsynced
    <3> QED
      BY <2>2, <3>3, <3>4, AbsentAssumption DEF NodesOf, Exists
  <2>3. CASE d[x] # Absent /\ x[1] \in {"marker", "markerTemp"}
    <3>1. d[x] \in MarkerDocs
      BY <2>3 DEF IsDirectory, NodesOf
    <3>2. e[x] = IF x \notin lost THEN [d[x] EXCEPT !.synced = TRUE]
                 ELSE [d[x] EXCEPT !.sel = Torn, !.synced = TRUE]
      BY <2>3 DEF Settle
    <3>3. e[x] \in MarkerDocs
      BY <3>1, <3>2 DEF MarkerDocs
    <3>4. d[x].synced => e[x] = d[x]
      BY <3>1, <3>2 DEF MarkerDocs, Unsynced
    <3> QED
      BY <2>3, <3>3, <3>4, AbsentAssumption DEF NodesOf, Exists
  <2>4. CASE d[x] # Absent /\ x[1] \in {"repository", "staging"}
    <3>1. d[x] \in Trees
      BY <2>4 DEF IsDirectory, NodesOf
    <3>2. e[x] = IF x \notin lost THEN [d[x] EXCEPT !.synced = TRUE]
                 ELSE [files |-> {}, index |-> NoIndex, synced |-> TRUE]
      BY <2>4 DEF Settle
    <3>3. e[x] \in Trees
      <4>1. [d[x] EXCEPT !.synced = TRUE] \in Trees
        BY <3>1 DEF Trees
      <4>2. [files |-> {}, index |-> NoIndex, synced |-> TRUE] \in Trees
        BY DEF Trees, Indexes
      <4> QED
        BY <3>2, <4>1, <4>2
    <3>4. d[x].synced => e[x] = d[x]
      BY <3>1, <3>2 DEF Trees, Unsynced
    <3> QED
      BY <2>4, <3>3, <3>4, AbsentAssumption DEF NodesOf, Exists
  <2> QED
    BY <2>1, <2>2, <2>3, <2>4 DEF Names, State, Marker, Repository, StateTemp, MarkerTemp, Staging
<1>2. IsDirectory(e)
  <2>1. e = [x \in Names |-> e[x]]
    BY DEF Settle
  <2>2. \A x \in Names : e[x] \in Nodes
    BY <1>1, NodesOfNodes
  <2> HIDE DEF e
  <2> QED
    BY <1>1, <2>1, <2>2 DEF IsDirectory
<1>3. ASSUME NEW n \in Invocations
      PROVE  /\ Exists(d, StateTemp(n)) /\ d[StateTemp(n)].sel = Torn => e[StateTemp(n)].sel = Torn
             /\ Exists(d, MarkerTemp(n)) /\ d[MarkerTemp(n)].sel = Torn
                  => /\ e[MarkerTemp(n)].sel = Torn
                     /\ e[MarkerTemp(n)].stateTemp = d[MarkerTemp(n)].stateTemp
                     /\ e[MarkerTemp(n)].staging = d[MarkerTemp(n)].staging
  <2>1. Exists(d, StateTemp(n)) => d[StateTemp(n)] \in StateDocs
    BY NamesDistinct, NodeKinds DEF IsDirectory, Exists
  <2>2. Exists(d, MarkerTemp(n)) => d[MarkerTemp(n)] \in MarkerDocs
    BY NamesDistinct, NodeKinds DEF IsDirectory, Exists
  <2>3. Exists(d, StateTemp(n)) =>
          e[StateTemp(n)] = IF StateTemp(n) \notin lost
                            THEN [d[StateTemp(n)] EXCEPT !.synced = TRUE]
                            ELSE [d[StateTemp(n)] EXCEPT !.sel = Torn, !.synced = TRUE]
    BY NamesDistinct DEF Settle, Exists, StateTemp
  <2>4. Exists(d, MarkerTemp(n)) =>
          e[MarkerTemp(n)] = IF MarkerTemp(n) \notin lost
                            THEN [d[MarkerTemp(n)] EXCEPT !.synced = TRUE]
                            ELSE [d[MarkerTemp(n)] EXCEPT !.sel = Torn, !.synced = TRUE]
    BY NamesDistinct DEF Settle, Exists, MarkerTemp
  <2> HIDE DEF e
  <2> QED
    BY <2>1, <2>2, <2>3, <2>4 DEF StateDocs, MarkerDocs
<1> QED
  BY <1>1, <1>2, <1>3

\* A power loss leaves a legal directory in its phase.
LEMMA SettleLegal ==
  ASSUME NEW d, IsDirectory(d), Legal(d), NEW lost \in SUBSET Unsynced(d)
  PROVE  Legal(Settle(d, lost))
<1> DEFINE e == Settle(d, lost)
<1>1. /\ \A x \in Names : Exists(e, x) <=> Exists(d, x)
      /\ \A x \in Names : Exists(d, x) /\ d[x].synced => e[x] = d[x]
      /\ \A n \in Invocations :
              /\ Exists(d, StateTemp(n)) /\ d[StateTemp(n)].sel = Torn
                   => e[StateTemp(n)].sel = Torn
              /\ Exists(d, MarkerTemp(n)) /\ d[MarkerTemp(n)].sel = Torn
                   => /\ e[MarkerTemp(n)].sel = Torn
                      /\ e[MarkerTemp(n)].stateTemp = d[MarkerTemp(n)].stateTemp
                      /\ e[MarkerTemp(n)].staging = d[MarkerTemp(n)].staging
  BY SettleEffect
<1> HIDE DEF e
<1>2. /\ Exists(e, State) <=> Exists(d, State)
      /\ Exists(e, Marker) <=> Exists(d, Marker)
      /\ Exists(e, Repository) <=> Exists(d, Repository)
      /\ StateTemps(e) = StateTemps(d)
      /\ MarkerTemps(e) = MarkerTemps(d)
      /\ Stagings(e) = Stagings(d)
  BY <1>1, NamesDistinct DEF StateTemps, MarkerTemps, Stagings
<1>3. ASSUME Empty(d) PROVE Legal(e)
  BY <1>2, <1>3 DEF Empty, Shape, Legal
<1>4. ASSUME NEW n \in Invocations, Staged(d, n) PROVE Legal(e)
  BY <1>2, <1>4 DEF Staged, Shape, Legal
<1>5. ASSUME NEW n \in Invocations, NEW s \in Indexed, StateOpened(d, n, s) PROVE Legal(e)
  <2>1. StateOpened(e, n, s)
    BY <1>1, <1>2, <1>5, NamesDistinct DEF StateOpened, Shape, Complete, StateTemps, Stagings
  <2> QED
    BY <2>1 DEF Legal
<1>6. ASSUME NEW n \in Invocations, NEW s \in Indexed, StatePrepared(d, n, s) PROVE Legal(e)
  <2>1. StatePrepared(e, n, s)
    BY <1>1, <1>2, <1>6, NamesDistinct DEF StatePrepared, Shape, Complete, Written, StateTemps,
       Stagings
  <2> QED
    BY <2>1 DEF Legal
<1>7. ASSUME NEW n \in Invocations, NEW m \in Invocations, NEW s \in Indexed,
             MarkerOpened(d, n, m, s)
      PROVE  Legal(e)
  <2>1. MarkerOpened(e, n, m, s)
    BY <1>1, <1>2, <1>7, NamesDistinct DEF MarkerOpened, Shape, Complete, Written, StateTemps,
       Stagings, MarkerTemps
  <2> QED
    BY <2>1 DEF Legal
<1>8. ASSUME NEW n \in Invocations, NEW m \in Invocations, NEW s \in Indexed,
             MarkerPrepared(d, n, m, s)
      PROVE  Legal(e)
  <2>1. MarkerPrepared(e, n, m, s)
    BY <1>1, <1>2, <1>8, NamesDistinct DEF MarkerPrepared, Shape, Complete, Written, Binds,
       StateTemps, Stagings, MarkerTemps
  <2> QED
    BY <2>1 DEF Legal
<1>9. ASSUME NEW n \in Invocations, NEW s \in Indexed, Marked(d, n, s) PROVE Legal(e)
  <2>1. Marked(e, n, s)
    BY <1>1, <1>2, <1>9, NamesDistinct DEF Marked, Shape, Complete, Written, Binds, StateTemps,
       Stagings
  <2> QED
    BY <2>1 DEF Legal
<1>10. ASSUME NEW n \in Invocations, NEW s \in Indexed, Exposed(d, n, s) PROVE Legal(e)
  <2>1. Exposed(e, n, s)
    BY <1>1, <1>2, <1>10, NamesDistinct DEF Exposed, Shape, Complete, Written, Binds, StateTemps
  <2> QED
    BY <2>1 DEF Legal
<1>11. ASSUME NEW n \in Invocations, NEW s \in Indexed, Committed(d, n, s) PROVE Legal(e)
  <2>1. Committed(e, n, s)
    BY <1>1, <1>2, <1>11, NamesDistinct DEF Committed, Shape, Complete, Written, Binds
  <2> QED
    BY <2>1 DEF Legal
<1>12. ASSUME NEW s \in Indexed, Finished(d, s) PROVE Legal(e)
  <2>1. Finished(e, s)
    BY <1>1, <1>2, <1>12, NamesDistinct DEF Finished, Shape, Complete, Written
  <2> QED
    BY <2>1 DEF Legal
<1> QED
  BY <1>3, <1>4, <1>5, <1>6, <1>7, <1>8, <1>9, <1>10, <1>11, <1>12 DEF Legal, e

\* After a power loss nobody holds the lock and nobody runs.
LEMMA PowerLossStep ==
  ASSUME IInv, PowerLoss
  PROVE  IInv'
<1>0. PICK d \in images : \E lost \in SUBSET Unsynced(d) :
         fs' = Settle(d, lost) /\ images' = {Settle(d, lost)}
  BY DEF PowerLoss
<1>1. PICK lost \in SUBSET Unsynced(d) : fs' = Settle(d, lost) /\ images' = {Settle(d, lost)}
  BY <1>0
<1>2. IsDirectory(d) /\ Legal(d)
  BY DEF IInv, TypeOK, DirectoryPhases
<1>3. /\ IsDirectory(fs') /\ Legal(fs')
      /\ \A x \in Names : Exists(fs', x) <=> Exists(d, x)
  BY <1>1, <1>2, SettleEffect, SettleLegal
<1>4. \A i \in Invocations : pc'[i] \in {"idle", "done"} /\ (pc'[i] = "idle" => pc[i] = "idle")
  BY DEF PowerLoss, Active
<1>5. TypeOK'
  <2>1. pc' \in [Invocations -> Steps] /\ result' \in [Invocations -> Results]
    BY DEF PowerLoss, IInv, TypeOK, Steps, Results
  <2>2. gitignore' \in {"absent", "torn", "ok"}
    BY DEF PowerLoss, IInv, TypeOK
  <2> QED
    BY <1>1, <1>3, <2>1, <2>2 DEF PowerLoss, IInv, TypeOK
<1>6. Exclusion'
  BY <1>4 DEF Exclusion, LockedSteps, RecoverySteps, BuildSteps, CommitSteps
<1>7. ASSUME NEW i \in Invocations PROVE Phases(i)' /\ Ownership(i)'
  <2>1. Phases(i)'
    BY <1>4 DEF Phases, AtRecovery, AtBuild, AtCommit, BuildSteps, CommitSteps
  <2>2. pc[i] = "idle" =>
          ~Exists(d, Staging(i)) /\ ~Exists(d, StateTemp(i)) /\ ~Exists(d, MarkerTemp(i))
    BY DEF IInv, DirectoryPhases, Ownership, BeforeStaging, BeforeStateTemp, BeforeMarkerTemp
  <2>3. \A e \in images' : e = fs'
    BY <1>1
  <2> QED
    BY <1>3, <1>4, <2>1, <2>2, <2>3, NamesDistinct DEF Ownership, BeforeStaging, BeforeStateTemp,
       BeforeMarkerTemp, GitSteps, RecoverySteps
<1> QED
  BY <1>1, <1>3, <1>5, <1>6, <1>7 DEF IInv, DirectoryPhases

(***************************************************************************)
(* The theorems                                                            *)
(***************************************************************************)

\* The invariant holds in the empty directory.
LEMMA InitIInv == Init => IInv
<1> SUFFICES ASSUME Init PROVE IInv
  OBVIOUS
<1>1. \A x \in Names : fs[x] = Absent /\ Absent \in NodesOf(x) /\ Absent \in Nodes
  BY DEF Init, EmptyDirectory, NodesOf, Nodes
<1>2. IsDirectory(fs) /\ images = {fs}
  BY <1>1 DEF IsDirectory, Init, EmptyDirectory
<1>3. TypeOK
  BY <1>2 DEF Init, TypeOK, Steps, Results
<1>4. Empty(fs)
  BY <1>1, NamesDistinct DEF Empty, Shape, Exists, StateTemps, MarkerTemps, Stagings
<1>5. Exclusion
  BY DEF Init, Exclusion, LockedSteps, RecoverySteps, BuildSteps, CommitSteps
<1>6. ASSUME NEW i \in Invocations PROVE Phases(i) /\ Ownership(i)
  <2>1. pc[i] = "idle"
    BY DEF Init
  <2>2. Phases(i)
    BY <2>1 DEF Phases, AtRecovery, AtBuild, AtCommit, BuildSteps, CommitSteps
  <2> QED
    BY <1>1, <1>2, <2>1, <2>2, NamesDistinct DEF Ownership, Exists
<1> QED
  BY <1>2, <1>3, <1>4, <1>5, <1>6 DEF IInv, DirectoryPhases, Legal

\* Every step of every invocation, and every failure, preserves it.
LEMMA NextIInv ==
  ASSUME JournalOrdered, IInv, [Next]_vars
  PROVE  IInv'
<1>1. ASSUME NEW i \in Invocations, Step(i) PROVE IInv'
  BY <1>1, EntryStep, RecoveryStep, BuildStep, FinishStep DEF Step
<1>2. ASSUME NEW i \in Invocations, IoFails(i) PROVE IInv'
  BY <1>2, IoFailsStep
<1>3. ASSUME NEW i \in Invocations, Kill(i) PROVE IInv'
  <2>1. Return(i, "killed") /\ UNCHANGED <<fs, images>> /\ fs \in images
    BY <1>3 DEF Kill, IInv, TypeOK
  <2> QED
    BY <2>1, Leaves DEF Results
<1>4. CASE PowerLoss
  BY <1>4, PowerLossStep
<1>5. CASE UNCHANGED vars
  BY <1>5 DEF vars, IInv, TypeOK, DirectoryPhases, Exclusion, Phases, AtRecovery, AtBuild,
     AtCommit, Ownership
<1> QED
  BY <1>1, <1>2, <1>3, <1>4, <1>5 DEF Next

\* Every directory that exists or may be left by a crash is in a phase of one
\* transaction, and the lock holder's step fixes the phase of the current one.
THEOREM PhasesHold == ASSUME JournalOrdered PROVE Spec => [](TypeOK /\ DirectoryPhases)
<1>1. Init => IInv
  BY InitIInv
<1>2. IInv /\ [Next]_vars => IInv'
  BY NextIInv
<1> QED
  BY <1>1, <1>2, PTL DEF Spec, IInv

\* A committed state describes a complete repository, crash or no crash.
THEOREM StateDescribesRepository == ASSUME JournalOrdered PROVE Spec => []StateImpliesRepository
<1>1. DirectoryPhases => StateImpliesRepository
  BY TornAssumption DEF DirectoryPhases, StateImpliesRepository, Legal, Empty, Staged, StateOpened,
     StatePrepared, MarkerOpened, MarkerPrepared, Marked, Exposed, Committed, Finished, Shape,
     Complete, Written, Indexed
<1> QED
  BY <1>1, PhasesHold, PTL

\* From the marker rename on, an interrupted materialization can always be
\* completed by recover for the selection that it was for.
THEOREM AlwaysRecoverable == ASSUME JournalOrdered PROVE Spec => []InterruptedIsRecoverable
<1>1. ASSUME DirectoryPhases, NEW d \in images, Exists(d, Marker)
      PROVE  d[Marker].sel # Torn /\ Recoverable(d, d[Marker].sel)
  <2>1. PICK n \in Invocations, s \in Indexed :
           Marked(d, n, s) \/ Exposed(d, n, s) \/ Committed(d, n, s)
    BY <1>1, MarkerPhases DEF DirectoryPhases
  <2>2. d[Marker].sel = s /\ d[Marker].stateTemp = n /\ d[Marker].staging = n /\ s # Torn
    BY <2>1, TornAssumption DEF Marked, Exposed, Committed, Binds, Written, Indexed
  <2>3. CASE Marked(d, n, s)
    BY <2>2, <2>3 DEF Marked, Recoverable, Shape, Stagings, RecordsMatch, IndexMatches, StateMatches,
       Written, Complete, Indexed, Exists
  <2>4. CASE Exposed(d, n, s)
    BY <2>2, <2>4 DEF Exposed, Recoverable, Shape, Stagings, RecordsMatch, IndexMatches, StateMatches,
       Written, Complete, Indexed, Exists
  <2>5. CASE Committed(d, n, s)
    BY <2>2, <2>5 DEF Committed, Recoverable, Shape, Stagings, RecordsMatch, IndexMatches,
       StateMatches, Written, Complete, Indexed, Exists
  <2> QED
    BY <2>1, <2>2, <2>3, <2>4, <2>5
<1>2. DirectoryPhases => InterruptedIsRecoverable
  BY <1>1 DEF InterruptedIsRecoverable
<1> QED
  BY <1>2, PhasesHold, PTL

(***************************************************************************)
(* The refinement of ProjectView                                           *)
(***************************************************************************)

\* A directory without marker and state is bound to nothing.
LEMMA Unbound ==
  ASSUME NEW d, ~Exists(d, Marker), ~Exists(d, State), NEW s
  PROVE  ~BoundTo(d, s)
BY DEF BoundTo, Finished, Marked, Exposed, Committed, Shape

\* A legal directory serves the selection it is bound to, and no other.
LEMMA ServesIsBound ==
  ASSUME NEW d, Legal(d), NEW s \in Selections
  PROVE  Serves(d, s) <=> s \in Indexed /\ BoundTo(d, s)
<1>1. CASE Exists(d, Marker)
  <2>1. PICK n \in Invocations, t \in Indexed :
           Marked(d, n, t) \/ Exposed(d, n, t) \/ Committed(d, n, t)
    BY <1>1, MarkerPhases
  <2>2. /\ d[Marker].sel = t /\ d[Marker].stateTemp = n /\ d[Marker].staging = n /\ t # Torn
        /\ t \in Selections /\ t.index # NoIndex
    BY <2>1, TornAssumption DEF Marked, Exposed, Committed, Binds, Written, Indexed
  <2>3. Recoverable(d, t)
    <3>1. CASE Marked(d, n, t)
      BY <2>2, <3>1 DEF Marked, Recoverable, Shape, Stagings, RecordsMatch, IndexMatches,
         StateMatches, Written, Complete, Exists
    <3>2. CASE Exposed(d, n, t)
      BY <2>2, <3>2 DEF Exposed, Recoverable, Shape, Stagings, RecordsMatch, IndexMatches,
         StateMatches, Written, Complete, Exists
    <3>3. CASE Committed(d, n, t)
      BY <2>2, <3>3 DEF Committed, Recoverable, Shape, Stagings, RecordsMatch, IndexMatches,
         StateMatches, Written, Complete, Exists
    <3> QED
      BY <2>1, <3>1, <3>2, <3>3
  <2>4. Recoverable(d, s) => s = t
    BY <2>2, SelectionsAssumption DEF Recoverable, RecordsMatch, IndexMatches
  <2>5. BoundTo(d, t)
    BY <2>1 DEF BoundTo
  <2>6. BoundTo(d, s) => s = t
    BY <1>1, <2>2 DEF BoundTo, Finished, Shape, Marked, Exposed, Committed, Binds, Written
  <2> QED
    BY <1>1, <2>2, <2>3, <2>4, <2>5, <2>6 DEF Serves, Indexed
<1>2. CASE ~Exists(d, Marker)
  <2>1. ASSUME BoundTo(d, s), s \in Indexed PROVE Serves(d, s)
    <3>1. Finished(d, s)
      BY <1>2, <2>1 DEF BoundTo, Marked, Exposed, Committed, Shape
    <3>2. s # Torn
      BY TornAssumption
    <3> QED
      BY <1>2, <2>1, <3>1, <3>2 DEF Finished, Shape, Serves, NoTemporaries, ExistingMatches,
         RecordsMatch, IndexMatches, Complete, Written, ContentsValid, Indexed
  <2>2. ASSUME Serves(d, s) PROVE s \in Indexed /\ BoundTo(d, s)
    <3>1. NoTemporaries(d) /\ Exists(d, State) /\ ExistingMatches(d, s)
      BY <1>2, <2>2 DEF Serves
    <3>2. PICK t \in Indexed : Finished(d, t)
      BY <1>2, <3>1, QuietPhases DEF Empty, Shape
    <3>3. s = t
      BY <3>1, <3>2, SelectionsAssumption DEF ExistingMatches, RecordsMatch, IndexMatches, Finished,
         Written, Indexed
    <3> QED
      BY <3>2, <3>3 DEF BoundTo
  <2> QED
    BY <2>1, <2>2
<1> QED
  BY <1>1, <1>2

\* A directory is bound to one selection at most.
LEMMA BoundOnce ==
  ASSUME NEW d, NEW s, NEW t, BoundTo(d, s), BoundTo(d, t)
  PROVE  s = t
<1>1. CASE Exists(d, Marker)
  BY <1>1 DEF BoundTo, Finished, Shape, Marked, Exposed, Committed, Binds, Written
<1>2. CASE ~Exists(d, Marker)
  BY <1>2 DEF BoundTo, Finished, Shape, Marked, Exposed, Committed, Written
<1> QED
  BY <1>1, <1>2

\* The project is bound to s exactly when every directory that may be left is.
LEMMA BoundIsSelection ==
  IInv =>
    /\ \A s \in Indexed : BoundSelection = s <=> \A d \in images : BoundTo(d, s)
    /\ BoundSelection # Absent => BoundSelection \in Indexed
<1> SUFFICES ASSUME IInv
             PROVE  /\ \A s \in Indexed : BoundSelection = s <=> \A d \in images : BoundTo(d, s)
                    /\ BoundSelection # Absent => BoundSelection \in Indexed
  OBVIOUS
<1>1. fs \in images /\ \A d \in images : Legal(d)
  BY DEF IInv, TypeOK, DirectoryPhases
<1>2. \A s \in Selections : (\A d \in images : Serves(d, s)) <=>
                              s \in Indexed /\ \A d \in images : BoundTo(d, s)
  BY <1>1, ServesIsBound
<1>3. CASE \E s \in Selections : \A d \in images : Serves(d, s)
  <2>0. {s \in Selections : \A d \in images : Serves(d, s)} # {}
    BY <1>3
  <2>1. BoundSelection \in Selections /\ \A d \in images : Serves(d, BoundSelection)
    BY <2>0 DEF BoundSelection
  <2>2. BoundSelection \in Indexed /\ \A d \in images : BoundTo(d, BoundSelection)
    BY <2>1, <1>2
  <2>3. \A s : BoundTo(fs, s) => s = BoundSelection
    BY <1>1, <2>2, BoundOnce
  <2> QED
    BY <1>1, <2>2, <2>3
<1>4. CASE ~\E s \in Selections : \A d \in images : Serves(d, s)
  <2>0. {s \in Selections : \A d \in images : Serves(d, s)} = {}
    BY <1>4
  <2>1. BoundSelection = Absent
    BY <2>0 DEF BoundSelection
  <2>2. Absent \notin Indexed
    BY AbsentAssumption DEF Indexed
  <2>3. \A s \in Indexed : ~\A d \in images : BoundTo(d, s)
    BY <1>2, <1>4 DEF Indexed
  <2> QED
    BY <2>1, <2>2, <2>3
<1> QED
  BY <1>3, <1>4

\* The same of the next state.
LEMMA BoundIsSelectionNext ==
  IInv' =>
    /\ \A s \in Indexed : BoundSelection' = s <=> \A d \in images' : BoundTo(d, s)
    /\ BoundSelection' # Absent => BoundSelection' \in Indexed
<1>1. (IInv => /\ \A s \in Indexed : BoundSelection = s <=> \A d \in images : BoundTo(d, s)
               /\ BoundSelection # Absent => BoundSelection \in Indexed)'
  BY BoundIsSelection, PTL
<1> QED
  BY <1>1

\* The directory shows s exactly when it is bound to s.
LEMMA ShownIsSelection ==
  IInv =>
    /\ \A s \in Indexed : ShownSelection = s <=> BoundTo(fs, s)
    /\ ShownSelection # Absent => ShownSelection \in Indexed
<1> SUFFICES ASSUME IInv
             PROVE  /\ \A s \in Indexed : ShownSelection = s <=> BoundTo(fs, s)
                    /\ ShownSelection # Absent => ShownSelection \in Indexed
  OBVIOUS
<1>1. Legal(fs)
  BY DEF IInv, TypeOK, DirectoryPhases
<1>2. \A s \in Selections : Serves(fs, s) <=> s \in Indexed /\ BoundTo(fs, s)
  BY <1>1, ServesIsBound
<1> DEFINE served == {s \in Selections : Serves(fs, s)}
<1>3. CASE served # {}
  <2>1. ShownSelection \in served
    BY <1>3 DEF ShownSelection
  <2>2. ShownSelection \in Indexed /\ BoundTo(fs, ShownSelection)
    BY <2>1, <1>2
  <2>3. \A s : BoundTo(fs, s) => s = ShownSelection
    BY <2>2, BoundOnce
  <2> QED
    BY <2>2, <2>3
<1>4. CASE served = {}
  <2>1. ShownSelection = Absent
    BY <1>4 DEF ShownSelection
  <2>2. Absent \notin Indexed
    BY AbsentAssumption DEF Indexed
  <2>3. \A s \in Indexed : ~BoundTo(fs, s)
    BY <1>2, <1>4 DEF Indexed
  <2> QED
    BY <2>1, <2>2, <2>3
<1> QED
  BY <1>3, <1>4

\* The same of the next state.
LEMMA ShownIsSelectionNext ==
  IInv' =>
    /\ \A s \in Indexed : ShownSelection' = s <=> BoundTo(fs', s)
    /\ ShownSelection' # Absent => ShownSelection' \in Indexed
<1>1. (IInv => /\ \A s \in Indexed : ShownSelection = s <=> BoundTo(fs, s)
               /\ ShownSelection # Absent => ShownSelection \in Indexed)'
  BY ShownIsSelection, PTL
<1> QED
  BY <1>1

\* A legal directory with a marker or a state is bound to something.
LEMMA LegalBound ==
  ASSUME NEW d, Legal(d), Exists(d, Marker) \/ Exists(d, State)
  PROVE  \E s \in Indexed : BoundTo(d, s)
<1>1. CASE Exists(d, Marker)
  BY <1>1, MarkerPhases DEF BoundTo
<1>2. CASE ~Exists(d, Marker)
  BY <1>2 DEF Legal, BoundTo, Empty, Staged, StateOpened, StatePrepared, MarkerOpened,
     MarkerPrepared, Marked, Exposed, Committed, Shape
<1> QED
  BY <1>1, <1>2

\* The effects on the documents.  A rename moves one.
LEMMA AskedRename ==
  ASSUME JournalOrdered, IInv, \A d \in images : Asked(d), req' = req,
         NEW from \in Names, NEW to \in Names, from # to, NodesOf(from) = NodesOf(to),
         to \in Documents => from \in Documents, Rename(from, to)
  PROVE  \A d \in images' : Asked(d)'
<1>1. IsDirectory(fs) /\ fs \in images
  BY DEF IInv, TypeOK
<1>2. /\ fs'[from] = Absent /\ fs'[to] = fs[from]
      /\ \A x \in Names \ {from, to} : fs'[x] = fs[x]
      /\ images' = images \cup {fs'}
  BY <1>1, RenameEffect
<1>3. Documents \subseteq Names
  BY DEF Documents, Names
<1>4. Asked(fs)
  BY <1>1
<1> SUFFICES ASSUME NEW d \in images' PROVE Asked(d)'
  OBVIOUS
<1>5. CASE d \in images
  BY <1>5 DEF Asked
<1>6. CASE d = fs'
  BY <1>2, <1>3, <1>4, <1>6 DEF Asked, Exists
<1> QED
  BY <1>2, <1>5, <1>6

\* A creation adds a torn document.
LEMMA AskedCreate ==
  ASSUME JournalOrdered, IInv, \A d \in images : Asked(d), req' = req,
         NEW x \in Names, NEW node \in NodesOf(x), x \in Documents => node.sel = Torn,
         Create(x, node)
  PROVE  \A d \in images' : Asked(d)'
<1>1. IsDirectory(fs) /\ fs \in images
  BY DEF IInv, TypeOK
<1>2. /\ fs'[x] = node /\ images' = images \cup {fs'}
      /\ \A y \in Names \ {x} : fs'[y] = fs[y]
  BY <1>1, CreateEffect
<1>3. Documents \subseteq Names
  BY DEF Documents, Names
<1>4. Asked(fs)
  BY <1>1
<1> SUFFICES ASSUME NEW d \in images' PROVE Asked(d)'
  OBVIOUS
<1>5. CASE d \in images
  BY <1>5 DEF Asked
<1>6. CASE d = fs'
  BY <1>2, <1>3, <1>4, <1>6 DEF Asked, Exists
<1> QED
  BY <1>2, <1>5, <1>6

\* A removal takes one away.
LEMMA AskedRemove ==
  ASSUME JournalOrdered, IInv, \A d \in images : Asked(d), req' = req,
         NEW x \in Names, Remove(x)
  PROVE  \A d \in images' : Asked(d)'
<1>1. IsDirectory(fs) /\ fs \in images
  BY DEF IInv, TypeOK
<1>2. /\ fs'[x] = Absent /\ images' = images \cup {fs'}
      /\ \A y \in Names \ {x} : fs'[y] = fs[y]
  BY <1>1, RemoveEffect
<1>3. Documents \subseteq Names
  BY DEF Documents, Names
<1>4. Asked(fs)
  BY <1>1
<1> SUFFICES ASSUME NEW d \in images' PROVE Asked(d)'
  OBVIOUS
<1>5. CASE d \in images
  BY <1>5 DEF Asked
<1>6. CASE d = fs'
  BY <1>2, <1>3, <1>4, <1>6 DEF Asked, Exists
<1> QED
  BY <1>2, <1>5, <1>6

\* A write fills one with what was asked for.
LEMMA AskedWrite ==
  ASSUME IInv, \A d \in images : Asked(d), req' = req, NEW x \in Names, NEW node,
         x \in Documents => \E i \in Invocations : node.sel = req[i],
         WriteNode(x, node)
  PROVE  \A d \in images' : Asked(d)'
<1> SUFFICES ASSUME NEW d \in images' PROVE Asked(d)'
  OBVIOUS
<1>1. PICK im \in images : d = IF im[x] = Absent THEN im ELSE [im EXCEPT ![x] = node]
  BY DEF WriteNode
<1>2. Asked(im) /\ DOMAIN im = Names
  BY DEF IInv, TypeOK, IsDirectory
<1>3. Documents \subseteq Names
  BY DEF Documents, Names
<1>4. \A y \in Documents : d[y] = im[y] \/ (y = x /\ d[y] = node)
  BY <1>1, <1>2, <1>3
<1>5. \A y \in Documents : Exists(d, y) => Exists(im, y)
  BY <1>1, <1>2, <1>3 DEF Exists
<1> QED
  BY <1>2, <1>4, <1>5 DEF Asked

\* A sync of the directory drops images.
LEMMA AskedStays ==
  ASSUME \A d \in images : Asked(d), req' = req, images' \subseteq images
  PROVE  \A d \in images' : Asked(d)'
BY DEF Asked

\* A power loss may tear a document, and invents none.
LEMMA AskedSettle ==
  ASSUME NEW d, IsDirectory(d), Asked(d), NEW lost \in SUBSET Unsynced(d), req' = req
  PROVE  Asked(Settle(d, lost))'
<1> DEFINE e == Settle(d, lost)
<1> SUFFICES ASSUME NEW x \in Documents, Exists(e, x)
             PROVE  e[x].sel = Torn \/ \E i \in Invocations : e[x].sel = req[i]
  BY DEF Asked
<1>1. x \in Names /\ x[1] \notin {"repository", "staging"} /\ Exists(d, x)
  <2>1. x \in Names /\ x[1] \notin {"repository", "staging"}
    BY DEF Documents, Names, State, Marker, StateTemp, MarkerTemp
  <2> QED
    BY <2>1, SettleEffect
<1>2. d[x] \in StateDocs \cup MarkerDocs
  BY <1>1 DEF IsDirectory, NodesOf, Exists, Documents, State, Marker, StateTemp, MarkerTemp
<1>3. e[x] = IF x \notin lost THEN [d[x] EXCEPT !.synced = TRUE]
             ELSE [d[x] EXCEPT !.sel = Torn, !.synced = TRUE]
  BY <1>1 DEF Settle, Exists
<1>4. e[x].sel = d[x].sel \/ e[x].sel = Torn
  <2> HIDE DEF e
  <2>1. CASE d[x] \in StateDocs
    BY <1>3, <2>1 DEF StateDocs
  <2>2. CASE d[x] \in MarkerDocs
    BY <1>3, <2>2 DEF MarkerDocs
  <2> QED
    BY <1>2, <2>1, <2>2
<1> QED
  BY <1>1, <1>4 DEF Asked

\* A power loss leaves a bound directory bound.
LEMMA SettleBound ==
  ASSUME NEW d, IsDirectory(d), NEW s, BoundTo(d, s), NEW lost \in SUBSET Unsynced(d)
  PROVE  BoundTo(Settle(d, lost), s)
<1> DEFINE e == Settle(d, lost)
<1>1. /\ \A x \in Names : Exists(e, x) <=> Exists(d, x)
      /\ \A x \in Names : Exists(d, x) /\ d[x].synced => e[x] = d[x]
  BY SettleEffect
<1> HIDE DEF e
<1>2. /\ Exists(e, State) <=> Exists(d, State)
      /\ Exists(e, Marker) <=> Exists(d, Marker)
      /\ Exists(e, Repository) <=> Exists(d, Repository)
      /\ StateTemps(e) = StateTemps(d)
      /\ MarkerTemps(e) = MarkerTemps(d)
      /\ Stagings(e) = Stagings(d)
  BY <1>1, NamesDistinct DEF StateTemps, MarkerTemps, Stagings
<1>3. ASSUME NEW n \in Invocations, Marked(d, n, s) PROVE Marked(e, n, s)
  BY <1>1, <1>2, <1>3, NamesDistinct DEF Marked, Shape, Complete, Written, Binds, StateTemps,
     Stagings
<1>4. ASSUME NEW n \in Invocations, Exposed(d, n, s) PROVE Exposed(e, n, s)
  BY <1>1, <1>2, <1>4, NamesDistinct DEF Exposed, Shape, Complete, Written, Binds, StateTemps
<1>5. ASSUME NEW n \in Invocations, Committed(d, n, s) PROVE Committed(e, n, s)
  BY <1>1, <1>2, <1>5, NamesDistinct DEF Committed, Shape, Complete, Written, Binds
<1>6. ASSUME Finished(d, s) PROVE Finished(e, s)
  BY <1>1, <1>2, <1>6, NamesDistinct DEF Finished, Shape, Complete, Written
<1> QED
  BY <1>3, <1>4, <1>5, <1>6 DEF BoundTo, e

\* Where an invocation has something to build or to reconstruct, nothing is bound.
LEMMA UnboundSteps ==
  ASSUME IInv, NEW i \in Invocations,
         pc[i] \in BuildSteps \cup {"recCreate", "recWrite", "recRename"}
  PROVE  ~Exists(fs, Marker) /\ ~Exists(fs, State)
BY DEF IInv, DirectoryPhases, Phases, AtRecovery, AtBuild, BuildSteps, Empty, Staged, StateOpened,
       StatePrepared, MarkerOpened, MarkerPrepared, Shape

\* Nor where the error path removes something.
LEMMA UnboundClean ==
  ASSUME IInv, NEW i \in Invocations, Clean(i), ~UNCHANGED <<fs, images>>
  PROVE  ~Exists(fs, Marker) /\ ~Exists(fs, State)
<1>1. pc[i] = "clean" /\ ~Exists(fs, Marker) /\ Legal(fs)
  BY DEF Clean, Goto, IInv, TypeOK, DirectoryPhases, Phases, AtBuild
<1>2. ~NoTemporaries(fs)
  BY DEF Clean, NoTemporaries, StateTemps, MarkerTemps, Stagings
<1> QED
  BY <1>1, <1>2 DEF Legal, Empty, Staged, StateOpened, StatePrepared, MarkerOpened, MarkerPrepared,
     Marked, Exposed, Committed, Finished, Shape, NoTemporaries

\* The rename of the staged tree keeps the directory bound.
LEMMA PublishBound ==
  ASSUME IInv, JournalOrdered, NEW i \in Invocations, Publish(i) \/ RecPublish(i),
         NEW s \in Indexed, BoundTo(fs, s)
  PROVE  images' \subseteq images \cup {fs'} /\ BoundTo(fs', s)
<1>1. \E n \in Invocations, t \in Indexed : Marked(fs, n, t) /\ Rename(Staging(n), Repository)
  <2>1. CASE Publish(i)
    BY <2>1 DEF Publish, Goto, IInv, DirectoryPhases, Phases, AtCommit, CommitSteps
  <2>2. CASE RecPublish(i)
    <3>1. PICK n \in Invocations, t \in Indexed : Marked(fs, n, t)
      BY <2>2 DEF RecPublish, Goto, IInv, DirectoryPhases, Phases, AtRecovery
    <3> QED
      BY <2>2, <3>1 DEF RecPublish, Marked, Binds
  <2> QED
    BY <2>1, <2>2
<1>2. PICK n \in Invocations, t \in Indexed : Marked(fs, n, t) /\ Rename(Staging(n), Repository)
  BY <1>1
<1>3. s = t
  BY <1>2, BoundOnce DEF BoundTo
<1>4. Advances(i) /\ Exposed(fs', n, t)
  BY <1>2, ExposeAdvances
<1> QED
  BY <1>3, <1>4 DEF Advances, BoundTo

\* The rename of the state keeps the directory bound.
LEMMA CommitBound ==
  ASSUME IInv, JournalOrdered, NEW i \in Invocations, Commit(i) \/ RecState(i),
         NEW s \in Indexed, BoundTo(fs, s)
  PROVE  images' \subseteq images \cup {fs'} /\ BoundTo(fs', s)
<1>1. \E n \in Invocations, t \in Indexed : Exposed(fs, n, t) /\ Rename(StateTemp(n), State)
  <2>1. CASE Commit(i)
    BY <2>1 DEF Commit, Goto, IInv, DirectoryPhases, Phases, AtCommit, CommitSteps
  <2>2. CASE RecState(i)
    <3>0. pc[i] = "recState"
      BY <2>2 DEF RecState, Goto
    <3>1. PICK n \in Invocations, t \in Indexed : Exposed(fs, n, t)
      BY <3>0 DEF IInv, DirectoryPhases, Phases, AtRecovery
    <3> QED
      BY <2>2, <3>1 DEF RecState, Exposed, Shape, Binds
  <2> QED
    BY <2>1, <2>2
<1>2. PICK n \in Invocations, t \in Indexed : Exposed(fs, n, t) /\ Rename(StateTemp(n), State)
  BY <1>1
<1>3. s = t
  BY <1>2, BoundOnce DEF BoundTo
<1>4. Advances(i) /\ Committed(fs', n, t)
  BY <1>2, CommitAdvances
<1> QED
  BY <1>3, <1>4 DEF Advances, BoundTo

\* So does the removal of the marker.
LEMMA UnmarkBound ==
  ASSUME IInv, JournalOrdered, NEW i \in Invocations, Unmark(i) \/ RecUnmark(i),
         NEW s \in Indexed, BoundTo(fs, s)
  PROVE  images' \subseteq images \cup {fs'} /\ BoundTo(fs', s)
<1>1. \E n \in Invocations, t \in Indexed : Committed(fs, n, t) /\ Remove(Marker)
  <2>1. CASE Unmark(i)
    BY <2>1 DEF Unmark, Goto, IInv, DirectoryPhases, Phases, AtCommit, CommitSteps
  <2>2. CASE RecUnmark(i)
    BY <2>2 DEF RecUnmark, Goto, IInv, DirectoryPhases, Phases, AtRecovery
  <2> QED
    BY <2>1, <2>2
<1>2. PICK n \in Invocations, t \in Indexed : Committed(fs, n, t) /\ Remove(Marker)
  BY <1>1
<1>3. s = t
  BY <1>2, BoundOnce DEF BoundTo
<1>4. Advances(i) /\ Finished(fs', t)
  BY <1>2, UnmarkAdvances
<1> QED
  BY <1>3, <1>4 DEF Advances, BoundTo

\* The steps that leave the current directory as it is, and may make it durable.
Quiet(i) ==
  \/ Entry(i) \/ Recover(i) \/ RecMarkerSync(i) \/ RecPublishSync(i) \/ RecStateSync(i)
  \/ RecUnmarkSync(i) \/ Existing(i) \/ MarkerSync(i) \/ PublishSync(i) \/ CommitSync(i)
  \/ UnmarkSync(i) \/ IoFails(i) \/ Kill(i)

\* They do that and nothing else.
LEMMA QuietStays ==
  ASSUME IInv, NEW i \in Invocations, Quiet(i)
  PROVE  fs' = fs /\ images' \subseteq images /\ fs \in images'
<1>1. fs \in images
  BY DEF IInv, TypeOK
<1>2. \/ UNCHANGED <<fs, images>>
      \/ SyncRsolve
  BY DEF Quiet, Entry, Start, GitCheck, GitOpen, GitWrite, Lock, Validate, Recover, RecMarkerSync,
     RecPublishSync, RecStateSync, RecUnmarkSync, Existing, MarkerSync, PublishSync, CommitSync,
     UnmarkSync, IoFails, Kill
<1> QED
  BY <1>1, <1>2 DEF SyncRsolve

\* The steps that write, create, or publish a marker.
Prepares(i) ==
  \/ MkStaging(i) \/ Copy(i) \/ WritePackages(i) \/ SyncStaging(i) \/ StateCreate(i)
  \/ StateWrite(i) \/ MarkerCreate(i) \/ MarkerWrite(i) \/ MarkerRename(i)
  \/ RecCreate(i) \/ RecWrite(i) \/ RecRename(i)

\* They find a directory that is bound to nothing.
LEMMA PreparesUnbound ==
  ASSUME IInv, NEW i \in Invocations, Prepares(i)
  PROVE  ~Exists(fs, Marker) /\ ~Exists(fs, State)
<1>1. pc[i] \in BuildSteps \cup {"recCreate", "recWrite", "recRename"}
  BY DEF Prepares, MkStaging, Copy, WritePackages, SyncStaging, StateCreate, StateWrite,
     MarkerCreate, MarkerWrite, MarkerRename, RecCreate, RecWrite, RecRename, Goto, BuildSteps
<1> QED
  BY <1>1, UnboundSteps

\* What the directory leads to, it leads to after every step of an invocation.
LEMMA ShownStep ==
  ASSUME JournalOrdered, IInv, NEW i \in Invocations, Step(i) \/ IoFails(i) \/ Kill(i),
         NEW s \in Indexed, BoundTo(fs, s)
  PROVE  images' \subseteq images \cup {fs'} /\ BoundTo(fs', s)
<1>1. Exists(fs, Marker) \/ Exists(fs, State)
  BY Unbound
<1>2. CASE Quiet(i)
  BY <1>2, QuietStays
<1>3. CASE Prepares(i)
  BY <1>3, <1>1, PreparesUnbound
<1>4. CASE Clean(i)
  BY <1>4, <1>1, UnboundClean
<1>5. CASE Publish(i) \/ RecPublish(i)
  BY <1>5, PublishBound
<1>6. CASE Commit(i) \/ RecState(i)
  BY <1>6, CommitBound
<1>7. CASE Unmark(i) \/ RecUnmark(i)
  BY <1>7, UnmarkBound
<1> QED
  BY <1>2, <1>3, <1>4, <1>5, <1>6, <1>7 DEF Step, Recovery, Build, Finish, Quiet, Prepares

\* What every directory is bound to, every directory stays bound to.
LEMMA BindingStep ==
  ASSUME JournalOrdered, IInv, [Next]_vars, NEW s \in Indexed, \A d \in images : BoundTo(d, s)
  PROVE  \A d \in images' : BoundTo(d, s)
<1>1. fs \in images /\ BoundTo(fs, s)
  BY DEF IInv, TypeOK
<1>2. ASSUME NEW i \in Invocations, Step(i) \/ IoFails(i) \/ Kill(i)
      PROVE  \A d \in images' : BoundTo(d, s)
  BY <1>1, <1>2, ShownStep
<1>3. CASE PowerLoss
  <2>1. PICK d \in images : \E lost \in SUBSET Unsynced(d) : images' = {Settle(d, lost)}
    BY <1>3 DEF PowerLoss
  <2>2. PICK lost \in SUBSET Unsynced(d) : images' = {Settle(d, lost)}
    BY <2>1
  <2>3. IsDirectory(d)
    BY DEF IInv, TypeOK
  <2> QED
    BY <2>2, <2>3, SettleBound
<1>4. CASE UNCHANGED vars
  BY <1>4 DEF vars
<1> QED
  BY <1>2, <1>3, <1>4 DEF Next

\* A step of a transaction that renames or removes.
Publishes(i) ==
  \/ Publish(i) \/ RecPublish(i) \/ Commit(i) \/ RecState(i) \/ Unmark(i) \/ RecUnmark(i)

\* Every step of an invocation is of one of four kinds.
LEMMA StepKinds ==
  ASSUME NEW i \in Invocations, Step(i) \/ IoFails(i) \/ Kill(i)
  PROVE  Quiet(i) \/ Prepares(i) \/ Clean(i) \/ Publishes(i)
BY DEF Step, Recovery, Build, Finish, Quiet, Prepares, Publishes

\* Documents and trees have different names.
LEMMA DocumentNames ==
  /\ State \in Documents /\ Marker \in Documents /\ Repository \notin Documents
  /\ \A n \in Invocations :
       StateTemp(n) \in Documents /\ MarkerTemp(n) \in Documents /\ Staging(n) \notin Documents
BY DEF Documents, State, Marker, Repository, StateTemp, MarkerTemp, Staging

\* What is renamed past the marker was asked for.
LEMMA AskedPublishes ==
  ASSUME JournalOrdered, IInv, NEW i \in Invocations, Publishes(i), \A d \in images : Asked(d)
  PROVE  \A d \in images' : Asked(d)'
<1>1. req' = req
  BY DEF Publishes, Publish, RecPublish, Commit, RecState, Unmark, RecUnmark, Goto
<1>2. CASE Publish(i) \/ RecPublish(i)
  <2>1. PICK n \in Invocations : Rename(Staging(n), Repository)
    <3>1. CASE Publish(i)
      BY <3>1 DEF Publish
    <3>2. CASE RecPublish(i)
      <4>1. PICK n \in Invocations, t \in Indexed : Marked(fs, n, t)
        BY <3>2 DEF RecPublish, Goto, IInv, DirectoryPhases, Phases, AtRecovery
      <4> QED
        BY <3>2, <4>1 DEF RecPublish, Marked, Binds
    <3> QED
      BY <1>2, <3>1, <3>2
  <2> QED
    BY <1>1, <2>1, AskedRename, NamesDistinct, NodeKinds, DocumentNames
<1>3. CASE Commit(i) \/ RecState(i)
  <2>1. PICK n \in Invocations : Rename(StateTemp(n), State)
    <3>1. CASE Commit(i)
      BY <3>1 DEF Commit
    <3>2. CASE RecState(i)
      <4>0. pc[i] = "recState"
        BY <3>2 DEF RecState, Goto
      <4>1. PICK n \in Invocations, t \in Indexed : Exposed(fs, n, t)
        BY <4>0 DEF IInv, DirectoryPhases, Phases, AtRecovery
      <4> QED
        BY <3>2, <4>1 DEF RecState, Exposed, Shape, Binds
    <3> QED
      BY <1>3, <3>1, <3>2
  <2> QED
    BY <1>1, <2>1, AskedRename, NamesDistinct, NodeKinds, DocumentNames
<1>4. CASE Unmark(i) \/ RecUnmark(i)
  <2>1. Remove(Marker)
    BY <1>4 DEF Unmark, RecUnmark
  <2> QED
    BY <1>1, <2>1, AskedRemove, NamesDistinct
<1> QED
  BY <1>2, <1>3, <1>4 DEF Publishes

\* What is written up to the marker was asked for.
LEMMA AskedPrepares ==
  ASSUME JournalOrdered, IInv, NEW i \in Invocations, Prepares(i), \A d \in images : Asked(d)
  PROVE  \A d \in images' : Asked(d)'
<1>1. req' = req
  BY DEF Prepares, MkStaging, Copy, WritePackages, SyncStaging, StateCreate, StateWrite,
     MarkerCreate, MarkerWrite, MarkerRename, RecCreate, RecWrite, RecRename, Goto
<1>2. CASE MkStaging(i)
  <2>1. [files |-> {}, index |-> NoIndex, synced |-> FALSE] \in NodesOf(Staging(i))
    BY NodeKinds DEF Trees, Indexes
  <2> QED
    BY <1>1, <1>2, <2>1, AskedCreate, NamesDistinct, DocumentNames DEF MkStaging
<1>3. CASE Copy(i) \/ WritePackages(i) \/ SyncStaging(i)
  <2>1. UNCHANGED <<fs, images>> \/ \E node : WriteNode(Staging(i), node)
    BY <1>3 DEF Copy, WritePackages, SyncStaging
  <2>2. CASE UNCHANGED <<fs, images>>
    BY <1>1, <2>2, AskedStays
  <2>3. ASSUME NEW node, WriteNode(Staging(i), node) PROVE \A d \in images' : Asked(d)'
    BY <1>1, <2>3, AskedWrite, NamesDistinct, DocumentNames
  <2> QED
    BY <2>1, <2>2, <2>3
<1>4. CASE StateCreate(i)
  <2>1. [sel |-> Torn, synced |-> FALSE] \in NodesOf(StateTemp(i))
    BY NodeKinds DEF StateDocs
  <2> QED
    BY <1>1, <1>4, <2>1, AskedCreate, NamesDistinct DEF StateCreate
<1>5. CASE StateWrite(i)
  <2> DEFINE node == [sel |-> req[i], synced |-> TRUE]
  <2>1. WriteNode(StateTemp(i), node) /\ node.sel = req[i]
    BY <1>5 DEF StateWrite
  <2> HIDE DEF node
  <2> QED
    BY <1>1, <2>1, AskedWrite, NamesDistinct
<1>6. CASE MarkerCreate(i)
  <2>1. [sel |-> Torn, stateTemp |-> i, staging |-> i, synced |-> FALSE] \in NodesOf(MarkerTemp(i))
    BY NodeKinds DEF MarkerDocs
  <2> QED
    BY <1>1, <1>6, <2>1, AskedCreate, NamesDistinct DEF MarkerCreate
<1>7. CASE MarkerWrite(i)
  <2> DEFINE node == [sel |-> req[i], stateTemp |-> i, staging |-> i, synced |-> TRUE]
  <2>1. WriteNode(MarkerTemp(i), node) /\ node.sel = req[i]
    BY <1>7 DEF MarkerWrite
  <2> HIDE DEF node
  <2> QED
    BY <1>1, <2>1, AskedWrite, NamesDistinct
<1>8. CASE MarkerRename(i)
  <2>1. Rename(MarkerTemp(i), Marker)
    BY <1>8 DEF MarkerRename
  <2> QED
    BY <1>1, <2>1, AskedRename, NamesDistinct, NodeKinds, DocumentNames
<1>9. CASE RecCreate(i)
  <2>1. PICK n \in Invocations, s \in Indexed : StatePrepared(fs, n, s)
    BY <1>9 DEF RecCreate, Goto, IInv, DirectoryPhases, Phases, AtRecovery
  <2>2. TheOnly(StateTemps(fs)) = n /\ TheOnly(Stagings(fs)) = n
    BY <2>1 DEF StatePrepared, Shape, TheOnly
  <2>3. [sel |-> Torn, stateTemp |-> n, staging |-> n, synced |-> FALSE] \in NodesOf(MarkerTemp(i))
    BY NodeKinds DEF MarkerDocs
  <2> QED
    BY <1>1, <1>9, <2>2, <2>3, AskedCreate, NamesDistinct DEF RecCreate
<1>10. CASE RecWrite(i)
  <2>1. PICK n \in Invocations, s \in Indexed : MarkerOpened(fs, n, i, s)
    BY <1>10 DEF RecWrite, Goto, IInv, DirectoryPhases, Phases, AtRecovery
  <2>2. TheOnly(StateTemps(fs)) = n
    BY <2>1 DEF MarkerOpened, Shape, TheOnly
  <2>3. fs[StateTemp(n)].sel = s /\ s # Torn /\ Exists(fs, StateTemp(n))
    BY <2>1, TornAssumption DEF MarkerOpened, Shape, Written, Indexed, StateTemps
  <2>4. \E c \in Invocations : s = req[c]
    BY <2>3, DocumentNames DEF Asked, IInv, TypeOK
  <2>5. fs[MarkerTemp(i)] \in MarkerDocs
    BY <2>1, NamesDistinct, NodeKinds DEF MarkerOpened, Shape, MarkerTemps, Exists, IInv, TypeOK,
       IsDirectory
  <2> DEFINE node == [fs[MarkerTemp(i)] EXCEPT !.sel = s, !.synced = TRUE]
  <2>6. WriteNode(MarkerTemp(i), node)
    BY <1>10, <2>2, <2>3 DEF RecWrite
  <2>7. node.sel = s
    BY <2>5 DEF MarkerDocs
  <2> HIDE DEF node
  <2> QED
    BY <1>1, <2>4, <2>6, <2>7, AskedWrite, NamesDistinct
<1>11. CASE RecRename(i)
  <2>1. PICK n \in Invocations, m \in Invocations, s \in Indexed : MarkerPrepared(fs, n, m, s)
    BY <1>11 DEF RecRename, Goto, IInv, DirectoryPhases, Phases, AtRecovery
  <2>2. Rename(MarkerTemp(m), Marker)
    BY <1>11, <2>1 DEF RecRename, MarkerPrepared, Shape, TheOnly
  <2> QED
    BY <1>1, <2>2, AskedRename, NamesDistinct, NodeKinds, DocumentNames
<1> QED
  BY <1>2, <1>3, <1>4, <1>5, <1>6, <1>7, <1>8, <1>9, <1>10, <1>11 DEF Prepares

\* The error path writes nothing.
LEMMA AskedClean ==
  ASSUME JournalOrdered, IInv, NEW i \in Invocations, Clean(i), \A d \in images : Asked(d)
  PROVE  \A d \in images' : Asked(d)'
<1>1. req' = req
  BY DEF Clean, Goto, Return
<1>2. \/ UNCHANGED <<fs, images>>
      \/ \E x \in {MarkerTemp(i), StateTemp(i), Staging(i)} : Remove(x)
  BY DEF Clean
<1> QED
  BY <1>1, <1>2, AskedStays, AskedRemove, NamesDistinct

\* A power loss leaves one of the images, torn at most.
LEMMA AskedPowerLoss ==
  ASSUME IInv, PowerLoss, \A d \in images : Asked(d)
  PROVE  \A d \in images' : Asked(d)'
<1>1. PICK d \in images : \E lost \in SUBSET Unsynced(d) : images' = {Settle(d, lost)}
  BY DEF PowerLoss
<1>2. PICK lost \in SUBSET Unsynced(d) : images' = {Settle(d, lost)}
  BY <1>1
<1>3. IsDirectory(d) /\ Asked(d) /\ req' = req
  BY DEF IInv, TypeOK, PowerLoss
<1> QED
  BY <1>2, <1>3, AskedSettle

\* How a step of an invocation changes its step and its result.
LEMMA ResultStep ==
  ASSUME IInv, NEW i \in Invocations, Step(i) \/ IoFails(i) \/ Kill(i)
  PROVE  /\ req' = req
         /\ pc[i] # "done"
         /\ \/ result' = result /\ \E to \in Steps \ {"done"} : pc' = [pc EXCEPT ![i] = to]
            \/ \E outcome \in Results \ {"none"} :
                 Return(i, outcome)
<1>1. CASE Quiet(i)
  <2>1. CASE Entry(i)
    BY <2>1 DEF Entry, Start, GitCheck, GitOpen, GitWrite, Lock, Validate, Goto, Return, Steps,
       GitSteps, LockedSteps, RecoverySteps, Results
  <2>2. CASE Recover(i)
    BY <2>2 DEF Recover, Goto, Return, Steps, LockedSteps, RecoverySteps, Results, AfterRepository
  <2>3. CASE Existing(i) \/ UnmarkSync(i)
    BY <2>3 DEF Existing, UnmarkSync, Goto, Return, Steps, LockedSteps, BuildSteps, Results
  <2>4. CASE RecMarkerSync(i) \/ RecPublishSync(i) \/ RecStateSync(i) \/ RecUnmarkSync(i)
    BY <2>4 DEF RecMarkerSync, RecPublishSync, RecStateSync, RecUnmarkSync, AfterRepository, Goto,
       Steps, LockedSteps, RecoverySteps
  <2>5. CASE MarkerSync(i) \/ PublishSync(i) \/ CommitSync(i)
    BY <2>5 DEF MarkerSync, PublishSync, CommitSync, Goto, Steps, LockedSteps, CommitSteps
  <2>6. CASE IoFails(i)
    BY <2>6 DEF IoFails, Goto, Return, Results, Steps, GitSteps, LockedSteps, RecoverySteps,
       BuildSteps, CommitSteps
  <2>7. CASE Kill(i)
    BY <2>7 DEF Kill, Active, Return, Results
  <2> QED
    BY <1>1, <2>1, <2>2, <2>3, <2>4, <2>5, <2>6, <2>7 DEF Quiet
<1>2. CASE Prepares(i)
  BY <1>2 DEF Prepares, MkStaging, Copy, WritePackages, SyncStaging, StateCreate, StateWrite,
     MarkerCreate, MarkerWrite, MarkerRename, RecCreate, RecWrite, RecRename, Goto, Steps,
     LockedSteps, BuildSteps, RecoverySteps, CommitSteps
<1>3. CASE Clean(i)
  BY <1>3 DEF Clean, Goto, Return, Steps, LockedSteps, Results
<1>4. CASE Publishes(i)
  BY <1>4 DEF Publishes, Publish, RecPublish, Commit, RecState, Unmark, RecUnmark, Goto, Steps,
     LockedSteps, RecoverySteps, CommitSteps
<1> QED
  BY <1>1, <1>2, <1>3, <1>4, StepKinds

\* The first step past the marker's sync.
LEMMA FirstBinding ==
  ASSUME IInv, NEW i \in Invocations, Step(i) \/ IoFails(i) \/ Kill(i),
         pc[i] \notin CommitSteps \ {"markerSync"}, pc'[i] \in CommitSteps \ {"markerSync"}
  PROVE  images' = {fs} /\ BoundTo(fs, req[i])
<1>1. ASSUME NEW to, Goto(i, pc[i], to) PROVE pc'[i] = to
  BY <1>1 DEF Goto, IInv, TypeOK
<1>2. ASSUME NEW outcome PROVE ~Return(i, outcome)
  BY <1>2 DEF Return, CommitSteps, IInv, TypeOK
<1>3. CASE Quiet(i)
  <2>1. ~Entry(i)
    BY <1>1, <1>2 DEF Entry, Start, GitCheck, GitOpen, GitWrite, Lock, Validate, Goto, CommitSteps,
       IInv, TypeOK
  <2>2. ~Recover(i)
    BY <1>1, <1>2 DEF Recover, AfterRepository, CommitSteps, Goto
  <2>3. ~(RecMarkerSync(i) \/ RecPublishSync(i) \/ RecStateSync(i) \/ RecUnmarkSync(i))
    BY <1>1 DEF RecMarkerSync, RecPublishSync, RecStateSync, RecUnmarkSync, AfterRepository, Goto,
       CommitSteps
  <2>4. ~(Existing(i) \/ UnmarkSync(i) \/ Kill(i))
    BY <1>1, <1>2 DEF Existing, UnmarkSync, Kill, Goto, CommitSteps
  <2>5. ~IoFails(i)
    BY <1>1, <1>2 DEF IoFails, CommitSteps
  <2>6. ~(PublishSync(i) \/ CommitSync(i))
    BY DEF PublishSync, CommitSync, Goto, CommitSteps
  <2>7. MarkerSync(i)
    BY <1>3, <2>1, <2>2, <2>3, <2>4, <2>5, <2>6 DEF Quiet
  <2>8. Marked(fs, i, req[i])
    BY <2>7 DEF MarkerSync, Goto, IInv, DirectoryPhases, Phases, AtCommit
  <2> QED
    BY <2>7, <2>8 DEF MarkerSync, SyncRsolve, BoundTo
<1>4. ~Prepares(i)
  BY <1>1 DEF Prepares, MkStaging, Copy, WritePackages, SyncStaging, StateCreate, StateWrite,
     MarkerCreate, MarkerWrite, MarkerRename, RecCreate, RecWrite, RecRename, Goto, CommitSteps
<1>5. ~Clean(i)
  BY <1>1, <1>2 DEF Clean, Goto, CommitSteps
<1>6. ~Publishes(i)
  BY <1>1 DEF Publishes, Publish, RecPublish, Commit, RecState, Unmark, RecUnmark, Goto, CommitSteps
<1> QED
  BY <1>3, <1>4, <1>5, <1>6, StepKinds

\* The steps up to the marker publish no marker and no state in an older image.
LEMMA PreparesImages ==
  ASSUME JournalOrdered, IInv, NEW i \in Invocations, Prepares(i) \/ Clean(i),
         NEW d \in images'
  PROVE  \/ d = fs'
         \/ \E im \in images : /\ Exists(d, Marker) => Exists(im, Marker)
                               /\ Exists(d, State) => Exists(im, State)
<1> DEFINE Mine == {Staging(i), StateTemp(i), MarkerTemp(i)}
<1>1. \/ UNCHANGED <<fs, images>>
      \/ \E upd : DirectoryOperation(upd)
      \/ \E x \in Mine : \E node : WriteNode(x, node)
  BY DEF Prepares, MkStaging, Copy, WritePackages, SyncStaging, StateCreate, StateWrite,
     MarkerCreate, MarkerWrite, MarkerRename, RecCreate, RecWrite, RecRename, Clean, Create,
     Rename, Remove
<1>2. CASE UNCHANGED <<fs, images>>
  BY <1>2
<1>3. CASE \E upd : DirectoryOperation(upd)
  BY <1>3 DEF DirectoryOperation
<1>4. CASE \E x \in Mine : \E node : WriteNode(x, node)
  <2>0. PICK x \in Mine : \E node : WriteNode(x, node)
    BY <1>4
  <2>1. PICK node : WriteNode(x, node)
    BY <2>0
  <2>2. PICK im \in images : d = IF im[x] = Absent THEN im ELSE [im EXCEPT ![x] = node]
    BY <2>1 DEF WriteNode
  <2>3. DOMAIN im = Names /\ x # Marker /\ x # State
    BY NamesDistinct DEF IInv, TypeOK, IsDirectory
  <2>4. d[Marker] = im[Marker] /\ d[State] = im[State]
    BY <2>2, <2>3, NamesDistinct
  <2> QED
    BY <2>4 DEF Exists
<1> QED
  BY <1>1, <1>2, <1>3, <1>4

\* A step of an invocation binds an image to nothing that is not shown.
LEMMA NextShown ==
  ASSUME JournalOrdered, IInv, ShownBeforeBound, NEW i \in Invocations,
         Step(i) \/ IoFails(i) \/ Kill(i)
  PROVE  ShownBeforeBound'
<1> SUFFICES ASSUME NEW d \in images', NEW s \in Indexed, BoundTo(d, s)
             PROVE  BoundTo(fs', s)
  BY DEF ShownBeforeBound
<1>1. \A e \in images : Legal(e)
  BY DEF IInv, DirectoryPhases
<1>2. fs \in images
  BY DEF IInv, TypeOK
<1>3. CASE Exists(fs, Marker) \/ Exists(fs, State)
  <2>1. PICK t \in Indexed : BoundTo(fs, t)
    BY <1>1, <1>2, <1>3, LegalBound
  <2>2. images' \subseteq images \cup {fs'} /\ BoundTo(fs', t)
    BY <2>1, ShownStep
  <2>3. CASE d \in images
    <3>1. BoundTo(fs, s)
      BY <2>3 DEF ShownBeforeBound
    <3> QED
      BY <3>1, ShownStep
  <2> QED
    BY <2>2, <2>3
<1>4. CASE ~Exists(fs, Marker) /\ ~Exists(fs, State)
  <2>1. \A e \in images : ~Exists(e, Marker) /\ ~Exists(e, State)
    <3> SUFFICES ASSUME NEW e \in images, Exists(e, Marker) \/ Exists(e, State) PROVE FALSE
      OBVIOUS
    <3>1. PICK t \in Indexed : BoundTo(e, t)
      BY <1>1, LegalBound
    <3> QED
      BY <3>1, <1>4, Unbound DEF ShownBeforeBound
  <2>2. Exists(d, Marker) \/ Exists(d, State)
    BY Unbound
  <2>3. CASE Quiet(i)
    BY <2>1, <2>2, <2>3, QuietStays
  <2>4. CASE Prepares(i) \/ Clean(i)
    BY <2>1, <2>2, <2>4, PreparesImages
  <2>5. ~Publishes(i)
    <3>1. pc[i] \in {"publish", "recPublish", "commit", "recState", "unmark", "recUnmark"} =>
            Exists(fs, Marker)
      BY DEF IInv, DirectoryPhases, Phases, AtRecovery, AtCommit, Marked, Exposed, Committed, Shape
    <3> QED
      BY <1>4, <3>1 DEF Publishes, Publish, RecPublish, Commit, RecState, Unmark, RecUnmark, Goto
  <2> QED
    BY <2>3, <2>4, <2>5, StepKinds
<1> QED
  BY <1>3, <1>4

\* The invariant of the refinement holds in the empty directory.
LEMMA InitView == Init => ViewInvariant
<1> SUFFICES ASSUME Init PROVE ViewInvariant
  OBVIOUS
<1>1. \A d \in images : Asked(d)
  <2>1. Documents \subseteq Names
    BY DEF Documents, Names
  <2> QED
    BY <2>1 DEF Init, EmptyDirectory, Asked, Exists
<1>2. \A i \in Invocations : Progress(i)
  BY DEF Init, Progress, CommitSteps
<1>3. ShownBeforeBound
  BY DEF Init, ShownBeforeBound
<1> QED
  BY <1>1, <1>2, <1>3 DEF ViewInvariant

\* Every step preserves it.
LEMMA NextView ==
  ASSUME JournalOrdered, IInv, ViewInvariant, [Next]_vars
  PROVE  ViewInvariant'
<1>0. \A d \in images : Asked(d)
  BY DEF ViewInvariant
<1>1. ASSUME NEW i \in Invocations, Step(i) \/ IoFails(i) \/ Kill(i)
      PROVE  ViewInvariant'
  <2>1. \A d \in images' : Asked(d)'
    <3>1. req' = req
      BY <1>1, ResultStep
    <3>2. CASE Quiet(i)
      BY <1>0, <3>1, <3>2, QuietStays, AskedStays
    <3> QED
      BY <1>0, <1>1, <3>2, StepKinds, AskedPrepares, AskedClean, AskedPublishes
  <2>2. /\ req' = req /\ pc[i] # "done"
        /\ \/ result' = result /\ \E to \in Steps \ {"done"} : pc' = [pc EXCEPT ![i] = to]
           \/ \E outcome \in Results \ {"none"} : Return(i, outcome)
    BY <1>1, ResultStep
  <2>3. ASSUME NEW j \in Invocations PROVE Progress(j)'
    <3>1. Progress(j)
      BY DEF ViewInvariant
    <3>2. result'[j] = "none" <=> pc'[j] # "done"
      BY <2>2, <3>1 DEF Return, Progress, IInv, TypeOK, Results
    <3>3. ASSUME pc'[j] \in CommitSteps \ {"markerSync"}, pc[j] \in CommitSteps \ {"markerSync"}
          PROVE  \A d \in images' : BoundTo(d, req[j])
      <4>1. req[j] \in Indexed /\ \A d \in images : BoundTo(d, req[j])
        BY <3>1, <3>3 DEF Progress, IInv, DirectoryPhases, Phases
      <4> QED
        BY <1>1, <4>1, BindingStep DEF Next
    <3>4. ASSUME pc'[j] \in CommitSteps \ {"markerSync"}, pc[j] \notin CommitSteps \ {"markerSync"}
          PROVE  \A d \in images' : BoundTo(d, req[j])
      <4>1. j = i
        BY <2>2, <3>4 DEF Return, IInv, TypeOK
      <4> QED
        BY <1>1, <3>4, <4>1, FirstBinding
    <3>5. pc'[j] \in CommitSteps \ {"markerSync"} => \A d \in images' : BoundTo(d, req'[j])
      BY <2>2, <3>3, <3>4
    <3> QED
      BY <3>2, <3>5 DEF Progress
  <2>4. ShownBeforeBound'
    BY <1>1, NextShown DEF ViewInvariant
  <2> QED
    BY <2>1, <2>3, <2>4 DEF ViewInvariant
<1>2. CASE PowerLoss
  <2>1. \A d \in images' : Asked(d)'
    BY <1>0, <1>2, AskedPowerLoss
  <2>2. ASSUME NEW j \in Invocations PROVE Progress(j)'
    <3>1. Progress(j)
      BY DEF ViewInvariant
    <3>2. pc'[j] \in {"idle", "done"}
      BY <1>2 DEF PowerLoss, Active
    <3>3. result'[j] = "none" <=> pc'[j] # "done"
      BY <1>2, <3>1 DEF Progress, PowerLoss, Active
    <3> QED
      BY <3>2, <3>3 DEF Progress, CommitSteps
  <2>3. ShownBeforeBound'
    BY <1>2 DEF PowerLoss, ShownBeforeBound
  <2> QED
    BY <2>1, <2>2, <2>3 DEF ViewInvariant
<1>3. CASE UNCHANGED vars
  BY <1>3 DEF vars, ViewInvariant, Asked, Progress, ShownBeforeBound
<1> QED
  BY <1>1, <1>2, <1>3 DEF Next

\* What a step makes the directory lead to, somebody asked for.
LEMMA BoundWasAskedNext ==
  ASSUME IInv', ViewInvariant', NEW s \in Indexed, BoundTo(fs', s)
  PROVE  \E i \in Invocations : s = req'[i]
<1>1. BoundTo(fs', s) /\ fs' \in images' /\ s # Torn
  BY TornAssumption DEF IInv, TypeOK, Indexed
<1>2. \E x \in {State, Marker} : Exists(fs', x) /\ fs'[x].sel = s
  BY <1>1 DEF BoundTo, Finished, Marked, Exposed, Committed, Shape, Binds, Written
<1>3. \A d \in images' : Asked(d)'
  BY DEF ViewInvariant
<1>4. \A x \in Documents : Exists(fs', x) =>
        fs'[x].sel = Torn \/ \E i \in Invocations : fs'[x].sel = req'[i]
  BY <1>1, <1>3 DEF Asked
<1> QED
  BY <1>1, <1>2, <1>4, DocumentNames

\* Every step keeps the binding or makes the first one.
LEMMA BindingKept ==
  ASSUME JournalOrdered, IInv, ViewInvariant, [Next]_vars
  PROVE  \/ BoundSelection' = BoundSelection
         \/ BoundSelection = Absent /\ \E i \in Invocations : BoundSelection' = req[i]
<1>1. IInv' /\ ViewInvariant' /\ req' = req
  <2>1. req' = req
    BY ResultStep DEF Next, PowerLoss, vars
  <2> QED
    BY <2>1, NextIInv, NextView
<1>2. CASE BoundSelection # Absent
  <2>1. BoundSelection \in Indexed /\ \A d \in images : BoundTo(d, BoundSelection)
    BY <1>2, BoundIsSelection
  <2>2. PICK s \in Indexed : s = BoundSelection
    BY <2>1
  <2>3. \A d \in images' : BoundTo(d, s)
    BY <2>1, <2>2, BindingStep
  <2> QED
    BY <1>1, <2>2, <2>3, BoundIsSelectionNext
<1>3. CASE BoundSelection = Absent /\ BoundSelection' # Absent
  <2>1. BoundSelection' \in Indexed
    BY <1>1, <1>3, BoundIsSelectionNext
  <2>2. PICK s \in Indexed : s = BoundSelection'
    BY <2>1
  <2>3. \A d \in images' : BoundTo(d, s)
    BY <1>1, <2>2, BoundIsSelectionNext
  <2> QED
    BY <1>1, <1>3, <2>2, <2>3, BoundWasAskedNext DEF IInv, TypeOK
<1> QED
  BY <1>2, <1>3

\* materialize is bound to one selection for ever: no kill, no failed call and no
\* power loss undoes or changes a binding, and nothing is bound that nobody asked for.
THEOREM BoundForEver == ASSUME JournalOrdered PROVE Spec => BindingIsForEver
<1>1. Init => IInv /\ ViewInvariant
  BY InitIInv, InitView
<1>2. IInv /\ ViewInvariant /\ [Next]_vars => IInv' /\ ViewInvariant'
  BY NextIInv, NextView
<1>3. IInv /\ ViewInvariant /\ [Next]_vars =>
        [\/ BoundSelection' = BoundSelection
         \/ BoundSelection = Absent /\ \E i \in Invocations : BoundSelection' = req[i]]_vars
  BY BindingKept
<1> QED
  BY <1>1, <1>2, <1>3, PTL DEF Spec, BindingIsForEver

\* Without kills and failed calls, the lock is released only on a durable directory.
LEMMA NextDurable ==
  ASSUME ~MayKill, ~MayFail, TypeOK, Exclusion, Durable, [Next]_vars
  PROVE  Durable'
<1>1. ASSUME NEW i \in Invocations, Step(i) PROVE Durable'
  <2>0. pc[i] # "clean" /\ \A j \in Invocations : pc[j] # "clean"
    BY DEF Durable
  <2>1. ASSUME NEW to \in Steps, Goto(i, pc[i], to) PROVE pc' = [pc EXCEPT ![i] = to] /\ pc'[i] = to
    BY <2>1 DEF Goto, TypeOK
  <2>2. pc \in [Invocations -> Steps]
    BY DEF TypeOK
  <2>3. ASSUME pc[i] \in LockedSteps, pc[i] \in QuietSteps PROVE images = {fs}
    <3>1. \A j \in Invocations : pc[j] \in LockedSteps => j = i
      BY <2>3 DEF Exclusion
    <3> QED
      BY <2>3, <3>1 DEF Durable
  <2>4. ASSUME \A j \in Invocations : pc'[j] # "clean", images' = {fs'} PROVE Durable'
    BY <2>4 DEF Durable
  <2>5. ASSUME \A j \in Invocations : pc'[j] # "clean",
               pc'[i] \in LockedSteps, pc'[i] \notin QuietSteps
        PROVE  Durable'
    BY <2>5 DEF Durable
  <2>6. CASE Entry(i)
    <3>1. UNCHANGED <<fs, images>>
      BY <2>6 DEF Entry, Start, GitCheck, GitOpen, GitWrite, Lock, Validate
    <3>2. \A j \in Invocations : pc'[j] # "clean"
      BY <2>0, <2>2, <2>6 DEF Entry, Start, GitCheck, GitOpen, GitWrite, Lock, Validate, Goto, Return
    <3>3. \A j \in Invocations : pc[j] \in LockedSteps /\ pc[j] \notin QuietSteps => pc'[j] = pc[j]
      BY <2>2, <2>6 DEF Entry, Start, GitCheck, GitOpen, GitWrite, Lock, Validate, Goto, Return,
         LockedSteps, QuietSteps, RecoverySteps, BuildSteps, CommitSteps
    <3> QED
      BY <3>1, <3>2, <3>3 DEF Durable
  <2>7. CASE Recover(i) \/ Existing(i)
    <3>1. UNCHANGED <<fs, images>> /\ images = {fs}
      BY <2>3, <2>7 DEF Recover, Existing, LockedSteps, QuietSteps, RecoverySteps
    <3>2. \A j \in Invocations : pc'[j] # "clean"
      BY <2>0, <2>2, <2>7 DEF Recover, Existing, Goto, Return, AfterRepository
    <3> QED
      BY <3>1, <3>2, <2>4
  <2>8. CASE RecMarkerSync(i) \/ RecPublishSync(i) \/ RecStateSync(i) \/ RecUnmarkSync(i)
             \/ MarkerSync(i) \/ PublishSync(i) \/ CommitSync(i) \/ UnmarkSync(i)
    <3>1. images' = {fs'}
      BY <2>8 DEF RecMarkerSync, RecPublishSync, RecStateSync, RecUnmarkSync, MarkerSync, PublishSync,
         CommitSync, UnmarkSync, SyncRsolve
    <3>2. \A j \in Invocations : pc'[j] # "clean"
      BY <2>0, <2>2, <2>8 DEF RecMarkerSync, RecPublishSync, RecStateSync, RecUnmarkSync, MarkerSync,
         PublishSync, CommitSync, UnmarkSync, Goto, Return, AfterRepository
    <3> QED
      BY <3>1, <3>2, <2>4
  <2>9. CASE Prepares(i) \/ Publishes(i)
    <3>1. \A j \in Invocations : pc'[j] # "clean"
      BY <2>0, <2>2, <2>9 DEF Prepares, MkStaging, Copy, WritePackages, SyncStaging, StateCreate,
         StateWrite, MarkerCreate, MarkerWrite, MarkerRename, RecCreate, RecWrite, RecRename,
         Publishes, Publish, RecPublish, Commit, RecState, Unmark, RecUnmark, Goto
    <3>2. pc'[i] \in LockedSteps /\ pc'[i] \notin QuietSteps
      BY <2>2, <2>9 DEF Prepares, MkStaging, Copy, WritePackages, SyncStaging, StateCreate,
         StateWrite, MarkerCreate, MarkerWrite, MarkerRename, RecCreate, RecWrite, RecRename,
         Publishes, Publish, RecPublish, Commit, RecState, Unmark, RecUnmark, Goto, LockedSteps,
         QuietSteps, RecoverySteps, BuildSteps, CommitSteps
    <3> QED
      BY <3>1, <3>2, <2>5
  <2>10. ~Clean(i)
    BY <2>0 DEF Clean, Goto
  <2> QED
    BY <1>1, <2>6, <2>7, <2>8, <2>9, <2>10 DEF Step, Recovery, Build, Finish, Prepares, Publishes
<1>2. \A i \in Invocations : ~IoFails(i) /\ ~Kill(i)
  BY DEF IoFails, Kill
<1>3. CASE PowerLoss
  <2>1. \A j \in Invocations : pc'[j] \in {"idle", "done"}
    BY <1>3 DEF PowerLoss, Active
  <2>2. images' = {fs'}
    BY <1>3 DEF PowerLoss
  <2> QED
    BY <2>1, <2>2 DEF Durable
<1>4. CASE UNCHANGED vars
  BY <1>4 DEF vars, Durable
<1> QED
  BY <1>1, <1>2, <1>3, <1>4 DEF Next

\* What an outcome is to the caller.
LEMMA AnswerOf ==
  /\ Answer("none") = "none" /\ Answer("ok") = "published" /\ Answer("found") = "found"
  /\ \A outcome \in Results \ {"none", "ok", "found"} : Answer(outcome) = "failed"
BY DEF Answer, Results

\* The steps that return leave the directory as it is.
LEMMA ReturnStays ==
  ASSUME IInv, NEW i \in Invocations, Step(i) \/ IoFails(i) \/ Kill(i),
         NEW outcome, Return(i, outcome)
  PROVE  fs' = fs
<1>1. pc'[i] = "done"
  BY DEF Return, IInv, TypeOK
<1>2. ~(Prepares(i) \/ Publishes(i))
  BY <1>1 DEF Prepares, MkStaging, Copy, WritePackages, SyncStaging, StateCreate, StateWrite,
     MarkerCreate, MarkerWrite, MarkerRename, RecCreate, RecWrite, RecRename, Goto,
     Publishes, Publish, RecPublish, Commit, RecState, Unmark, RecUnmark, IInv, TypeOK
<1>3. CASE Quiet(i)
  BY <1>3, QuietStays
<1>4. CASE Clean(i)
  BY <1>1, <1>4 DEF Clean, Goto, IInv, TypeOK
<1> QED
  BY <1>2, <1>3, <1>4, StepKinds

\* A success is the last step of a publication, or of the validation of what is there.
LEMMA SuccessSteps ==
  ASSUME IInv, NEW i \in Invocations, Step(i) \/ IoFails(i) \/ Kill(i),
         NEW outcome \in {"ok", "found"}, Return(i, outcome), pc[i] # "done"
  PROVE  \/ outcome = "ok" /\ UnmarkSync(i)
         \/ outcome = "found" /\ Existing(i)
<1>1. result'[i] = outcome /\ pc'[i] = "done"
  BY DEF Return, IInv, TypeOK
<1>2. ASSUME NEW to, Goto(i, pc[i], to) PROVE to = "done" /\ result'[i] = result[i]
  BY <1>1, <1>2 DEF Goto, IInv, TypeOK
<1>3. ASSUME NEW other, Return(i, other) PROVE other = outcome
  BY <1>1, <1>3 DEF Return, IInv, TypeOK
<1>4. ~Entry(i)
  BY <1>1, <1>2, <1>3 DEF Entry, Start, GitCheck, GitOpen, GitWrite, Lock, Validate, IInv, TypeOK,
     Goto
<1>5. ~Recover(i)
  BY <1>2, <1>3 DEF Recover, AfterRepository, Goto
<1>6. ~(RecMarkerSync(i) \/ RecPublishSync(i) \/ RecStateSync(i) \/ RecUnmarkSync(i)
        \/ MarkerSync(i) \/ PublishSync(i) \/ CommitSync(i))
  BY <1>2 DEF RecMarkerSync, RecPublishSync, RecStateSync, RecUnmarkSync, MarkerSync, PublishSync,
     CommitSync, AfterRepository, Goto
<1>7. ~Prepares(i) /\ ~Publishes(i)
  BY <1>2 DEF Prepares, MkStaging, Copy, WritePackages, SyncStaging, StateCreate, StateWrite,
     MarkerCreate, MarkerWrite, MarkerRename, RecCreate, RecWrite, RecRename, Goto,
     Publishes, Publish, RecPublish, Commit, RecState, Unmark, RecUnmark
<1>8. ~Clean(i)
  BY <1>2, <1>3 DEF Clean, Goto
<1>9. ~IoFails(i) /\ ~Kill(i)
  BY <1>2, <1>3 DEF IoFails, Kill
<1>10. CASE UnmarkSync(i)
  BY <1>3, <1>10 DEF UnmarkSync
<1>11. CASE Existing(i)
  BY <1>2, <1>3, <1>11 DEF Existing, Goto
<1> QED
  BY <1>4, <1>5, <1>6, <1>7, <1>8, <1>9, <1>10, <1>11
     DEF Step, Recovery, Build, Finish, Prepares, Publishes

\* The last sync of a publication finds every directory bound to the selection.
LEMMA PublishedIsBound ==
  ASSUME IInv, ViewInvariant, NEW i \in Invocations, UnmarkSync(i)
  PROVE  req[i] \in Indexed /\ \A d \in images : BoundTo(d, req[i])
BY DEF UnmarkSync, ViewInvariant, Progress, CommitSteps, IInv, DirectoryPhases, Phases

\* The validation that succeeds finds the finished project of the request.
LEMMA FoundIsShown ==
  ASSUME IInv, NEW i \in Invocations, Existing(i), Return(i, "found")
  PROVE  pc[i] = "existing" /\ req[i] \in Indexed /\ BoundTo(fs, req[i])
<1>1. result'[i] = "found" /\ pc'[i] = "done"
  BY DEF Return, IInv, TypeOK
<1>2. pc[i] = "existing" /\ Exists(fs, State) /\ ExistingMatches(fs, req[i])
  BY <1>1 DEF Existing, Goto, Return, IInv, TypeOK
<1>3. PICK t \in Indexed : Finished(fs, t)
  BY <1>2 DEF IInv, DirectoryPhases, Phases, AtBuild, Empty, Shape
<1>4. req[i] = t
  <2>1. req[i] \in Selections
    BY DEF IInv, TypeOK
  <2> QED
    BY <1>2, <1>3, <2>1, SelectionsAssumption DEF ExistingMatches, RecordsMatch, IndexMatches,
       Finished, Written, Indexed
<1> QED
  BY <1>2, <1>3, <1>4 DEF BoundTo

\* The replies after a call has returned.
LEMMA ReplyStep ==
  ASSUME IInv, NEW i \in Invocations, NEW outcome \in Results, Return(i, outcome)
  PROVE  Replies' = [Replies EXCEPT ![i] = Answer(outcome)]
BY DEF Return, Replies, IInv, TypeOK

\* The next state shows what it is bound to.
LEMMA BoundIsShownNext ==
  ASSUME IInv', BoundSelection' # Absent
  PROVE  ShownSelection' = BoundSelection'
<1>1. PICK s \in Indexed : s = BoundSelection'
  BY BoundIsSelectionNext
<1>2. BoundTo(fs', s)
  BY <1>1, BoundIsSelectionNext DEF IInv, TypeOK
<1> QED
  BY <1>1, <1>2, ShownIsSelectionNext

\* Every step binds the view to nothing, or to what is shown.
LEMMA BindingImplemented ==
  ASSUME JournalOrdered, IInv, ViewInvariant, [Next]_vars
  PROVE  View!Binding
<1>1. IInv'
  BY NextIInv
<1>2. \/ BoundSelection' = BoundSelection
      \/ BoundSelection = Absent /\ \E i \in Invocations : BoundSelection' = req[i]
  BY BindingKept
<1>3. BoundSelection' # Absent => ShownSelection' = BoundSelection'
  BY <1>1, BoundIsShownNext
<1> QED
  BY <1>2, <1>3 DEF View!Binding

\* Every step of an invocation keeps what is shown, or shows the first selection.
LEMMA ShowingImplemented ==
  ASSUME JournalOrdered, IInv, ViewInvariant, NEW i \in Invocations,
         Step(i) \/ IoFails(i) \/ Kill(i)
  PROVE  View!Showing
<1>1. IInv' /\ ViewInvariant' /\ req' = req
  BY NextIInv, NextView, ResultStep DEF Next
<1>2. CASE ShownSelection # Absent
  <2>1. PICK s \in Indexed : s = ShownSelection
    BY <1>2, ShownIsSelection
  <2>2. BoundTo(fs, s)
    BY <2>1, ShownIsSelection
  <2>3. BoundTo(fs', s)
    BY <2>2, ShownStep
  <2> QED
    BY <1>1, <2>1, <2>3, ShownIsSelectionNext DEF View!Showing
<1>3. CASE ShownSelection = Absent /\ ShownSelection' # Absent
  <2>1. PICK s \in Indexed : s = ShownSelection'
    BY <1>1, <1>3, ShownIsSelectionNext
  <2>2. BoundTo(fs', s)
    BY <1>1, <2>1, ShownIsSelectionNext
  <2> QED
    BY <1>1, <1>3, <2>1, <2>2, BoundWasAskedNext DEF View!Showing
<1> QED
  BY <1>2, <1>3 DEF View!Showing

\* A step of an invocation implements a step of the view.
LEMMA InvocationViewStep ==
  ASSUME JournalOrdered, IInv, ViewInvariant, NEW i \in Invocations,
         Step(i) \/ IoFails(i) \/ Kill(i)
  PROVE  View!Next
<1>1. View!Binding /\ View!Showing
  BY BindingImplemented, ShowingImplemented DEF Next
<1>2. /\ req' = req /\ pc[i] # "done"
      /\ \/ result' = result /\ \E to \in Steps \ {"done"} : pc' = [pc EXCEPT ![i] = to]
         \/ \E outcome \in Results \ {"none"} : Return(i, outcome)
  BY ResultStep
<1>3. CASE result' = result
  <2>1. Replies' = Replies
    BY <1>3 DEF Replies
  <2> QED
    BY <1>1, <1>2, <2>1 DEF View!Next, View!Work
<1>4. CASE \E outcome \in Results \ {"none"} : Return(i, outcome)
  <2>1. PICK outcome \in Results \ {"none"} : Return(i, outcome)
    BY <1>4
  <2>2. Replies[i] = "none"
    <3>1. result[i] = "none"
      BY <1>2 DEF ViewInvariant, Progress
    <3> QED
      BY <3>1, AnswerOf DEF Replies
  <2>3. Replies' = [Replies EXCEPT ![i] = Answer(outcome)]
    BY <2>1, ReplyStep
  <2>4. ShownSelection' = ShownSelection
    <3>1. fs' = fs
      BY <2>1, ReturnStays
    <3> QED
      BY <3>1 DEF ShownSelection
  <2>5. View!Ends(i, Answer(outcome))
    BY <1>1, <1>2, <2>2, <2>3, <2>4 DEF View!Ends
  <2>6. CASE outcome = "ok"
    <3>1. UnmarkSync(i)
      BY <1>2, <2>1, <2>6, SuccessSteps
    <3>2. BoundSelection = req[i]
      BY <3>1, PublishedIsBound, BoundIsSelection
    <3>3. View!Publish(i)
      BY <2>5, <2>6, <3>2, AnswerOf DEF View!Publish
    <3> QED
      BY <3>3 DEF View!Next
  <2>7. CASE outcome = "found"
    <3>1. Existing(i)
      BY <1>2, <2>1, <2>7, SuccessSteps
    <3>2. ShownSelection = req[i]
      BY <2>1, <2>7, <3>1, FoundIsShown, ShownIsSelection
    <3>3. View!Find(i)
      BY <2>5, <2>7, <3>2, AnswerOf DEF View!Find
    <3> QED
      BY <3>3 DEF View!Next
  <2>8. CASE outcome \notin {"ok", "found"}
    <3>1. Answer(outcome) = "failed"
      BY <2>1, <2>8, AnswerOf
    <3>2. View!Refuse(i)
      BY <2>5, <3>1 DEF View!Refuse
    <3> QED
      BY <3>2 DEF View!Next
  <2> QED
    BY <2>6, <2>7, <2>8
<1> QED
  BY <1>2, <1>3, <1>4

\* What a power loss leaves was shown, or it leaves nothing; and it is bound.
LEMMA CrashShown ==
  ASSUME JournalOrdered, IInv, ViewInvariant, PowerLoss
  PROVE  /\ ShownSelection' = ShownSelection \/ ShownSelection' = Absent
         /\ BoundSelection' = ShownSelection'
<1>1. IInv'
  BY NextIInv DEF Next
<1>2. PICK d \in images : \E lost \in SUBSET Unsynced(d) :
         fs' = Settle(d, lost) /\ images' = {Settle(d, lost)}
  BY DEF PowerLoss
<1>3. PICK lost \in SUBSET Unsynced(d) : fs' = Settle(d, lost) /\ images' = {fs'}
  BY <1>2
<1>4. IsDirectory(d) /\ Legal(d)
  BY DEF IInv, TypeOK, DirectoryPhases
<1>5. CASE ShownSelection' # Absent
  <2>1. PICK s \in Indexed : s = ShownSelection'
    BY <1>1, <1>5, ShownIsSelectionNext
  <2>2. BoundTo(fs', s)
    BY <1>1, <2>1, ShownIsSelectionNext
  <2>3. Exists(fs', Marker) \/ Exists(fs', State)
    BY <2>2, Unbound
  <2>4. Exists(d, Marker) \/ Exists(d, State)
    BY <1>3, <1>4, <2>3, SettleEffect, NamesDistinct
  <2>5. PICK t \in Indexed : BoundTo(d, t)
    BY <1>4, <2>4, LegalBound
  <2>6. BoundTo(fs', t)
    BY <1>3, <1>4, <2>5, SettleBound
  <2>7. t = s
    BY <2>2, <2>6, BoundOnce
  <2>8. BoundTo(fs, s)
    BY <2>5, <2>7 DEF ViewInvariant, ShownBeforeBound
  <2>9. ShownSelection = s
    BY <2>8, ShownIsSelection
  <2>10. BoundSelection' = s
    BY <1>1, <1>3, <2>2, BoundIsSelectionNext
  <2> QED
    BY <2>1, <2>9, <2>10
<1>6. CASE ShownSelection' = Absent
  <2>1. BoundSelection' = Absent
    BY <1>1, <1>6, BoundIsShownNext
  <2> QED
    BY <1>6, <2>1
<1> QED
  BY <1>5, <1>6

\* A power loss implements a crash of the view.
LEMMA CrashViewStep ==
  ASSUME JournalOrdered, IInv, ViewInvariant, PowerLoss
  PROVE  View!Crash
<1> DEFINE ended == {i \in Invocations : Active(i)}
<1>1. \A i \in ended : Replies[i] = "none"
  BY AnswerOf DEF ViewInvariant, Progress, Active, Replies
<1>2. result' = [i \in Invocations |-> IF i \in ended THEN "killed" ELSE result[i]] /\ req' = req
  BY DEF PowerLoss
<1>3. Replies' = [i \in Invocations |-> IF i \in ended THEN "failed" ELSE Replies[i]]
  <2> HIDE DEF ended
  <2> QED
    BY <1>2, AnswerOf DEF Replies, Results
<1>4. ended \in SUBSET {i \in Invocations : Replies[i] = "none"}
  BY <1>1
<1> HIDE DEF ended
<1>5. BoundSelection = Absent \/ BoundSelection' = BoundSelection
  BY BindingKept DEF Next
<1> QED
  BY <1>2, <1>3, <1>4, <1>5, CrashShown DEF View!Crash

\* Every step implements a step of the view.
LEMMA ViewStep ==
  ASSUME JournalOrdered, IInv, ViewInvariant, [Next]_vars
  PROVE  [View!Next]_(View!vars)
<1>1. CASE Next
  BY <1>1, InvocationViewStep, CrashViewStep DEF Next, View!Next
<1>2. CASE UNCHANGED vars
  <2>1. fs' = fs /\ images' = images /\ req' = req /\ result' = result
    BY <1>2 DEF vars
  <2> QED
    BY <2>1 DEF View!vars, BoundSelection, ShownSelection, Replies
<1> QED
  BY <1>1, <1>2

\* Whoever is killed, whatever fails and whenever the power goes, materialize
\* implements the write-once view of ProjectView.
THEOREM ImplementsView ==
  ASSUME JournalOrdered
  PROVE  Spec => ImplementsProjectView
<1>1. Init => IInv /\ ViewInvariant
  BY InitIInv, InitView
<1>2. IInv /\ ViewInvariant /\ [Next]_vars => IInv' /\ ViewInvariant'
  BY NextIInv, NextView
<1>3. Init => View!Init
  <2> SUFFICES ASSUME Init PROVE View!Init
    OBVIOUS
  <2>1. IInv /\ images = {fs}
    BY InitIInv DEF Init
  <2>2. ~Exists(fs, Marker) /\ ~Exists(fs, State)
    BY NamesDistinct DEF Init, EmptyDirectory, Exists
  <2>3. BoundSelection = Absent /\ ShownSelection = Absent
    BY <2>1, <2>2, Unbound, BoundIsSelection, ShownIsSelection
  <2>4. Replies = [c \in Invocations |-> "none"]
    BY AnswerOf DEF Init, Replies
  <2> QED
    BY <2>3, <2>4 DEF Init, View!Init
<1>4. IInv /\ ViewInvariant /\ [Next]_vars => [View!Next]_(View!vars)
  BY ViewStep
<1> QED
  BY <1>1, <1>2, <1>3, <1>4, PTL DEF Spec, ImplementsProjectView, View!Spec

\* Without kills and failed calls, a success is about a durable project.
LEMMA SuccessIsBound ==
  ASSUME IInv, ViewInvariant, Durable, NEW i \in Invocations,
         Step(i) \/ IoFails(i) \/ Kill(i), NEW outcome \in {"ok", "found"}, Return(i, outcome),
         pc[i] # "done"
  PROVE  BoundSelection = req[i]
<1>1. CASE UnmarkSync(i)
  BY <1>1, PublishedIsBound, BoundIsSelection
<1>2. CASE outcome = "found" /\ Existing(i)
  <2>1. pc[i] = "existing" /\ req[i] \in Indexed /\ BoundTo(fs, req[i])
    BY <1>2, FoundIsShown
  <2>2. \A j \in Invocations : pc[j] \in LockedSteps => j = i
    BY <2>1 DEF IInv, DirectoryPhases, Exclusion, LockedSteps
  <2>3. images = {fs}
    BY <2>1, <2>2 DEF Durable, QuietSteps
  <2> QED
    BY <2>1, <2>3, BoundIsSelection
<1> QED
  BY <1>1, <1>2, SuccessSteps

\* As long as calls end by returning or by a power loss, every success is about a
\* project that is durable, also when the call only found it.
THEOREM SuccessIsDurable ==
  ASSUME JournalOrdered, ~MayKill, ~MayFail
  PROVE  Spec => []AnswersAreDurable
<1>1. Init => IInv /\ ViewInvariant /\ Durable /\ AnswersAreDurable
  <2>1. Init => Durable /\ AnswersAreDurable
    BY DEF Init, Durable, AnswersAreDurable
  <2> QED
    BY <2>1, InitIInv, InitView
<1>2. IInv /\ ViewInvariant /\ Durable /\ [Next]_vars => IInv' /\ ViewInvariant' /\ Durable'
  <2>1. IInv => TypeOK /\ Exclusion
    BY DEF IInv, DirectoryPhases
  <2> QED
    BY <2>1, NextIInv, NextView, NextDurable
<1>3. ASSUME IInv, ViewInvariant, Durable, AnswersAreDurable, [Next]_vars
      PROVE  AnswersAreDurable'
  <2> SUFFICES ASSUME NEW j \in Invocations, result'[j] \in {"ok", "found"}
               PROVE  BoundSelection' = req'[j]
    BY DEF AnswersAreDurable
  <2>1. req' = req /\ req[j] # Absent
    <3>1. req' = req
      BY <1>3, ResultStep DEF Next, PowerLoss, vars
    <3> QED
      BY <3>1, <1>3, AbsentAssumption DEF IInv, TypeOK
  <2>2. BoundSelection = req[j]
    <3>1. CASE result[j] \in {"ok", "found"}
      BY <1>3, <3>1 DEF AnswersAreDurable
    <3>2. CASE result[j] \notin {"ok", "found"}
      <4>1. ~PowerLoss /\ ~UNCHANGED vars
        BY <3>2 DEF PowerLoss, vars
      <4>2. PICK i \in Invocations : Step(i) \/ IoFails(i) \/ Kill(i)
        BY <1>3, <4>1 DEF Next
      <4>3. pc[i] # "done" /\ \E outcome \in Results : Return(i, outcome)
        BY <1>3, <3>2, <4>2, ResultStep
      <4>4. i = j /\ Return(i, result'[j])
        BY <1>3, <3>2, <4>3 DEF Return, IInv, TypeOK
      <4> QED
        BY <1>3, <4>2, <4>3, <4>4, SuccessIsBound
    <3> QED
      BY <3>1, <3>2
  <2>3. \/ BoundSelection' = BoundSelection
        \/ BoundSelection = Absent /\ \E i \in Invocations : BoundSelection' = req[i]
    BY <1>3, BindingKept
  <2> QED
    BY <2>1, <2>2, <2>3
<1> QED
  BY <1>1, <1>2, <1>3, PTL DEF Spec

(***************************************************************************)
(* The error paths                                                         *)
(***************************************************************************)

\* The invariant of the error paths holds in the empty directory.
LEMMA InitOwned == Init => TemporariesOwned
<1> SUFFICES ASSUME Init PROVE TemporariesOwned
  OBVIOUS
<1>1. \A x \in Names : ~Exists(fs, x)
  BY DEF Init, EmptyDirectory, Exists
<1>2. Temporaries(fs) = {}
  BY <1>1, NamesDistinct DEF Temporaries, StateTemps, MarkerTemps, Stagings
<1> QED
  BY <1>2 DEF Init, TemporariesOwned

\* Without kills and power losses, a temporary without a marker has its owner at work.
LEMMA NextOwned ==
  ASSUME JournalOrdered, ~MayKill, ~MayLosePower, IInv, TemporariesOwned, [Next]_vars
  PROVE  TemporariesOwned'
<1>0. pc \in [Invocations -> Steps] /\ IsDirectory(fs)
  BY DEF IInv, TypeOK
<1>1. ASSUME NEW i \in Invocations, Step(i) \/ IoFails(i) PROVE TemporariesOwned'
  <2>1. pc[i] \notin {"recCreate", "recWrite", "recRename", "recMarkerSync"}
    BY DEF TemporariesOwned
  <2>2. \A n \in Temporaries(fs) : ~Exists(fs, Marker) => pc[n] \in BuildSteps \cup {"clean"}
    BY DEF TemporariesOwned
  <2>3. \A j \in Invocations \ {i} : pc'[j] = pc[j]
    BY <1>0, <1>1, ResultStep DEF Return
  <2>4. ASSUME pc[i] \in LockedSteps, pc[i] \notin BuildSteps \cup {"clean"}, ~Exists(fs, Marker)
        PROVE  Temporaries(fs) = {}
    <3>1. ASSUME NEW n \in Temporaries(fs) PROVE FALSE
      <4>1. n \in Invocations /\ pc[n] \in LockedSteps /\ n # i
        BY <2>2, <2>4, <3>1 DEF LockedSteps, Temporaries, StateTemps, MarkerTemps, Stagings
      <4> QED
        BY <2>4, <4>1 DEF IInv, DirectoryPhases, Exclusion
    <3> QED
      BY <3>1
  <2>5. CASE Quiet(i)
    <3>1. fs' = fs
      BY <2>5, QuietStays
    <3>2. pc'[i] \notin {"recCreate", "recWrite", "recRename", "recMarkerSync"}
      <4>1. CASE Recover(i)
        <5>1. Temporaries(fs) = {} \/ Exists(fs, Marker)
          BY <2>4, <4>1 DEF Recover, LockedSteps, RecoverySteps, BuildSteps
        <5> QED
          BY <1>0, <4>1, <5>1 DEF Recover, Temporaries, Goto, Return, AfterRepository, Reconstructible
      <4>2. CASE ~Recover(i)
        <5>1. CASE Entry(i)
          BY <1>0, <5>1 DEF Entry, Start, GitCheck, GitOpen, GitWrite, Lock, Validate, Goto, Return
        <5>2. CASE ~Entry(i) /\ ~IoFails(i)
          BY <1>0, <1>1, <2>5, <4>2, <5>2 DEF Quiet, RecMarkerSync, RecPublishSync, RecStateSync,
             RecUnmarkSync, Existing, MarkerSync, PublishSync, CommitSync, UnmarkSync, Kill, Goto,
             Return, AfterRepository
        <5>3. CASE IoFails(i)
          BY <1>0, <5>3 DEF IoFails, Goto, Return
        <5> QED
          BY <5>1, <5>2, <5>3
      <4> QED
        BY <4>1, <4>2
    <3>3. pc[i] \in BuildSteps \cup {"clean"} => pc'[i] \in BuildSteps \cup {"clean"}
      <4>1. CASE IoFails(i)
        BY <1>0, <4>1 DEF IoFails, Goto, BuildSteps
      <4>2. CASE ~IoFails(i)
        <5>1. pc[i] \notin BuildSteps \cup {"clean"}
          BY <1>1, <2>5, <4>2 DEF Quiet, Entry, Start, GitCheck, GitOpen, GitWrite, Lock, Validate,
             Recover, RecMarkerSync, RecPublishSync, RecStateSync, RecUnmarkSync, Existing,
             MarkerSync, PublishSync, CommitSync, UnmarkSync, Kill, Goto, BuildSteps
        <5> QED
          BY <5>1
      <4> QED
        BY <4>1, <4>2
    <3>4. \A n \in Temporaries(fs') : ~Exists(fs', Marker) => pc'[n] \in BuildSteps \cup {"clean"}
      BY <2>2, <2>3, <3>1, <3>3 DEF Temporaries, StateTemps, MarkerTemps, Stagings
    <3> QED
      BY <2>3, <3>2, <3>4 DEF TemporariesOwned
  <2>6. CASE Prepares(i)
    <3>1. pc'[i] \notin {"recCreate", "recWrite", "recRename", "recMarkerSync"}
      BY <1>0, <2>1, <2>6 DEF Prepares, MkStaging, Copy, WritePackages, SyncStaging, StateCreate,
         StateWrite, MarkerCreate, MarkerWrite, MarkerRename, RecCreate, RecWrite, RecRename, Goto
    <3>2. CASE MarkerRename(i)
      <4>1. /\ req[i] \in Indexed /\ MarkerPrepared(fs, i, i, req[i]) /\ Rename(MarkerTemp(i), Marker)
        BY <3>2 DEF MarkerRename, Goto, IInv, DirectoryPhases, Phases, AtBuild, BuildSteps
      <4>2. Marked(fs', i, req[i])
        BY <4>1, MarkAdvances
      <4> QED
        BY <2>3, <3>1, <4>2 DEF TemporariesOwned, Marked, Shape
    <3>3. CASE ~MarkerRename(i)
      <4>1. pc'[i] \in BuildSteps
        BY <1>0, <2>1, <2>6, <3>3 DEF Prepares, MkStaging, Copy, WritePackages, SyncStaging,
           StateCreate, StateWrite, MarkerCreate, MarkerWrite, RecCreate, RecWrite, RecRename, Goto,
           BuildSteps
      <4>2. ~Exists(fs, Marker)
        BY <2>6, PreparesUnbound
      <4>3. \A x \in Names \ {StateTemp(i), MarkerTemp(i), Staging(i)} : fs'[x] = fs[x]
        <5>1. CASE MkStaging(i)
          BY <1>0, <5>1, NamesDistinct DEF MkStaging, Create, DirectoryOperation, Apply
        <5>2. CASE Copy(i)
          BY <1>0, <5>2, NamesDistinct DEF Copy, WriteNode, IsDirectory
        <5>3. CASE WritePackages(i) \/ SyncStaging(i)
          BY <1>0, <5>3, NamesDistinct DEF WritePackages, SyncStaging, WriteNode, IsDirectory
        <5>4. CASE StateCreate(i)
          BY <1>0, <5>4, NamesDistinct DEF StateCreate, Create, DirectoryOperation, Apply
        <5>5. CASE StateWrite(i) \/ MarkerWrite(i)
          BY <1>0, <5>5, NamesDistinct DEF StateWrite, MarkerWrite, WriteNode, IsDirectory
        <5>6. CASE MarkerCreate(i)
          BY <1>0, <5>6, NamesDistinct DEF MarkerCreate, Create, DirectoryOperation, Apply
        <5> QED
          BY <2>1, <2>6, <3>3, <5>1, <5>2, <5>3, <5>4, <5>5, <5>6
             DEF Prepares, RecCreate, RecWrite, RecRename, Goto
      <4>4. Temporaries(fs') \subseteq Temporaries(fs) \cup {i}
        BY <4>3, NamesDistinct DEF Temporaries, StateTemps, MarkerTemps, Stagings, Exists
      <4> QED
        BY <2>2, <2>3, <3>1, <4>1, <4>2, <4>4 DEF TemporariesOwned, Temporaries, StateTemps,
           MarkerTemps, Stagings
    <3> QED
      BY <3>2, <3>3
  <2>7. CASE Clean(i)
    <3>1. pc[i] = "clean" /\ pc'[i] \in {"clean", "done"} /\ ~Exists(fs, Marker)
      BY <1>0, <2>7 DEF Clean, Goto, Return, IInv, DirectoryPhases, Phases, AtBuild
    <3>2. CASE fs' = fs /\ pc'[i] = "done"
      <4>1. i \notin Temporaries(fs)
        BY <1>0, <2>7, <3>2 DEF Clean, Goto, Temporaries, StateTemps, MarkerTemps, Stagings
      <4> QED
        BY <2>2, <2>3, <3>1, <3>2, <4>1 DEF TemporariesOwned, Temporaries, StateTemps, MarkerTemps,
           Stagings
    <3>3. CASE pc'[i] = "clean" /\ \E x \in {MarkerTemp(i), StateTemp(i), Staging(i)} : Remove(x)
      <4>1. \A x \in Names : Exists(fs', x) => Exists(fs, x)
        BY <1>0, <3>3, RemoveEffect, NamesDistinct DEF Exists
      <4>2. Temporaries(fs') \subseteq Temporaries(fs)
        BY <4>1, NamesDistinct DEF Temporaries, StateTemps, MarkerTemps, Stagings
      <4> QED
        BY <2>2, <2>3, <3>1, <3>3, <4>2 DEF TemporariesOwned, Temporaries, StateTemps, MarkerTemps,
           Stagings
    <3> QED
      BY <1>0, <2>7, <3>2, <3>3 DEF Clean, Goto, Return
  <2>8. CASE Publishes(i)
    <3>1. pc'[i] \notin {"recCreate", "recWrite", "recRename", "recMarkerSync"}
      BY <1>0, <2>8 DEF Publishes, Publish, RecPublish, Commit, RecState, Unmark, RecUnmark, Goto
    <3>2. Exists(fs', Marker) \/ Temporaries(fs') = {}
      <4>1. PICK s \in Indexed : BoundTo(fs, s)
        BY <2>8 DEF Publishes, Publish, RecPublish, Commit, RecState, Unmark, RecUnmark, Goto, IInv,
           DirectoryPhases, Phases, AtRecovery, AtCommit, CommitSteps, BoundTo
      <4>2. BoundTo(fs', s)
        BY <2>8, <4>1, PublishBound, CommitBound, UnmarkBound DEF Publishes
      <4> QED
        BY <4>2 DEF BoundTo, Finished, Marked, Exposed, Committed, Shape, Temporaries
    <3> QED
      BY <2>3, <3>1, <3>2 DEF TemporariesOwned
  <2> QED
    BY <1>1, <2>5, <2>6, <2>7, <2>8, StepKinds
<1>2. ~PowerLoss /\ \A i \in Invocations : ~Kill(i)
  BY DEF PowerLoss, Kill
<1>3. CASE UNCHANGED vars
  BY <1>3 DEF vars, TemporariesOwned, Temporaries
<1> QED
  BY <1>1, <1>2, <1>3 DEF Next

\* Unless processes die or the power fails, the error paths leave no temporaries
\* behind that would make the next call a conflict.
THEOREM NoOrphans ==
  ASSUME JournalOrdered, ~MayKill, ~MayLosePower
  PROVE  Spec => []FailuresLeaveNoOrphans
<1>1. Init => IInv /\ TemporariesOwned
  BY InitIInv, InitOwned
<1>2. IInv /\ TemporariesOwned /\ [Next]_vars => IInv' /\ TemporariesOwned'
  BY NextIInv, NextOwned
<1>3. IInv /\ TemporariesOwned => FailuresLeaveNoOrphans
  <2> SUFFICES ASSUME IInv, TemporariesOwned, lock = NoOne, ~Exists(fs, Marker)
               PROVE  Temporaries(fs) = {}
    BY DEF FailuresLeaveNoOrphans, NoTemporaries, Temporaries
  <2>1. \A i \in Invocations : pc[i] \notin LockedSteps
    BY NoOneAssumption DEF IInv, DirectoryPhases, Exclusion
  <2> QED
    BY <2>1 DEF TemporariesOwned, Temporaries, StateTemps, MarkerTemps, Stagings, LockedSteps
<1> QED
  BY <1>1, <1>2, <1>3, PTL DEF Spec

(***************************************************************************)
(* Any order of durability: the trees                                      *)
(***************************************************************************)

TInv == TypeOK /\ TreesInAnyOrder

\* A directory operation changes the same names in every directory that it reaches.
LEMMA OperationInAnyOrder ==
  ASSUME TypeOK, NEW S \in SUBSET Names, NEW upd, DOMAIN upd = S,
         \A x \in S : upd[x] \in NodesOf(x), DirectoryOperation(upd)
  PROVE  /\ fs' \in images' /\ \A d \in images' : IsDirectory(d)
         /\ \A x \in Names : fs'[x] = IF x \in S THEN upd[x] ELSE fs[x]
         /\ \A d \in images' : \E e \in images :
              d = e \/ \A x \in Names : d[x] = IF x \in S THEN upd[x] ELSE e[x]
<1>1. ASSUME NEW e \in images
      PROVE  /\ IsDirectory(Apply(e, upd))
             /\ \A x \in Names : Apply(e, upd)[x] = IF x \in S THEN upd[x] ELSE e[x]
  <2>1. IsDirectory(e)
    BY DEF TypeOK
  <2>2. \A x \in Names : Apply(e, upd)[x] = IF x \in S THEN upd[x] ELSE e[x]
    BY DEF Apply
  <2>3. \A x \in Names : Apply(e, upd)[x] \in NodesOf(x) /\ Apply(e, upd)[x] \in Nodes
    BY <2>1, <2>2, NodesOfNodes DEF IsDirectory
  <2>4. Apply(e, upd) = [x \in Names |-> Apply(e, upd)[x]]
    BY DEF Apply
  <2> QED
    BY <2>2, <2>3, <2>4 DEF IsDirectory
<1>2. fs \in images /\ \A d \in images : IsDirectory(d)
  BY DEF TypeOK
<1>3. fs' = Apply(fs, upd)
  BY DEF DirectoryOperation
<1>4. \A d \in images' : d \in images \/ \E e \in images : d = Apply(e, upd)
  BY <1>2 DEF DirectoryOperation
<1>5. fs' \in images'
  BY <1>2 DEF DirectoryOperation
<1> QED
  BY <1>1, <1>2, <1>3, <1>4, <1>5

\* A rename, whatever is durable of it.
LEMMA RenameInAnyOrder ==
  ASSUME TypeOK, NEW from \in Names, NEW to \in Names, from # to,
         NodesOf(from) = NodesOf(to), Rename(from, to)
  PROVE  /\ fs' \in images' /\ \A d \in images' : IsDirectory(d)
         /\ fs'[from] = Absent /\ fs'[to] = fs[from]
         /\ \A x \in Names \ {from, to} : fs'[x] = fs[x]
         /\ \A d \in images' : \E e \in images :
              \/ d = e
              \/ /\ d[from] = Absent /\ d[to] = fs[from]
                 /\ \A x \in Names \ {from, to} : d[x] = e[x]
<1> DEFINE upd == [x \in {from, to} |-> IF x = to THEN fs[from] ELSE Absent]
<1>1. \A x \in {from, to} : upd[x] \in NodesOf(x)
  BY DEF TypeOK, IsDirectory, NodesOf
<1>2. DirectoryOperation(upd) /\ DOMAIN upd = {from, to} /\ upd[from] = Absent /\ upd[to] = fs[from]
  BY DEF Rename
<1> HIDE DEF upd
<1>3. /\ fs' \in images' /\ \A d \in images' : IsDirectory(d)
      /\ \A x \in Names : fs'[x] = IF x \in {from, to} THEN upd[x] ELSE fs[x]
      /\ \A d \in images' : \E e \in images :
           d = e \/ \A x \in Names : d[x] = IF x \in {from, to} THEN upd[x] ELSE e[x]
  <2>1. {from, to} \in SUBSET Names
    OBVIOUS
  <2> QED
    BY <1>1, <1>2, <2>1, OperationInAnyOrder
<1> QED
  BY <1>2, <1>3

\* A creation or a removal, whatever is durable of it.
LEMMA ChangeInAnyOrder ==
  ASSUME TypeOK, NEW x \in Names, NEW node \in NodesOf(x),
         DirectoryOperation([y \in {x} |-> node])
  PROVE  /\ fs' \in images' /\ \A d \in images' : IsDirectory(d)
         /\ fs'[x] = node
         /\ \A y \in Names \ {x} : fs'[y] = fs[y]
         /\ \A d \in images' : \E e \in images : \A y \in Names \ {x} : d[y] = e[y]
<1> DEFINE upd == [y \in {x} |-> node]
<1>1. DirectoryOperation(upd) /\ DOMAIN upd = {x} /\ upd[x] = node
  OBVIOUS
<1> HIDE DEF upd
<1>2. /\ fs' \in images' /\ \A d \in images' : IsDirectory(d)
      /\ \A y \in Names : fs'[y] = IF y \in {x} THEN upd[y] ELSE fs[y]
      /\ \A d \in images' : \E e \in images :
           d = e \/ \A y \in Names : d[y] = IF y \in {x} THEN upd[y] ELSE e[y]
  <2>1. {x} \in SUBSET Names /\ \A y \in {x} : upd[y] \in NodesOf(y)
    BY <1>1
  <2> QED
    BY <1>1, <2>1, OperationInAnyOrder
<1> QED
  BY <1>1, <1>2

\* A write reaches the node wherever its name is.
LEMMA WriteInAnyOrder ==
  ASSUME TypeOK, NEW x \in Names, NEW node \in NodesOf(x), Exists(fs, x), WriteNode(x, node)
  PROVE  /\ fs' \in images' /\ \A d \in images' : IsDirectory(d)
         /\ fs'[x] = node
         /\ \A y \in Names \ {x} : fs'[y] = fs[y]
         /\ \A d \in images' : \E e \in images : \A y \in Names \ {x} : d[y] = e[y]
<1>1. node \in Nodes
  BY NodesOfNodes
<1>2. fs \in images /\ \A d \in images : IsDirectory(d)
  BY DEF TypeOK
<1>3. \A d \in images' : \E e \in images : d = e \/ d = [e EXCEPT ![x] = node]
  BY DEF WriteNode
<1>4. \A e \in images : IsDirectory([e EXCEPT ![x] = node])
  BY <1>1, <1>2 DEF IsDirectory
<1>5. fs' \in images'
  BY <1>2 DEF WriteNode, Exists
<1>6. fs'[x] = node /\ \A y \in Names \ {x} : fs'[y] = fs[y]
  BY <1>2 DEF WriteNode, IsDirectory
<1> QED
  BY <1>2, <1>3, <1>4, <1>5, <1>6 DEF IsDirectory

\* The frame of a step of the lock holder i.
LEMMA TreeStep ==
  ASSUME TInv, NEW i \in Invocations, pc[i] \in LockedSteps,
         NEW to \in LockedSteps, Goto(i, pc[i], to),
         fs' \in images', \A d \in images' : IsDirectory(d),
         RepositoryNeverPartial', UnsyncedTreesAreAlone', TreeAtBuild(i)', TreeAtRecovery(i)'
  PROVE  TInv'
<1>1. TypeOK'
  BY DEF TInv, TypeOK, Goto, LockedSteps, Steps
<1>2. Exclusion'
  BY DEF TInv, TypeOK, TreesInAnyOrder, Exclusion, Goto
<1>3. ASSUME NEW j \in Invocations \ {i} PROVE TreeAtBuild(j)' /\ TreeAtRecovery(j)'
  <2>1. pc[j] \notin LockedSteps /\ pc'[j] = pc[j]
    BY DEF TInv, TypeOK, TreesInAnyOrder, Exclusion, Goto
  <2> QED
    BY <2>1 DEF TreeAtBuild, TreeAtRecovery, LockedSteps, RecoverySteps, BuildSteps, CommitSteps
<1> QED
  BY <1>1, <1>2, <1>3 DEF TInv, TreesInAnyOrder

\* Where no name but one changes, and that is not `repository`, every repository
\* is one that was there.
LEMMA RepositoryStays ==
  ASSUME RepositoryNeverPartial,
         \A d \in images' : \E e \in images : d[Repository] = e[Repository]
  PROVE  RepositoryNeverPartial'
BY DEF RepositoryNeverPartial, Exists

\* The end of a call.
LEMMA TreeLeaves ==
  ASSUME TInv, NEW i \in Invocations, NEW outcome \in Results, Return(i, outcome),
         fs' = fs, images' \subseteq images, fs \in images'
  PROVE  TInv'
<1>1. TypeOK'
  BY DEF TInv, TypeOK, Return, Steps
<1>2. Exclusion'
  BY NoOneAssumption DEF TInv, TypeOK, TreesInAnyOrder, Exclusion, Return, LockedSteps,
     RecoverySteps, BuildSteps, CommitSteps
<1>3. RepositoryNeverPartial' /\ UnsyncedTreesAreAlone'
  BY DEF TInv, TreesInAnyOrder, RepositoryNeverPartial, UnsyncedTreesAreAlone
<1>4. ASSUME NEW j \in Invocations PROVE TreeAtBuild(j)' /\ TreeAtRecovery(j)'
  <2>1. TreeAtBuild(j) /\ TreeAtRecovery(j) /\ req' = req /\ pc'[j] \in {pc[j], "done"}
    BY DEF TInv, TypeOK, TreesInAnyOrder, Return
  <2> QED
    BY <2>1 DEF TreeAtBuild, TreeAtRecovery, TempOrState
<1> QED
  BY <1>1, <1>2, <1>3, <1>4 DEF TInv, TreesInAnyOrder

\* Steps before the lock, and the lock itself.
LEMMA TreeEntry ==
  ASSUME TInv, NEW i \in Invocations, Entry(i)
  PROVE  TInv'
<1>1. fs \in images /\ TypeOK /\ TreesInAnyOrder
  BY DEF TInv, TypeOK
<1>2. CASE \E outcome \in Results : Return(i, outcome) /\ UNCHANGED <<fs, images>>
  BY <1>1, <1>2, TreeLeaves
<1>3. CASE Validate(i) /\ Goto(i, "validate", "recover")
  BY <1>1, <1>3, TreeStep DEF Validate, Goto, TypeOK, TreesInAnyOrder, RepositoryNeverPartial,
     UnsyncedTreesAreAlone, TreeAtBuild, TreeAtRecovery, LockedSteps, RecoverySteps
<1>4. CASE \/ Start(i) \/ GitOpen(i) \/ GitWrite(i) \/ Lock(i)
           \/ GitCheck(i) /\ (Goto(i, "gitCheck", "gitOpen") \/ Goto(i, "gitCheck", "lock"))
  <2>1. /\ UNCHANGED <<fs, images, req, result>> /\ gitignore' \in {"absent", "torn", "ok"}
        /\ pc[i] \in {"idle", "lock"} \cup GitSteps
        /\ pc' = [pc EXCEPT ![i] = pc'[i]] /\ pc'[i] \in GitSteps \cup {"lock", "validate"}
        /\ pc'[i] = "validate" => lock = NoOne /\ lock' = i
        /\ pc'[i] # "validate" => lock' = lock
    BY <1>1, <1>4 DEF Start, GitOpen, GitWrite, Lock, GitCheck, Goto, TypeOK, GitSteps
  <2>2. TypeOK'
    BY <1>1, <2>1 DEF TypeOK, Steps, LockedSteps
  <2>3. Exclusion'
    BY <1>1, <2>1, NoOneAssumption DEF TypeOK, TreesInAnyOrder, Exclusion, LockedSteps,
       RecoverySteps, BuildSteps, CommitSteps, GitSteps
  <2>4. RepositoryNeverPartial' /\ UnsyncedTreesAreAlone'
    BY <1>1, <2>1 DEF TreesInAnyOrder, RepositoryNeverPartial, UnsyncedTreesAreAlone
  <2>5. ASSUME NEW j \in Invocations PROVE TreeAtBuild(j)' /\ TreeAtRecovery(j)'
    <3>1. CASE j = i
      BY <2>1, <3>1 DEF TreeAtBuild, TreeAtRecovery, GitSteps
    <3>2. CASE j # i
      <4>1. TreeAtBuild(j) /\ TreeAtRecovery(j) /\ pc'[j] = pc[j]
        BY <1>1, <2>1, <3>2 DEF TypeOK, TreesInAnyOrder
      <4> QED
        BY <2>1, <4>1 DEF TreeAtBuild, TreeAtRecovery, TempOrState
    <3> QED
      BY <3>1, <3>2
  <2> QED
    BY <2>2, <2>3, <2>4, <2>5 DEF TInv, TreesInAnyOrder
<1>5. GitCheck(i) => \/ Goto(i, "gitCheck", "gitOpen") \/ Goto(i, "gitCheck", "lock")
                     \/ Return(i, "invalid") /\ UNCHANGED <<fs, images>>
  BY DEF GitCheck
<1>6. Validate(i) => \/ Goto(i, "validate", "recover")
                     \/ Return(i, "invalid") /\ UNCHANGED <<fs, images>>
  BY DEF Validate
<1>7. "invalid" \in Results
  BY DEF Results
<1> QED
  BY <1>2, <1>3, <1>4, <1>5, <1>6, <1>7 DEF Entry

\* recover: what it has validated.
LEMMA TreeRecover ==
  ASSUME TInv, NEW i \in Invocations, Recover(i)
  PROVE  TInv'
<1>1. /\ pc[i] = "recover" /\ UNCHANGED <<fs, images>> /\ fs \in images
      /\ \A d \in images : IsDirectory(d)
  BY DEF Recover, TInv, TypeOK
<1>2. RepositoryNeverPartial' /\ UnsyncedTreesAreAlone'
  BY <1>1 DEF TInv, TreesInAnyOrder, RepositoryNeverPartial, UnsyncedTreesAreAlone
<1>3. ASSUME NEW to \in LockedSteps, Goto(i, "recover", to), TreeAtBuild(i)', TreeAtRecovery(i)'
      PROVE  TInv'
  BY <1>1, <1>2, <1>3, TreeStep DEF LockedSteps, RecoverySteps
<1>4. CASE \E outcome \in Results : Return(i, outcome)
  BY <1>1, <1>4, TreeLeaves
<1>5. ASSUME NEW to, Goto(i, "recover", to) PROVE pc'[i] = to /\ req' = req
  BY <1>5 DEF Goto, TInv, TypeOK
<1>6. CASE ~Exists(fs, Marker) /\ NoTemporaries(fs) /\ Goto(i, "recover", "existing")
  <2>1. TreeAtBuild(i)' /\ TreeAtRecovery(i)'
    BY <1>1, <1>5, <1>6 DEF TreeAtBuild, TreeAtRecovery, NoTemporaries, StateTemps, MarkerTemps, Stagings,
       Exists
  <2> QED
    BY <1>3, <1>6, <2>1 DEF LockedSteps
<1>7. CASE /\ Reconstructible(fs, req[i])
           /\ Goto(i, "recover", IF MarkerTemps(fs) = {} THEN "recCreate" ELSE "recRename")
  <2>1. StateTemps(fs) # {} /\ Stagings(fs) # {}
    BY <1>7 DEF Reconstructible
  <2>2. TreeAtBuild(i)' /\ TreeAtRecovery(i)'
    BY <1>1, <1>5, <1>7, <2>1 DEF TreeAtBuild, TreeAtRecovery, StateTemps, MarkerTemps, Stagings, Exists
  <2> QED
    BY <1>3, <1>7, <2>2 DEF LockedSteps, RecoverySteps
<1>8. CASE /\ Exists(fs, Marker) /\ Recoverable(fs, req[i])
           /\ Goto(i, "recover", IF Exists(fs, Repository) THEN AfterRepository ELSE "recPublish")
  <2>1. fs[Marker] \in MarkerDocs
    BY <1>1, <1>8, NamesDistinct, NodeKinds DEF IsDirectory, Exists
  <2>2. fs[Marker].sel \in Selections
    BY <1>8, <2>1 DEF Recoverable, RecordsMatch, MarkerDocs
  <2>3. TempOrState
    BY <1>8 DEF Recoverable, TempOrState, StateTemps
  <2>4. ~Exists(fs, Repository) =>
          /\ Exists(fs, Staging(fs[Marker].staging))
          /\ ContentsValid(fs[Staging(fs[Marker].staging)], fs[Marker].sel)
    BY <1>8 DEF Recoverable, Exists
  <2>5. TreeAtBuild(i)' /\ TreeAtRecovery(i)'
    BY <1>1, <1>5, <1>8, <2>2, <2>3, <2>4 DEF TreeAtBuild, TreeAtRecovery, AfterRepository, TempOrState,
       StateTemps, Stagings, Exists
  <2> QED
    BY <1>3, <1>8, <2>5 DEF LockedSteps, RecoverySteps, AfterRepository
<1>9. "conflict" \in Results
  BY DEF Results
<1> QED
  BY <1>4, <1>6, <1>7, <1>8, <1>9 DEF Recover

\* The steps that make the current directory durable.
LEMMA TreeSyncs ==
  ASSUME TInv, NEW i \in Invocations,
         \/ RecMarkerSync(i) \/ RecPublishSync(i) \/ RecStateSync(i) \/ RecUnmarkSync(i)
         \/ MarkerSync(i) \/ PublishSync(i) \/ CommitSync(i) \/ UnmarkSync(i)
  PROVE  TInv'
<1>1. fs' = fs /\ images' = {fs} /\ fs \in images /\ IsDirectory(fs)
  BY DEF RecMarkerSync, RecPublishSync, RecStateSync, RecUnmarkSync, MarkerSync, PublishSync,
     CommitSync, UnmarkSync, SyncRsolve, TInv, TypeOK
<1>2. RepositoryNeverPartial' /\ UnsyncedTreesAreAlone'
  BY <1>1 DEF TInv, TreesInAnyOrder, RepositoryNeverPartial, UnsyncedTreesAreAlone
<1>3. CASE UnmarkSync(i)
  <2>1. Return(i, "ok") /\ "ok" \in Results
    BY <1>3 DEF UnmarkSync, Results
  <2> QED
    BY <1>1, <2>1, TreeLeaves
<1>4. CASE \/ RecMarkerSync(i) \/ RecPublishSync(i) \/ RecStateSync(i) \/ RecUnmarkSync(i)
           \/ MarkerSync(i) \/ PublishSync(i) \/ CommitSync(i)
  <2>1. PICK to \in LockedSteps : Goto(i, pc[i], to)
    BY <1>4 DEF RecMarkerSync, RecPublishSync, RecStateSync, RecUnmarkSync, MarkerSync, PublishSync,
       CommitSync, Goto, LockedSteps, RecoverySteps, CommitSteps, AfterRepository
  <2>2. /\ pc[i] \in LockedSteps /\ pc'[i] = to /\ req' = req
        /\ TreeAtBuild(i) /\ TreeAtRecovery(i)
    BY <1>4, <2>1 DEF RecMarkerSync, RecPublishSync, RecStateSync, RecUnmarkSync, MarkerSync, PublishSync,
       CommitSync, Goto, LockedSteps, RecoverySteps, CommitSteps, TInv, TypeOK, TreesInAnyOrder
  <2>3. TreeAtBuild(i)' /\ TreeAtRecovery(i)'
    BY <1>1, <1>4, <2>1, <2>2 DEF RecMarkerSync, RecPublishSync, RecStateSync, RecUnmarkSync, MarkerSync,
       PublishSync, CommitSync, Goto, TreeAtBuild, TreeAtRecovery, AfterRepository, TempOrState,
       StateTemps, Stagings, Exists
  <2> QED
    BY <1>1, <1>2, <2>1, <2>2, <2>3, TreeStep
<1> QED
  BY <1>3, <1>4

\* A creation, a removal or a write under a name that is not `repository`.
LEMMA ChangedName ==
  ASSUME TypeOK, NEW x \in Names, NEW node \in NodesOf(x),
         \/ Create(x, node)
         \/ (Remove(x) /\ node = Absent)
         \/ (WriteNode(x, node) /\ Exists(fs, x))
  PROVE  /\ fs' \in images' /\ \A d \in images' : IsDirectory(d)
         /\ fs'[x] = node
         /\ \A y \in Names \ {x} : fs'[y] = fs[y]
         /\ \A d \in images' : \E e \in images : \A y \in Names \ {x} : d[y] = e[y]
<1>1. CASE Create(x, node) \/ (Remove(x) /\ node = Absent)
  BY <1>1, ChangeInAnyOrder DEF Create, Remove
<1>2. CASE WriteNode(x, node) /\ Exists(fs, x)
  BY <1>2, WriteInAnyOrder
<1> QED
  BY <1>1, <1>2

\* Staging, and what is copied into it.
LEMMA TreeStaging ==
  ASSUME TInv, NEW i \in Invocations,
         MkStaging(i) \/ Copy(i) \/ WritePackages(i) \/ SyncStaging(i)
  PROVE  TInv'
<1> DEFINE x == Staging(i)
<1>1. /\ TypeOK /\ fs \in images /\ \A d \in images : IsDirectory(d)
      /\ RepositoryNeverPartial /\ UnsyncedTreesAreAlone /\ TreeAtBuild(i)
      /\ req[i] \in Selections /\ x \in Names /\ x # Repository
  BY NamesDistinct DEF TInv, TreesInAnyOrder, TypeOK
<1>2. pc[i] \in {"mkStaging", "copy", "packages", "syncStaging"} /\ pc[i] \in LockedSteps
  BY DEF MkStaging, Copy, WritePackages, SyncStaging, Goto, LockedSteps, BuildSteps
<1>3. NodesOf(x) = {Absent} \cup Trees
  BY NodeKinds
<1>4. pc[i] # "mkStaging" => Exists(fs, x) /\ fs[x] \in Trees
  BY <1>1, <1>2, <1>3 DEF TreeAtBuild, Stagings, IsDirectory, Exists
<1>5. ASSUME NEW node \in Trees, NEW to \in LockedSteps, Goto(i, pc[i], to),
             Create(x, node) \/ (WriteNode(x, node) /\ Exists(fs, x)),
             to \in {"copy", "packages", "syncStaging", "stateCreate"},
             to \in {"packages", "syncStaging", "stateCreate"} => node.files = req[i].arts,
             to \in {"syncStaging", "stateCreate"} => node.index = req[i].index,
             to = "stateCreate" => node.synced
      PROVE  TInv'
  <2>1. /\ fs' \in images' /\ \A d \in images' : IsDirectory(d)
        /\ fs'[x] = node
        /\ \A y \in Names \ {x} : fs'[y] = fs[y]
        /\ \A d \in images' : \E e \in images : \A y \in Names \ {x} : d[y] = e[y]
    BY <1>1, <1>3, <1>5, ChangedName
  <2>2. RepositoryNeverPartial'
    BY <1>1, <2>1, RepositoryStays, NamesDistinct
  <2>3. Exists(fs', x)
    BY <2>1, AbsentAssumption DEF Exists
  <2>4. Stagings(fs') = {i} /\ StateTemps(fs') = {} /\ ~Exists(fs', Marker)
    BY <1>1, <1>2, <2>1, <2>3, NamesDistinct DEF TreeAtBuild, NoTemporaries, Stagings, StateTemps, Exists
  <2>5. UnsyncedTreesAreAlone'
    BY <2>4 DEF UnsyncedTreesAreAlone
  <2>6. pc'[i] = to /\ req' = req
    BY <1>1, <1>5 DEF Goto, TypeOK
  <2>7. TreeAtBuild(i)' /\ TreeAtRecovery(i)'
    BY <1>5, <2>1, <2>4, <2>6 DEF TreeAtBuild, TreeAtRecovery
  <2> QED
    BY <1>2, <1>5, <2>1, <2>2, <2>5, <2>7, TreeStep
<1>6. CASE MkStaging(i)
  <2> DEFINE node == [files |-> {}, index |-> NoIndex, synced |-> FALSE]
  <2>1. node \in Trees /\ Create(x, node) /\ Goto(i, pc[i], "copy")
    BY <1>6 DEF MkStaging, Goto, Trees, Indexes
  <2> HIDE DEF node, x
  <2> QED
    BY <1>5, <2>1 DEF LockedSteps, BuildSteps
<1>7. CASE Copy(i)
  <2>1. pc[i] = "copy"
    BY <1>7 DEF Copy
  <2>2. CASE /\ \E a \in req[i].arts \ fs[Staging(i)].files :
                  WriteNode(Staging(i), [fs[Staging(i)] EXCEPT !.files = @ \cup {a}])
             /\ Goto(i, "copy", "copy")
    <3>1. PICK a \in req[i].arts : WriteNode(Staging(i), [fs[Staging(i)] EXCEPT !.files = @ \cup {a}])
      BY <2>2
    <3> DEFINE node == [fs[x] EXCEPT !.files = @ \cup {a}]
    <3>2. a \in Artifacts
      BY <1>1 DEF Artifacts
    <3>3. node \in Trees /\ WriteNode(x, node)
      BY <1>4, <2>1, <3>1, <3>2 DEF Trees
    <3> HIDE DEF node, x
    <3> QED
      BY <1>4, <1>5, <2>1, <2>2, <3>3 DEF LockedSteps, BuildSteps
  <2>3. CASE /\ fs[Staging(i)].files = req[i].arts /\ Goto(i, "copy", "packages")
             /\ UNCHANGED <<fs, images>>
    <3>1. pc'[i] = "packages" /\ req' = req
      BY <1>1, <2>3 DEF Goto, TypeOK
    <3>2. TreeAtBuild(i)' /\ TreeAtRecovery(i)'
      BY <1>1, <2>1, <2>3, <3>1 DEF TreeAtBuild, TreeAtRecovery, Stagings, StateTemps, Exists
    <3>3. RepositoryNeverPartial' /\ UnsyncedTreesAreAlone'
      BY <1>1, <2>3 DEF RepositoryNeverPartial, UnsyncedTreesAreAlone
    <3> QED
      BY <1>1, <1>2, <2>1, <2>3, <3>2, <3>3, TreeStep DEF LockedSteps, BuildSteps
  <2> QED
    BY <1>7, <2>2, <2>3 DEF Copy
<1>8. CASE WritePackages(i)
  <2> DEFINE node == [fs[x] EXCEPT !.index = req[i].index]
  <2>1. pc[i] = "packages" /\ Goto(i, pc[i], "syncStaging") /\ WriteNode(x, node)
    BY <1>8 DEF WritePackages, Goto
  <2>2. fs[x].files = req[i].arts /\ req[i].index \in Indexes
    BY <1>1, <2>1 DEF TreeAtBuild, Indexes
  <2>3. node \in Trees /\ node.files = req[i].arts /\ node.index = req[i].index
    BY <1>4, <2>1, <2>2 DEF Trees
  <2> HIDE DEF node, x
  <2> QED
    BY <1>4, <1>5, <2>1, <2>3 DEF LockedSteps, BuildSteps
<1>9. CASE SyncStaging(i)
  <2> DEFINE node == [fs[x] EXCEPT !.synced = TRUE]
  <2>1. pc[i] = "syncStaging" /\ Goto(i, pc[i], "stateCreate") /\ WriteNode(x, node)
    BY <1>9 DEF SyncStaging, Goto
  <2>2. fs[x].files = req[i].arts /\ fs[x].index = req[i].index
    BY <1>1, <2>1 DEF TreeAtBuild
  <2>3. node \in Trees /\ node.files = req[i].arts /\ node.index = req[i].index /\ node.synced
    BY <1>4, <2>1, <2>2 DEF Trees
  <2> HIDE DEF node, x
  <2> QED
    BY <1>4, <1>5, <2>1, <2>3 DEF LockedSteps, BuildSteps
<1> QED
  BY <1>6, <1>7, <1>8, <1>9

\* The documents about a tree: none is written before the tree is synced.
LEMMA TreeDocuments ==
  ASSUME TInv, NEW i \in Invocations,
         StateCreate(i) \/ StateWrite(i) \/ MarkerCreate(i) \/ MarkerWrite(i)
  PROVE  TInv'
<1>1. /\ TypeOK /\ fs \in images /\ \A d \in images : IsDirectory(d)
      /\ RepositoryNeverPartial /\ UnsyncedTreesAreAlone /\ TreeAtBuild(i) /\ req[i] \in Selections
  BY DEF TInv, TreesInAnyOrder, TypeOK
<1>2. /\ Exists(fs, Staging(i)) /\ Complete(fs[Staging(i)], req[i])
      /\ pc[i] = "stateCreate" => \A n \in Invocations : Exists(fs, Staging(n)) => n = i
  BY <1>1 DEF StateCreate, StateWrite, MarkerCreate, MarkerWrite, Goto, TreeAtBuild, Complete,
     ContentsValid, Stagings
<1>3. ASSUME NEW x \in {StateTemp(i), MarkerTemp(i)}, NEW node \in NodesOf(x), node # Absent,
             NEW to \in {"stateWrite", "markerCreate", "markerWrite", "markerRename"},
             pc[i] \in {"stateCreate", "stateWrite", "markerCreate", "markerWrite"},
             Goto(i, pc[i], to),
             Create(x, node) \/ (WriteNode(x, node) /\ Exists(fs, x)),
             x = StateTemp(i) => pc[i] \in {"stateCreate", "stateWrite"},
             x = MarkerTemp(i) => pc[i] \notin {"stateCreate"},
             to = "stateWrite" => x = StateTemp(i), to = "markerWrite" => x = MarkerTemp(i)
      PROVE  TInv'
  <2>0. x \in Names \ {Repository, Marker}
    BY NamesDistinct
  <2>1. /\ fs' \in images' /\ \A d \in images' : IsDirectory(d)
        /\ fs'[x] = node
        /\ \A y \in Names \ {x} : fs'[y] = fs[y]
        /\ \A d \in images' : \E e \in images : \A y \in Names \ {x} : d[y] = e[y]
    BY <1>1, <1>3, <2>0, ChangedName
  <2>2. RepositoryNeverPartial'
    BY <1>1, <2>0, <2>1, RepositoryStays, NamesDistinct
  <2>3. \A n \in Invocations : fs'[Staging(n)] = fs[Staging(n)]
    BY <2>1, NamesDistinct
  <2>4. fs'[Marker] = fs[Marker]
    BY <2>0, <2>1, NamesDistinct
  <2>5. UnsyncedTreesAreAlone'
    <3> SUFFICES ASSUME NEW n \in Invocations, Exists(fs', Staging(n)), ~fs'[Staging(n)].synced
                 PROVE  StateTemps(fs') = {} /\ ~Exists(fs', Marker)
      BY DEF UnsyncedTreesAreAlone
    <3>1. Exists(fs, Staging(n)) /\ ~fs[Staging(n)].synced
      BY <2>3 DEF Exists
    <3>2. StateTemps(fs) = {} /\ ~Exists(fs, Marker)
      BY <1>1, <3>1 DEF UnsyncedTreesAreAlone
    <3>3. pc[i] = "stateCreate"
      BY <1>1, <1>3, <3>2 DEF TreeAtBuild, StateTemps
    <3> QED
      BY <1>2, <3>1, <3>3 DEF Complete
  <2>6. pc'[i] = to /\ req' = req
    BY <1>1, <1>3 DEF Goto, TypeOK
  <2>7. TreeAtBuild(i)' /\ TreeAtRecovery(i)'
    <3>1. Exists(fs', x) /\ Exists(fs', StateTemp(i))
      BY <1>1, <1>3, <2>1, NamesDistinct DEF TreeAtBuild, Exists
    <3> QED
      BY <1>2, <1>3, <2>3, <2>6, <3>1 DEF TreeAtBuild, TreeAtRecovery, Exists
  <2> QED
    BY <1>3, <2>1, <2>2, <2>5, <2>7, TreeStep DEF LockedSteps, BuildSteps
<1>4. /\ NodesOf(StateTemp(i)) = {Absent} \cup StateDocs
      /\ NodesOf(MarkerTemp(i)) = {Absent} \cup MarkerDocs
      /\ StateTemp(i) # MarkerTemp(i)
      /\ \A node \in StateDocs \cup MarkerDocs : node # Absent
  BY NodeKinds, NamesDistinct, AbsentAssumption
<1>5. CASE StateCreate(i)
  <2> DEFINE node == [sel |-> Torn, synced |-> FALSE]
  <2>1. node \in StateDocs /\ Create(StateTemp(i), node) /\ pc[i] = "stateCreate" /\ Goto(i, pc[i], "stateWrite")
    BY <1>5 DEF StateCreate, Goto, StateDocs
  <2> HIDE DEF node
  <2> QED
    BY <1>3, <1>4, <2>1
<1>6. CASE StateWrite(i)
  <2> DEFINE node == [sel |-> req[i], synced |-> TRUE]
  <2>1. node \in StateDocs /\ WriteNode(StateTemp(i), node) /\ pc[i] = "stateWrite" /\ Goto(i, pc[i], "markerCreate")
    BY <1>1, <1>6 DEF StateWrite, Goto, StateDocs
  <2>2. Exists(fs, StateTemp(i))
    BY <1>1, <2>1 DEF TreeAtBuild
  <2> HIDE DEF node
  <2> QED
    BY <1>3, <1>4, <2>1, <2>2
<1>7. CASE MarkerCreate(i)
  <2> DEFINE node == [sel |-> Torn, stateTemp |-> i, staging |-> i, synced |-> FALSE]
  <2>1. node \in MarkerDocs /\ Create(MarkerTemp(i), node) /\ pc[i] = "markerCreate" /\ Goto(i, pc[i], "markerWrite")
    BY <1>7 DEF MarkerCreate, Goto, MarkerDocs
  <2> HIDE DEF node
  <2> QED
    BY <1>3, <1>4, <2>1
<1>8. CASE MarkerWrite(i)
  <2> DEFINE node == [sel |-> req[i], stateTemp |-> i, staging |-> i, synced |-> TRUE]
  <2>1. node \in MarkerDocs /\ WriteNode(MarkerTemp(i), node) /\ pc[i] = "markerWrite" /\ Goto(i, pc[i], "markerRename")
    BY <1>1, <1>8 DEF MarkerWrite, Goto, MarkerDocs
  <2>2. Exists(fs, MarkerTemp(i))
    BY <1>1, <2>1 DEF TreeAtBuild
  <2> HIDE DEF node
  <2> QED
    BY <1>3, <1>4, <2>1, <2>2
<1> QED
  BY <1>5, <1>6, <1>7, <1>8

\* Removals: whatever goes, no tree that is left loses its synced content.
LEMMA TreeRemoves ==
  ASSUME TInv, NEW i \in Invocations, NEW to \in {"clean", "unmarkSync", "recUnmarkSync"},
         pc[i] \in LockedSteps, Goto(i, pc[i], to),
         NEW x \in Names \ {Repository}, Remove(x), to = "recUnmarkSync" => Exists(fs, State) /\ x # State
  PROVE  TInv'
<1>1. TypeOK /\ RepositoryNeverPartial /\ UnsyncedTreesAreAlone
  BY DEF TInv, TreesInAnyOrder
<1>2. Absent \in NodesOf(x)
  BY DEF NodesOf
<1>3. /\ fs' \in images' /\ \A d \in images' : IsDirectory(d)
      /\ fs'[x] = Absent
      /\ \A y \in Names \ {x} : fs'[y] = fs[y]
      /\ \A d \in images' : \E e \in images : \A y \in Names \ {x} : d[y] = e[y]
  BY <1>1, <1>2, ChangedName
<1>4. RepositoryNeverPartial'
  BY <1>1, <1>3, RepositoryStays, NamesDistinct
<1>5. \A y \in Names : Exists(fs', y) => fs'[y] = fs[y] /\ Exists(fs, y)
  BY <1>3 DEF Exists
<1>6. UnsyncedTreesAreAlone'
  BY <1>1, <1>5, NamesDistinct DEF UnsyncedTreesAreAlone, StateTemps
<1>7. pc'[i] = to
  BY <1>1 DEF Goto, TypeOK
<1>8. TreeAtBuild(i)' /\ TreeAtRecovery(i)'
  BY <1>3, <1>7, NamesDistinct DEF TreeAtBuild, TreeAtRecovery, Exists
<1> QED
  BY <1>3, <1>4, <1>6, <1>8, TreeStep DEF LockedSteps, CommitSteps, RecoverySteps

\* A synced tree takes the name `repository`.
LEMMA TreePublish ==
  ASSUME TInv, NEW i \in Invocations, Publish(i) \/ RecPublish(i)
  PROVE  TInv'
<1> DEFINE n == IF pc[i] = "publish" THEN i ELSE fs[Marker].staging
<1>1. /\ TypeOK /\ fs \in images /\ \A d \in images : IsDirectory(d)
      /\ RepositoryNeverPartial /\ UnsyncedTreesAreAlone
      /\ TreeAtBuild(i) /\ TreeAtRecovery(i) /\ req[i] \in Selections
  BY DEF TInv, TreesInAnyOrder, TypeOK
<1>2. /\ pc[i] \in {"publish", "recPublish"} /\ Rename(Staging(n), Repository)
      /\ Goto(i, pc[i], IF pc[i] = "publish" THEN "publishSync" ELSE "recPublishSync")
  BY DEF Publish, RecPublish, Goto
<1>3. pc[i] = "recPublish" => Exists(fs, Marker) /\ fs[Marker] \in MarkerDocs /\ fs[Marker].sel \in Selections
  BY <1>1, NamesDistinct, NodeKinds DEF TreeAtRecovery, IsDirectory, Exists
<1>4. n \in Invocations
  BY <1>2, <1>3 DEF MarkerDocs
<1>5. Exists(fs, Staging(n)) /\ \E s \in Selections : Complete(fs[Staging(n)], s)
  <2>1. CASE pc[i] = "publish"
    BY <1>1, <2>1 DEF TreeAtBuild
  <2>2. CASE pc[i] = "recPublish"
    <3>1. Exists(fs, Staging(n)) /\ ContentsValid(fs[Staging(n)], fs[Marker].sel)
      BY <1>1, <2>2 DEF TreeAtRecovery
    <3>2. fs[Staging(n)].synced
      BY <1>1, <1>3, <1>4, <2>2, <3>1 DEF UnsyncedTreesAreAlone
    <3> QED
      BY <1>3, <2>2, <3>1, <3>2 DEF Complete
  <2> QED
    BY <1>2, <2>1, <2>2
<1> HIDE DEF n
<1>6. /\ fs' \in images' /\ \A d \in images' : IsDirectory(d)
      /\ fs'[Staging(n)] = Absent /\ fs'[Repository] = fs[Staging(n)]
      /\ \A x \in Names \ {Staging(n), Repository} : fs'[x] = fs[x]
      /\ \A d \in images' : \E e \in images :
           \/ d = e
           \/ /\ d[Staging(n)] = Absent /\ d[Repository] = fs[Staging(n)]
              /\ \A x \in Names \ {Staging(n), Repository} : d[x] = e[x]
  <2>1. /\ Staging(n) \in Names /\ Repository \in Names /\ Staging(n) # Repository
        /\ NodesOf(Staging(n)) = NodesOf(Repository)
    BY <1>4, NamesDistinct, NodeKinds
  <2> QED
    BY <1>1, <1>2, <2>1, RenameInAnyOrder
<1>7. RepositoryNeverPartial'
  BY <1>1, <1>5, <1>6 DEF RepositoryNeverPartial, Complete
<1>8. /\ fs'[Marker] = fs[Marker] /\ fs'[State] = fs[State]
      /\ \A m \in Invocations : /\ fs'[StateTemp(m)] = fs[StateTemp(m)]
                                /\ Exists(fs', Staging(m)) => fs'[Staging(m)] = fs[Staging(m)]
  BY <1>4, <1>6, NamesDistinct DEF Exists
<1>9. UnsyncedTreesAreAlone'
  BY <1>1, <1>8 DEF UnsyncedTreesAreAlone, StateTemps, Exists
<1>10. pc'[i] = IF pc[i] = "publish" THEN "publishSync" ELSE "recPublishSync"
  BY <1>1, <1>2 DEF Goto, TypeOK
<1>11. TreeAtBuild(i)' /\ TreeAtRecovery(i)'
  <2>1. CASE pc[i] = "publish"
    BY <1>10, <2>1 DEF TreeAtBuild, TreeAtRecovery
  <2>2. CASE pc[i] = "recPublish"
    <3>1. StateTemps(fs') = StateTemps(fs)
      BY <1>8 DEF StateTemps, Exists
    <3>2. TempOrState'
      BY <1>1, <1>3, <1>8, <2>2, <3>1 DEF TreeAtRecovery, TempOrState, Exists, MarkerDocs
    <3> QED
      BY <1>1, <1>8, <1>10, <2>2, <3>2 DEF TreeAtBuild, TreeAtRecovery, Exists
  <2> QED
    BY <1>2, <2>1, <2>2
<1> QED
  BY <1>2, <1>6, <1>7, <1>9, <1>11, TreeStep DEF LockedSteps, CommitSteps, RecoverySteps

\* A document takes its published name.
LEMMA TreeDocumentRenames ==
  ASSUME TInv, NEW i \in Invocations, pc[i] \in LockedSteps, NEW to \in LockedSteps, Goto(i, pc[i], to),
         NEW n \in Invocations, NEW from \in {StateTemp(n), MarkerTemp(n)},
         Rename(from, IF from = StateTemp(n) THEN State ELSE Marker),
         from = MarkerTemp(n) => StateTemps(fs) # {}
  PROVE  /\ fs' \in images' /\ \A d \in images' : IsDirectory(d)
         /\ RepositoryNeverPartial' /\ UnsyncedTreesAreAlone'
         /\ fs'[from] = Absent /\ fs'[IF from = StateTemp(n) THEN State ELSE Marker] = fs[from]
         /\ \A x \in Names \ {from, IF from = StateTemp(n) THEN State ELSE Marker} : fs'[x] = fs[x]
<1> DEFINE target == IF from = StateTemp(n) THEN State ELSE Marker
<1>1. TypeOK /\ RepositoryNeverPartial /\ UnsyncedTreesAreAlone
  BY DEF TInv, TreesInAnyOrder
<1>2. /\ from \in Names /\ target \in Names /\ from # target /\ NodesOf(from) = NodesOf(target)
      /\ Repository \notin {from, target} /\ \A m \in Invocations : Staging(m) \notin {from, target}
      /\ target = Marker => from = MarkerTemp(n)
      /\ target \in {State, Marker}
  BY NamesDistinct, NodeKinds
<1>3. Rename(from, target)
  OBVIOUS
<1> HIDE DEF target
<1>4. /\ fs' \in images' /\ \A d \in images' : IsDirectory(d)
      /\ fs'[from] = Absent /\ fs'[target] = fs[from]
      /\ \A x \in Names \ {from, target} : fs'[x] = fs[x]
      /\ \A d \in images' : \E e \in images :
           \/ d = e
           \/ /\ d[from] = Absent /\ d[target] = fs[from]
              /\ \A x \in Names \ {from, target} : d[x] = e[x]
  BY <1>1, <1>2, <1>3, RenameInAnyOrder
<1>5. RepositoryNeverPartial'
  BY <1>1, <1>2, <1>4, RepositoryStays, NamesDistinct
<1>6. UnsyncedTreesAreAlone'
  <2> SUFFICES ASSUME NEW m \in Invocations, Exists(fs', Staging(m)), ~fs'[Staging(m)].synced
               PROVE  StateTemps(fs') = {} /\ ~Exists(fs', Marker)
    BY DEF UnsyncedTreesAreAlone
  <2>1. StateTemps(fs) = {} /\ ~Exists(fs, Marker)
    BY <1>1, <1>2, <1>4, NamesDistinct DEF UnsyncedTreesAreAlone, Exists
  <2>2. target = State
    BY <1>2, <2>1
  <2>3. \A k \in Invocations : fs'[StateTemp(k)] \in {Absent, fs[StateTemp(k)]}
    BY <1>4, <2>2, NamesDistinct
  <2>4. fs'[Marker] \in {Absent, fs[Marker]}
    BY <1>4, <2>2, NamesDistinct
  <2> QED
    BY <2>1, <2>3, <2>4 DEF StateTemps, Exists
<1> QED
  BY <1>4, <1>5, <1>6 DEF target

\* The marker is published: the state temporary shows that the tree is synced.
LEMMA TreeMark ==
  ASSUME TInv, NEW i \in Invocations, MarkerRename(i) \/ RecRename(i)
  PROVE  TInv'
<1> DEFINE n == IF pc[i] = "markerRename" THEN i ELSE TheOnly(MarkerTemps(fs))
<1> DEFINE to == IF pc[i] = "markerRename" THEN "markerSync" ELSE "recMarkerSync"
<1>1. TypeOK /\ TreeAtBuild(i) /\ TreeAtRecovery(i)
  BY DEF TInv, TreesInAnyOrder
<1>2. /\ pc[i] \in {"markerRename", "recRename"} /\ Rename(MarkerTemp(n), Marker) /\ Goto(i, pc[i], to)
  BY DEF MarkerRename, RecRename, Goto
<1>3. n \in Invocations
  BY <1>1, <1>2 DEF TreeAtRecovery, MarkerTemps, TheOnly
<1>4. StateTemps(fs) # {}
  BY <1>1, <1>2 DEF TreeAtBuild, TreeAtRecovery, StateTemps
<1>5. pc[i] \in LockedSteps /\ to \in LockedSteps /\ pc'[i] = to /\ req' = req
  BY <1>1, <1>2 DEF LockedSteps, BuildSteps, CommitSteps, RecoverySteps, Goto, TypeOK
<1>6. (to = "markerSync" /\ pc[i] = "markerRename") \/ to = "recMarkerSync"
  OBVIOUS
<1> HIDE DEF n, to
<1>7. MarkerTemp(n) # StateTemp(n)
  BY <1>3, NamesDistinct
<1>8. /\ fs' \in images' /\ \A d \in images' : IsDirectory(d)
      /\ RepositoryNeverPartial' /\ UnsyncedTreesAreAlone'
      /\ \A x \in Names \ {MarkerTemp(n), Marker} : fs'[x] = fs[x]
  BY <1>2, <1>3, <1>4, <1>5, <1>7, TreeDocumentRenames
<1>9. fs'[Staging(i)] = fs[Staging(i)]
  BY <1>3, <1>8, NamesDistinct
<1>10. TreeAtBuild(i)' /\ TreeAtRecovery(i)'
  BY <1>1, <1>5, <1>6, <1>9 DEF TreeAtBuild, TreeAtRecovery, Exists
<1> QED
  BY <1>2, <1>5, <1>8, <1>10, TreeStep

\* The state is published, or its temporary goes.
LEMMA TreeCommit ==
  ASSUME TInv, NEW i \in Invocations, Commit(i) \/ RecState(i)
  PROVE  TInv'
<1>1. /\ TypeOK /\ fs \in images /\ \A d \in images : IsDirectory(d)
      /\ RepositoryNeverPartial /\ UnsyncedTreesAreAlone /\ TreeAtBuild(i) /\ TreeAtRecovery(i)
  BY DEF TInv, TreesInAnyOrder, TypeOK
<1>2. CASE Commit(i)
  <2>1. pc[i] \in LockedSteps /\ Goto(i, pc[i], "commitSync") /\ "commitSync" \in LockedSteps
    BY <1>2 DEF Commit, Goto, LockedSteps, CommitSteps
  <2>2. /\ fs' \in images' /\ \A d \in images' : IsDirectory(d)
        /\ RepositoryNeverPartial' /\ UnsyncedTreesAreAlone'
    BY <1>2, <2>1, TreeDocumentRenames, NamesDistinct DEF Commit
  <2>3. pc'[i] = "commitSync"
    BY <1>1, <2>1 DEF Goto, TypeOK
  <2> QED
    BY <2>1, <2>2, <2>3, TreeStep DEF TreeAtBuild, TreeAtRecovery
<1>3. CASE RecState(i)
  <2> DEFINE n == fs[Marker].stateTemp
  <2>1. pc[i] = "recState" /\ pc[i] \in LockedSteps
    BY <1>3 DEF RecState, Goto, LockedSteps, RecoverySteps
  <2>2. Exists(fs, Marker) /\ Exists(fs, StateTemp(n))
    BY <1>1, <2>1 DEF TreeAtRecovery, TempOrState
  <2>3. n \in Invocations
    BY <1>1, <2>2, NamesDistinct, NodeKinds DEF IsDirectory, Exists, MarkerDocs
  <2>4. \/ Exists(fs, State) /\ Goto(i, pc[i], "recUnmark") /\ Remove(StateTemp(n))
        \/ Goto(i, pc[i], "recStateSync") /\ Rename(StateTemp(n), State)
    BY <1>3, <2>1 DEF RecState
  <2> HIDE DEF n
  <2>5. CASE Exists(fs, State) /\ Goto(i, pc[i], "recUnmark") /\ Remove(StateTemp(n))
    <3>1. Absent \in NodesOf(StateTemp(n)) /\ StateTemp(n) \in Names
      BY <2>3, NamesDistinct DEF NodesOf
    <3>2. /\ fs' \in images' /\ \A d \in images' : IsDirectory(d)
          /\ fs'[StateTemp(n)] = Absent
          /\ \A y \in Names \ {StateTemp(n)} : fs'[y] = fs[y]
          /\ \A d \in images' : \E e \in images : \A y \in Names \ {StateTemp(n)} : d[y] = e[y]
      BY <1>1, <2>5, <3>1, ChangedName
    <3>3. RepositoryNeverPartial'
      BY <1>1, <2>3, <3>2, RepositoryStays, NamesDistinct
    <3>4. \A y \in Names : Exists(fs', y) => fs'[y] = fs[y] /\ Exists(fs, y)
      BY <3>2 DEF Exists
    <3>5. UnsyncedTreesAreAlone'
      BY <1>1, <3>4, NamesDistinct DEF UnsyncedTreesAreAlone, StateTemps
    <3>6. pc'[i] = "recUnmark" /\ Exists(fs', State)
      BY <1>1, <2>3, <2>5, <3>2, NamesDistinct DEF Goto, TypeOK, Exists
    <3>7. TreeAtBuild(i)' /\ TreeAtRecovery(i)'
      BY <3>6 DEF TreeAtBuild, TreeAtRecovery
    <3> QED
      BY <2>1, <2>5, <3>2, <3>3, <3>5, <3>7, TreeStep DEF LockedSteps, RecoverySteps
  <2>6. CASE Goto(i, pc[i], "recStateSync") /\ Rename(StateTemp(n), State)
    <3>1. "recStateSync" \in LockedSteps
      BY DEF LockedSteps, RecoverySteps
    <3>2. /\ fs' \in images' /\ \A d \in images' : IsDirectory(d)
          /\ RepositoryNeverPartial' /\ UnsyncedTreesAreAlone' /\ fs'[State] = fs[StateTemp(n)]
      BY <2>1, <2>3, <2>6, <3>1, TreeDocumentRenames, NamesDistinct
    <3>3. pc'[i] = "recStateSync" /\ Exists(fs', State)
      BY <1>1, <2>2, <2>6, <3>2 DEF Goto, TypeOK, Exists
    <3>4. TreeAtBuild(i)' /\ TreeAtRecovery(i)'
      BY <3>3 DEF TreeAtBuild, TreeAtRecovery
    <3> QED
      BY <2>1, <2>6, <3>1, <3>2, <3>4, TreeStep
  <2> QED
    BY <2>4, <2>5, <2>6
<1> QED
  BY <1>2, <1>3

\* reconstruct writes a marker for what it found.
LEMMA TreeReconstruct ==
  ASSUME TInv, NEW i \in Invocations, RecCreate(i) \/ RecWrite(i)
  PROVE  TInv'
<1> DEFINE x == MarkerTemp(i)
<1>1. /\ TypeOK /\ IsDirectory(fs) /\ RepositoryNeverPartial /\ UnsyncedTreesAreAlone
      /\ TreeAtRecovery(i) /\ x \in Names /\ NodesOf(x) = {Absent} \cup MarkerDocs
  BY NamesDistinct, NodeKinds DEF TInv, TreesInAnyOrder, TypeOK
<1>2. pc[i] \in {"recCreate", "recWrite"} /\ pc[i] \in LockedSteps
  BY DEF RecCreate, RecWrite, Goto, LockedSteps, RecoverySteps
<1>3. /\ StateTemps(fs) # {} /\ Stagings(fs) # {}
      /\ TheOnly(StateTemps(fs)) \in StateTemps(fs) /\ TheOnly(StateTemps(fs)) \in Invocations
      /\ TheOnly(Stagings(fs)) \in Invocations
  BY <1>1, <1>2 DEF TreeAtRecovery, TheOnly, StateTemps, Stagings
<1>4. ASSUME NEW node \in MarkerDocs, NEW to \in {"recWrite", "recRename"}, Goto(i, pc[i], to),
             Create(x, node) \/ (WriteNode(x, node) /\ Exists(fs, x))
      PROVE  TInv'
  <2>1. /\ fs' \in images' /\ \A d \in images' : IsDirectory(d)
        /\ fs'[x] = node
        /\ \A y \in Names \ {x} : fs'[y] = fs[y]
        /\ \A d \in images' : \E e \in images : \A y \in Names \ {x} : d[y] = e[y]
    BY <1>1, <1>4, ChangedName
  <2>2. RepositoryNeverPartial'
    BY <1>1, <2>1, RepositoryStays, NamesDistinct
  <2>3. /\ StateTemps(fs') = StateTemps(fs) /\ Stagings(fs') = Stagings(fs)
        /\ \A n \in Invocations : fs'[Staging(n)] = fs[Staging(n)]
    BY <2>1, NamesDistinct DEF StateTemps, Stagings, Exists
  <2>4. UnsyncedTreesAreAlone'
    BY <1>1, <1>3, <2>3 DEF UnsyncedTreesAreAlone, Exists
  <2>5. Exists(fs', x)
    BY <2>1, AbsentAssumption DEF Exists
  <2>6. pc'[i] = to
    BY <1>1, <1>4 DEF Goto, TypeOK
  <2>7. TreeAtBuild(i)' /\ TreeAtRecovery(i)'
    BY <1>3, <2>3, <2>5, <2>6 DEF TreeAtBuild, TreeAtRecovery, MarkerTemps
  <2> QED
    BY <1>2, <1>4, <2>1, <2>2, <2>4, <2>7, TreeStep DEF LockedSteps, RecoverySteps
<1>5. CASE RecCreate(i)
  <2> DEFINE node == [sel |-> Torn, stateTemp |-> TheOnly(StateTemps(fs)),
                      staging |-> TheOnly(Stagings(fs)), synced |-> FALSE]
  <2>1. node \in MarkerDocs
    BY <1>3 DEF MarkerDocs
  <2>2. Create(x, node) /\ Goto(i, pc[i], "recWrite")
    BY <1>5 DEF RecCreate, Goto
  <2> HIDE DEF node, x
  <2> QED
    BY <1>4, <2>1, <2>2
<1>6. CASE RecWrite(i)
  <2> DEFINE sel == fs[StateTemp(TheOnly(StateTemps(fs)))].sel
  <2> DEFINE node == [fs[MarkerTemp(i)] EXCEPT !.sel = sel, !.synced = TRUE]
  <2>1. WriteNode(x, node) /\ Goto(i, pc[i], "recRename") /\ pc[i] = "recWrite"
    BY <1>6 DEF RecWrite, Goto
  <2>2. Exists(fs, x) /\ fs[x] \in MarkerDocs
    BY <1>1, <2>1 DEF TreeAtRecovery, IsDirectory, Exists
  <2>3. sel \in Selections \cup {Torn}
    BY <1>1, <1>3, NamesDistinct, NodeKinds DEF IsDirectory, StateTemps, Exists, StateDocs
  <2> HIDE DEF sel
  <2>4. node \in MarkerDocs
    BY <2>2, <2>3 DEF MarkerDocs
  <2> HIDE DEF node, x
  <2> QED
    BY <1>4, <2>1, <2>2, <2>4
<1> QED
  BY <1>5, <1>6

\* The look at an existing project.
LEMMA TreeExisting ==
  ASSUME TInv, NEW i \in Invocations, Existing(i)
  PROVE  TInv'
<1>1. /\ pc[i] = "existing" /\ UNCHANGED <<fs, images>> /\ fs \in images
      /\ TypeOK /\ TreeAtBuild(i) /\ \A d \in images : IsDirectory(d)
  BY DEF Existing, TInv, TypeOK, TreesInAnyOrder
<1>2. CASE \E outcome \in Results : Return(i, outcome)
  BY <1>1, <1>2, TreeLeaves
<1>3. CASE ~Exists(fs, State) /\ Goto(i, "existing", "mkStaging")
  <2>1. RepositoryNeverPartial' /\ UnsyncedTreesAreAlone'
    BY <1>1 DEF TInv, TreesInAnyOrder, RepositoryNeverPartial, UnsyncedTreesAreAlone
  <2>2. pc'[i] = "mkStaging" /\ TypeOK /\ TreeAtBuild(i)
    BY <1>3 DEF Goto, TInv, TypeOK, TreesInAnyOrder
  <2>3. TreeAtBuild(i)' /\ TreeAtRecovery(i)'
    BY <1>1, <1>3, <2>2 DEF TreeAtBuild, TreeAtRecovery, NoTemporaries, StateTemps, MarkerTemps,
       Stagings, Exists
  <2> QED
    BY <1>1, <1>3, <2>1, <2>3, TreeStep DEF LockedSteps, BuildSteps
<1>4. {"found", "conflict", "invalid"} \subseteq Results
  BY DEF Results
<1> QED
  BY <1>1, <1>2, <1>3, <1>4 DEF Existing

\* The error path.
LEMMA TreeClean ==
  ASSUME TInv, NEW i \in Invocations, Clean(i)
  PROVE  TInv'
<1>1. pc[i] = "clean" /\ pc[i] \in LockedSteps /\ fs \in images
  BY DEF Clean, Goto, LockedSteps, TInv, TypeOK
<1>2. \/ \E x \in {MarkerTemp(i), StateTemp(i), Staging(i)} : Goto(i, pc[i], "clean") /\ Remove(x)
      \/ Return(i, "io") /\ UNCHANGED <<fs, images>>
  BY <1>1 DEF Clean
<1>3. CASE \E x \in {MarkerTemp(i), StateTemp(i), Staging(i)} : Goto(i, pc[i], "clean") /\ Remove(x)
  <2>1. PICK x \in {MarkerTemp(i), StateTemp(i), Staging(i)} : Goto(i, pc[i], "clean") /\ Remove(x)
    BY <1>3
  <2>2. x \in Names \ {Repository}
    BY NamesDistinct
  <2> QED
    BY <1>1, <2>1, <2>2, TreeRemoves
<1>4. CASE Return(i, "io") /\ UNCHANGED <<fs, images>>
  BY <1>1, <1>4, TreeLeaves DEF Results
<1> QED
  BY <1>2, <1>3, <1>4

\* A failed call.
LEMMA TreeIoFails ==
  ASSUME TInv, NEW i \in Invocations, IoFails(i)
  PROVE  TInv'
<1>1. /\ UNCHANGED <<fs, images>> /\ fs \in images /\ \A d \in images : IsDirectory(d)
      /\ "io" \in Results
  BY DEF IoFails, TInv, TypeOK, Results
<1>2. CASE Return(i, "io")
  BY <1>1, <1>2, TreeLeaves
<1>3. CASE pc[i] \in BuildSteps \cup {"recWrite"} /\ Goto(i, pc[i], "clean")
  <2>1. RepositoryNeverPartial' /\ UnsyncedTreesAreAlone' /\ pc'[i] = "clean"
    BY <1>1, <1>3 DEF TInv, TypeOK, TreesInAnyOrder, RepositoryNeverPartial, UnsyncedTreesAreAlone, Goto
  <2>2. TreeAtBuild(i)' /\ TreeAtRecovery(i)'
    BY <2>1 DEF TreeAtBuild, TreeAtRecovery
  <2> QED
    BY <1>1, <1>3, <2>1, <2>2, TreeStep DEF LockedSteps, RecoverySteps
<1> QED
  BY <1>2, <1>3 DEF IoFails

\* A power loss keeps what is synced, and after it everything is.
LEMMA SettleSyncs ==
  ASSUME NEW d, IsDirectory(d), NEW lost \in SUBSET Unsynced(d)
  PROVE  \A x \in Names : Exists(d, x) => Settle(d, lost)[x].synced
<1> SUFFICES ASSUME NEW x \in Names, Exists(d, x) PROVE Settle(d, lost)[x].synced
  OBVIOUS
<1>1. d[x] \in StateDocs \cup MarkerDocs \cup Trees
  BY DEF IsDirectory, NodesOf, Exists
<1>2. \A v \in {"synced"} : [d[x] EXCEPT !.synced = TRUE].synced = TRUE
  BY <1>1 DEF StateDocs, MarkerDocs, Trees
<1>3. d[x] \in StateDocs \cup MarkerDocs => [d[x] EXCEPT !.sel = Torn, !.synced = TRUE].synced = TRUE
  BY DEF StateDocs, MarkerDocs
<1>4. x[1] \notin {"repository", "staging"} => d[x] \in StateDocs \cup MarkerDocs
  BY DEF IsDirectory, NodesOf, Exists, Names, State, Marker, Repository, StateTemp, MarkerTemp, Staging
<1> QED
  BY <1>2, <1>3, <1>4 DEF Settle, Exists

LEMMA TreePowerLoss ==
  ASSUME TInv, PowerLoss
  PROVE  TInv'
<1>0. PICK d \in images : \E lost \in SUBSET Unsynced(d) :
         fs' = Settle(d, lost) /\ images' = {Settle(d, lost)}
  BY DEF PowerLoss
<1>1. PICK lost \in SUBSET Unsynced(d) : fs' = Settle(d, lost) /\ images' = {Settle(d, lost)}
  BY <1>0
<1>2. IsDirectory(d) /\ RepositoryNeverPartial
  BY DEF TInv, TypeOK, TreesInAnyOrder
<1>3. /\ IsDirectory(fs')
      /\ \A x \in Names : Exists(fs', x) <=> Exists(d, x)
      /\ \A x \in Names : Exists(d, x) /\ d[x].synced => fs'[x] = d[x]
      /\ \A x \in Names : Exists(d, x) => fs'[x].synced
  BY <1>1, <1>2, SettleEffect, SettleSyncs
<1>4. \A i \in Invocations : pc'[i] \in {"idle", "done"}
  BY DEF PowerLoss, Active
<1>5. TypeOK'
  <2>1. pc' \in [Invocations -> Steps] /\ result' \in [Invocations -> Results]
    BY DEF PowerLoss, TInv, TypeOK, Steps, Results
  <2>2. gitignore' \in {"absent", "torn", "ok"}
    BY DEF PowerLoss, TInv, TypeOK
  <2> QED
    BY <1>1, <1>3, <2>1, <2>2 DEF PowerLoss, TInv, TypeOK
<1>6. Exclusion'
  BY <1>4 DEF Exclusion, LockedSteps, RecoverySteps, BuildSteps, CommitSteps
<1>7. RepositoryNeverPartial'
  BY <1>1, <1>2, <1>3, NamesDistinct DEF RepositoryNeverPartial
<1>8. UnsyncedTreesAreAlone'
  BY <1>3, NamesDistinct DEF UnsyncedTreesAreAlone
<1>9. ASSUME NEW i \in Invocations PROVE TreeAtBuild(i)' /\ TreeAtRecovery(i)'
  BY <1>4 DEF TreeAtBuild, TreeAtRecovery
<1> QED
  BY <1>5, <1>6, <1>7, <1>8, <1>9 DEF TInv, TreesInAnyOrder

LEMMA InitTrees == Init => TInv
<1> SUFFICES ASSUME Init PROVE TInv
  OBVIOUS
<1>1. \A x \in Names : fs[x] = Absent /\ Absent \in NodesOf(x) /\ Absent \in Nodes
  BY DEF Init, EmptyDirectory, NodesOf, Nodes
<1>2. IsDirectory(fs) /\ images = {fs}
  BY <1>1 DEF IsDirectory, Init, EmptyDirectory
<1>3. TypeOK
  BY <1>2 DEF Init, TypeOK, Steps, Results
<1>4. \A i \in Invocations : pc[i] = "idle"
  BY DEF Init
<1>5. Exclusion /\ \A i \in Invocations : TreeAtBuild(i) /\ TreeAtRecovery(i)
  BY <1>4 DEF Exclusion, LockedSteps, RecoverySteps, BuildSteps, CommitSteps, TreeAtBuild, TreeAtRecovery
<1>6. RepositoryNeverPartial /\ UnsyncedTreesAreAlone
  BY <1>1, <1>2, NamesDistinct DEF RepositoryNeverPartial, UnsyncedTreesAreAlone, Exists
<1> QED
  BY <1>3, <1>5, <1>6 DEF TInv, TreesInAnyOrder

\* Every step preserves it.
LEMMA NextTrees ==
  ASSUME TInv, [Next]_vars
  PROVE  TInv'
<1>1. ASSUME NEW i \in Invocations, Recovery(i) PROVE TInv'
  <2>1. CASE RecUnmark(i)
    <3>1. pc[i] = "recUnmark" /\ Goto(i, pc[i], "recUnmarkSync") /\ Remove(Marker)
      BY <2>1 DEF RecUnmark, Goto
    <3>2. Exists(fs, State)
      BY <3>1 DEF TInv, TreesInAnyOrder, TreeAtRecovery
    <3> QED
      BY <3>1, <3>2, TreeRemoves, NamesDistinct DEF LockedSteps, RecoverySteps
  <2> QED
    BY <1>1, <2>1, TreeRecover, TreeSyncs, TreeReconstruct, TreeMark, TreePublish, TreeCommit DEF Recovery
<1>2. ASSUME NEW i \in Invocations, Build(i) PROVE TInv'
  BY <1>2, TreeExisting, TreeStaging, TreeDocuments, TreeMark, TreeClean DEF Build
<1>3. ASSUME NEW i \in Invocations, Finish(i) PROVE TInv'
  <2>1. CASE Unmark(i)
    <3>1. pc[i] = "unmark" /\ Goto(i, pc[i], "unmarkSync") /\ Remove(Marker)
      BY <2>1 DEF Unmark, Goto
    <3> QED
      BY <3>1, TreeRemoves, NamesDistinct DEF LockedSteps, CommitSteps
  <2> QED
    BY <1>3, <2>1, TreeSyncs, TreePublish, TreeCommit DEF Finish
<1>4. ASSUME NEW i \in Invocations, Kill(i) PROVE TInv'
  <2>1. Return(i, "killed") /\ UNCHANGED <<fs, images>> /\ fs \in images
    BY <1>4 DEF Kill, TInv, TypeOK
  <2> QED
    BY <2>1, TreeLeaves DEF Results
<1>5. CASE UNCHANGED vars
  BY <1>5 DEF vars, TInv, TypeOK, TreesInAnyOrder, Exclusion, RepositoryNeverPartial,
     UnsyncedTreesAreAlone, TreeAtBuild, TreeAtRecovery, TempOrState
<1> QED
  BY <1>1, <1>2, <1>3, <1>4, <1>5, TreeEntry, TreeIoFails, TreePowerLoss DEF Next, Step

\* Every tree is synced before the first document that leads to its publication,
\* with every failure and in whatever order directory operations become durable.
THEOREM TreesHold == Spec => [](TypeOK /\ TreesInAnyOrder)
<1>1. Init => TInv
  BY InitTrees
<1>2. TInv /\ [Next]_vars => TInv'
  BY NextTrees
<1> QED
  BY <1>1, <1>2, PTL DEF Spec, TInv

\* Type correctness.
THEOREM TypeCorrect == Spec => []TypeOK
BY TreesHold, PTL

\* materialize never exposes a partial repository: with every failure, and in
\* whatever order directory operations become durable.
THEOREM NeverPartial == Spec => []RepositoryNeverPartial
<1>1. TreesInAnyOrder => RepositoryNeverPartial
  BY DEF TreesInAnyOrder
<1> QED
  BY <1>1, TreesHold, PTL

(***************************************************************************)
(* Any order of durability: the state                                      *)
(***************************************************************************)

SInv == TInv /\ StatesInAnyOrder

\* What the holder of the lock may rely on.
LEMMA HolderKnows ==
  ASSUME SInv, NEW i \in Invocations, pc[i] \in LockedSteps
  PROVE  /\ TypeOK /\ fs \in images /\ \A d \in images : IsDirectory(d)
         /\ TreeAtBuild(i) /\ TreeAtRecovery(i) /\ StateAfterTree(i)
         /\ req[i] \in Selections /\ req[i] # Torn
         /\ \A d \in images : StateIsGood(d)
         /\ \A x \in Names \ Writing(i) : Exists(fs, x) => fs[x].synced
         /\ pc[i] \in QuietSteps => images = {fs}
<1>1. \A j \in Invocations \ {i} : pc[j] \notin LockedSteps
  BY DEF SInv, TInv, TreesInAnyOrder, Exclusion
<1>2. \A j \in Invocations \ {i} : Writing(j) = {}
  BY <1>1 DEF Writing, LockedSteps, BuildSteps, RecoverySteps
<1>3. \A x \in Names \ Writing(i) : Exists(fs, x) => fs[x].synced
  BY <1>2 DEF SInv, StatesInAnyOrder, SyncedExcept
<1>4. pc[i] \in QuietSteps => images = {fs}
  BY <1>1 DEF SInv, StatesInAnyOrder, Durable
<1>5. req[i] \in Selections /\ req[i] # Torn
  BY TornAssumption DEF SInv, TInv, TypeOK
<1> QED
  BY <1>3, <1>4, <1>5 DEF SInv, TInv, TypeOK, TreesInAnyOrder, StatesInAnyOrder

\* The frame of a step of the lock holder i.
LEMMA StateStep ==
  ASSUME SInv, TInv', Durable', NEW i \in Invocations, pc[i] \in LockedSteps,
         NEW to, pc' = [pc EXCEPT ![i] = to],
         \A d \in images' : StateIsGood(d),
         \A x \in Names \ Writing(i)' : Exists(fs', x) => fs'[x].synced,
         StateAfterTree(i)'
  PROVE  SInv'
<1>1. \A j \in Invocations \ {i} : pc[j] \notin LockedSteps /\ pc'[j] = pc[j]
  BY DEF SInv, TInv, TypeOK, TreesInAnyOrder, Exclusion
<1>2. \A j \in Invocations \ {i} : StateAfterTree(j)'
  BY <1>1 DEF StateAfterTree, LockedSteps, BuildSteps, CommitSteps, RecoverySteps
<1>3. SyncedExcept(UNION {Writing(j) : j \in Invocations})'
  BY DEF SyncedExcept
<1> QED
  BY <1>2, <1>3 DEF SInv, StatesInAnyOrder

\* Where the state and the repository of a directory come from one that was there.
LEMMA GoodStays ==
  ASSUME \A d \in images : StateIsGood(d),
         \A d \in images' : \E e \in images : d[State] = e[State] /\ d[Repository] = e[Repository]
  PROVE  \A d \in images' : StateIsGood(d)
BY DEF StateIsGood, Exists

\* Steps before the lock, and the lock itself.
LEMMA StateEntry ==
  ASSUME SInv, TInv', Durable', NEW i \in Invocations, Entry(i)
  PROVE  SInv'
<1>1. /\ UNCHANGED <<fs, images, req>>
      /\ \A j \in Invocations : pc'[j] = pc[j] \/ j = i
      /\ pc'[i] \in GitSteps \cup {"lock", "validate", "recover", "done"}
      /\ pc[i] \in GitSteps \cup {"idle", "lock", "validate"}
  BY DEF Entry, Start, GitCheck, GitOpen, GitWrite, Lock, Validate, Goto, Return, SInv, TInv, TypeOK, GitSteps
<1>2. StateAfterTree(i)' /\ Writing(i)' = {} /\ Writing(i) = {}
  BY <1>1 DEF StateAfterTree, Writing, GitSteps, BuildSteps
<1>3. \A j \in Invocations \ {i} : StateAfterTree(j) /\ pc'[j] = pc[j]
  BY <1>1 DEF SInv, StatesInAnyOrder
<1>4. \A j \in Invocations \ {i} : StateAfterTree(j)' /\ Writing(j)' = Writing(j)
  BY <1>1, <1>3 DEF StateAfterTree, Writing
<1>5. UNION {Writing(j) : j \in Invocations}' = UNION {Writing(j) : j \in Invocations}
  BY <1>2, <1>4
<1>6. SyncedExcept(UNION {Writing(j) : j \in Invocations})'
  BY <1>1, <1>5 DEF SInv, StatesInAnyOrder, SyncedExcept
<1>7. \A d \in images' : StateIsGood(d)
  BY <1>1 DEF SInv, StatesInAnyOrder
<1> QED
  BY <1>2, <1>4, <1>6, <1>7 DEF SInv, StatesInAnyOrder

\* recover looks at a durable directory.
LEMMA StateRecover ==
  ASSUME SInv, TInv', Durable', NEW i \in Invocations, Recover(i)
  PROVE  SInv'
<1>1. pc[i] = "recover" /\ UNCHANGED <<fs, images>> /\ pc[i] \in LockedSteps /\ pc[i] \in QuietSteps
  BY DEF Recover, LockedSteps, RecoverySteps, QuietSteps
<1>2. /\ TypeOK /\ images = {fs} /\ StateIsGood(fs) /\ IsDirectory(fs)
      /\ \A x \in Names \ Writing(i) : Exists(fs, x) => fs[x].synced
  BY <1>1, HolderKnows
<1>3. Writing(i) = {}
  BY <1>1 DEF Writing
<1>4. \A d \in images' : StateIsGood(d)
  BY <1>1, <1>2
<1>5. ASSUME NEW to, Goto(i, "recover", to), StateAfterTree(i)' PROVE SInv'
  <2>1. pc' = [pc EXCEPT ![i] = to]
    BY <1>5 DEF Goto
  <2> QED
    BY <1>1, <1>2, <1>3, <1>4, <1>5, <2>1, StateStep
<1>6. CASE \E outcome : Return(i, outcome)
  <2>1. pc' = [pc EXCEPT ![i] = "done"] /\ pc'[i] = "done"
    BY <1>2, <1>6 DEF Return, TypeOK
  <2>2. StateAfterTree(i)'
    BY <2>1 DEF StateAfterTree, BuildSteps
  <2> QED
    BY <1>1, <1>2, <1>3, <1>4, <2>1, <2>2, StateStep
<1>7. ASSUME NEW to \in {"existing", "recCreate", "recRename"}, Goto(i, "recover", to) PROVE SInv'
  <2>1. pc'[i] = to
    BY <1>2, <1>7 DEF Goto, TypeOK
  <2>2. StateAfterTree(i)'
    BY <2>1 DEF StateAfterTree, BuildSteps
  <2> QED
    BY <1>5, <1>7, <2>2
<1>8. CASE /\ Exists(fs, Marker) /\ Recoverable(fs, req[i])
           /\ Goto(i, "recover", IF Exists(fs, Repository) THEN AfterRepository ELSE "recPublish")
  <2>1. pc'[i] = IF Exists(fs, Repository) THEN AfterRepository ELSE "recPublish"
    BY <1>2, <1>8 DEF Goto, TypeOK
  <2>2. StateTemps(fs) # {} => fs[StateTemp(fs[Marker].stateTemp)].sel = fs[Marker].sel
    BY <1>8 DEF Recoverable, StateMatches
  <2>3. Exists(fs, Repository) => ContentsValid(fs[Repository], fs[Marker].sel)
    BY <1>8 DEF Recoverable
  <2>4. ~Exists(fs, Repository) => ~Exists(fs, State)
    BY <1>2 DEF StateIsGood
  <2>5. StateAfterTree(i)'
    BY <1>1, <1>2, <2>1, <2>2, <2>3, <2>4 DEF StateAfterTree, AfterRepository, BuildSteps, StateTemps, Exists
  <2> QED
    BY <1>5, <1>8, <2>5
<1> QED
  BY <1>6, <1>7, <1>8 DEF Recover

\* The steps that make the current directory durable.
LEMMA StateSyncs ==
  ASSUME SInv, TInv', Durable', NEW i \in Invocations,
         \/ RecMarkerSync(i) \/ RecPublishSync(i) \/ RecStateSync(i) \/ RecUnmarkSync(i)
         \/ MarkerSync(i) \/ PublishSync(i) \/ CommitSync(i) \/ UnmarkSync(i)
  PROVE  SInv'
<1>1. /\ fs' = fs /\ images' = {fs} /\ req' = req
      /\ pc' = [pc EXCEPT ![i] = pc'[i]]
      /\ <<pc[i], pc'[i]>> \in {<<"recMarkerSync", "recover">>, <<"recPublishSync", AfterRepository>>,
           <<"recStateSync", "recUnmark">>, <<"recUnmarkSync", "existing">>, <<"markerSync", "publish">>,
           <<"publishSync", "commit">>, <<"commitSync", "unmark">>, <<"unmarkSync", "done">>}
  BY DEF RecMarkerSync, RecPublishSync, RecStateSync, RecUnmarkSync, MarkerSync, PublishSync,
     CommitSync, UnmarkSync, SyncRsolve, Goto, Return, SInv, TInv, TypeOK
<1>2. pc[i] \in LockedSteps /\ Writing(i) = {}
  BY <1>1 DEF LockedSteps, RecoverySteps, CommitSteps, Writing
<1>3. /\ fs \in images /\ StateAfterTree(i) /\ \A d \in images : StateIsGood(d)
      /\ \A x \in Names \ Writing(i) : Exists(fs, x) => fs[x].synced
  BY <1>2, HolderKnows
<1>4. StateAfterTree(i)'
  BY <1>1, <1>3 DEF StateAfterTree, AfterRepository, BuildSteps, StateTemps, Exists
<1> QED
  BY <1>1, <1>2, <1>3, <1>4, StateStep

\* A change of a name that is neither the state's nor the repository's.
LEMMA StateChange ==
  ASSUME SInv, TInv', Durable', NEW i \in Invocations, pc[i] \in LockedSteps,
         NEW to, Goto(i, pc[i], to),
         NEW x \in Names \ {State, Repository}, NEW node \in NodesOf(x),
         \/ Create(x, node)
         \/ (Remove(x) /\ node = Absent)
         \/ (WriteNode(x, node) /\ Exists(fs, x)),
         Writing(i) \subseteq {x}, node = Absent \/ node.synced \/ x \in Writing(i)',
         (/\ fs'[x] = node
          /\ \A y \in Names \ {x} : fs'[y] = fs[y]
          /\ (\A d \in images : ~Exists(d, State)) => (\A d \in images' : ~Exists(d, State)))
            => StateAfterTree(i)'
  PROVE  SInv'
<1>1. /\ TypeOK /\ \A d \in images : StateIsGood(d)
      /\ \A y \in Names \ Writing(i) : Exists(fs, y) => fs[y].synced
  BY HolderKnows
<1>2. /\ fs'[x] = node
      /\ \A y \in Names \ {x} : fs'[y] = fs[y]
      /\ \A d \in images' : \E e \in images : \A y \in Names \ {x} : d[y] = e[y]
  BY <1>1, ChangedName
<1>3. \A d \in images' : \E e \in images : d[State] = e[State] /\ d[Repository] = e[Repository]
  BY <1>2, NamesDistinct
<1>4. \A d \in images' : StateIsGood(d)
  BY <1>1, <1>3, GoodStays
<1>5. (\A d \in images : ~Exists(d, State)) => \A d \in images' : ~Exists(d, State)
  BY <1>3 DEF Exists
<1>6. \A y \in Names \ Writing(i)' : Exists(fs', y) => fs'[y].synced
  BY <1>1, <1>2 DEF Exists
<1>7. pc' = [pc EXCEPT ![i] = to]
  BY DEF Goto
<1> QED
  BY <1>2, <1>4, <1>5, <1>6, <1>7, StateStep

\* A tree or a document under a temporary name.
LEMMA StatePrepares ==
  ASSUME SInv, TInv', Durable', NEW i \in Invocations,
         \/ MkStaging(i) \/ Copy(i) \/ WritePackages(i) \/ SyncStaging(i) \/ StateCreate(i)
         \/ StateWrite(i) \/ MarkerCreate(i) \/ MarkerWrite(i)
  PROVE  SInv'
<1>1. /\ pc[i] \in {"mkStaging", "copy", "packages", "syncStaging", "stateCreate", "stateWrite",
                    "markerCreate", "markerWrite"}
      /\ pc[i] \in LockedSteps /\ pc[i] \in BuildSteps
  BY DEF MkStaging, Copy, WritePackages, SyncStaging, StateCreate, StateWrite, MarkerCreate, MarkerWrite,
     Goto, LockedSteps, BuildSteps
<1>2. /\ TypeOK /\ fs \in images /\ IsDirectory(fs) /\ TreeAtBuild(i) /\ StateAfterTree(i)
      /\ req[i] \in Selections
      /\ \A y \in Names \ Writing(i) : Exists(fs, y) => fs[y].synced
      /\ \A d \in images : StateIsGood(d)
  BY <1>1, HolderKnows
<1>3. \A d \in images : ~Exists(d, State)
  BY <1>1, <1>2 DEF StateAfterTree
<1>4. /\ Staging(i) \in Names \ {State, Repository} /\ StateTemp(i) \in Names \ {State, Repository}
      /\ MarkerTemp(i) \in Names \ {State, Repository} /\ Staging(i) # StateTemp(i)
      /\ StateTemp(i) # MarkerTemp(i)
      /\ NodesOf(Staging(i)) = {Absent} \cup Trees /\ NodesOf(StateTemp(i)) = {Absent} \cup StateDocs
      /\ NodesOf(MarkerTemp(i)) = {Absent} \cup MarkerDocs
  BY NamesDistinct, NodeKinds
<1>5. ASSUME NEW to, Goto(i, pc[i], to) PROVE pc'[i] = to /\ req' = req
  BY <1>2, <1>5 DEF Goto, TypeOK
<1>6. pc[i] \in {"copy", "packages", "syncStaging"} => Exists(fs, Staging(i)) /\ fs[Staging(i)] \in Trees
  BY <1>2, <1>4 DEF TreeAtBuild, Stagings, IsDirectory, Exists
<1>7. ASSUME NEW to \in {"copy", "packages", "syncStaging", "stateCreate", "stateWrite"}, Goto(i, pc[i], to),
             \A d \in images' : ~Exists(d, State)
      PROVE  StateAfterTree(i)'
  BY <1>5, <1>7 DEF StateAfterTree, BuildSteps
<1>8. CASE MkStaging(i)
  <2> DEFINE node == [files |-> {}, index |-> NoIndex, synced |-> FALSE]
  <2>1. /\ node \in NodesOf(Staging(i)) /\ Create(Staging(i), node)
        /\ pc[i] = "mkStaging" /\ Goto(i, pc[i], "copy")
    BY <1>4, <1>8 DEF MkStaging, Goto, Trees, Indexes
  <2>2. Writing(i) = {} /\ Writing(i)' = {Staging(i)}
    BY <1>5, <2>1 DEF Writing
  <2> HIDE DEF node
  <2> QED
    BY <1>1, <1>3, <1>4, <1>7, <2>1, <2>2, StateChange
<1>9. CASE Copy(i)
  <2>1. pc[i] = "copy" /\ Writing(i) = {Staging(i)}
    BY <1>9 DEF Copy, Writing
  <2>2. CASE /\ \E a \in req[i].arts \ fs[Staging(i)].files :
                  WriteNode(Staging(i), [fs[Staging(i)] EXCEPT !.files = @ \cup {a}])
             /\ Goto(i, "copy", "copy")
    <3>1. PICK a \in req[i].arts : WriteNode(Staging(i), [fs[Staging(i)] EXCEPT !.files = @ \cup {a}])
      BY <2>2
    <3> DEFINE node == [fs[Staging(i)] EXCEPT !.files = @ \cup {a}]
    <3>2. a \in Artifacts
      BY <1>2 DEF Artifacts
    <3>3. node \in NodesOf(Staging(i)) /\ WriteNode(Staging(i), node) /\ Goto(i, pc[i], "copy")
      BY <1>4, <1>6, <2>1, <2>2, <3>1, <3>2 DEF Trees
    <3>4. Writing(i)' = {Staging(i)}
      BY <1>5, <3>3 DEF Writing
    <3> HIDE DEF node
    <3> QED
      BY <1>1, <1>3, <1>4, <1>6, <1>7, <2>1, <3>3, <3>4, StateChange
  <2>3. CASE Goto(i, "copy", "packages") /\ UNCHANGED <<fs, images>>
    <3>1. pc'[i] = "packages" /\ pc' = [pc EXCEPT ![i] = "packages"] /\ Goto(i, pc[i], "packages")
      BY <1>5, <2>1, <2>3 DEF Goto
    <3>2. Writing(i)' = {Staging(i)}
      BY <3>1 DEF Writing
    <3>3. \A d \in images' : ~Exists(d, State) /\ StateIsGood(d)
      BY <1>2, <1>3, <2>3
    <3>4. StateAfterTree(i)'
      BY <1>7, <3>1, <3>3
    <3> QED
      BY <1>1, <1>2, <2>1, <2>3, <3>1, <3>2, <3>3, <3>4, StateStep
  <2> QED
    BY <1>9, <2>2, <2>3 DEF Copy
<1>10. CASE WritePackages(i)
  <2> DEFINE node == [fs[Staging(i)] EXCEPT !.index = req[i].index]
  <2>1. pc[i] = "packages" /\ Goto(i, pc[i], "syncStaging") /\ WriteNode(Staging(i), node)
    BY <1>10 DEF WritePackages, Goto
  <2>2. req[i].index \in Indexes
    BY <1>2 DEF Indexes
  <2>3. node \in NodesOf(Staging(i))
    BY <1>4, <1>6, <2>1, <2>2 DEF Trees
  <2>4. Writing(i) = {Staging(i)} /\ Writing(i)' = {Staging(i)}
    BY <1>5, <2>1 DEF Writing
  <2> HIDE DEF node
  <2> QED
    BY <1>1, <1>3, <1>4, <1>6, <1>7, <2>1, <2>3, <2>4, StateChange
<1>11. CASE SyncStaging(i)
  <2> DEFINE node == [fs[Staging(i)] EXCEPT !.synced = TRUE]
  <2>1. pc[i] = "syncStaging" /\ Goto(i, pc[i], "stateCreate") /\ WriteNode(Staging(i), node)
    BY <1>11 DEF SyncStaging, Goto
  <2>2. node \in NodesOf(Staging(i)) /\ node.synced
    BY <1>4, <1>6, <2>1 DEF Trees
  <2>3. Writing(i) = {Staging(i)} /\ Writing(i)' = {}
    BY <1>5, <2>1 DEF Writing
  <2> HIDE DEF node
  <2> QED
    BY <1>1, <1>3, <1>4, <1>6, <1>7, <2>1, <2>2, <2>3, StateChange
<1>12. CASE StateCreate(i)
  <2> DEFINE node == [sel |-> Torn, synced |-> FALSE]
  <2>1. /\ node \in NodesOf(StateTemp(i)) /\ Create(StateTemp(i), node)
        /\ pc[i] = "stateCreate" /\ Goto(i, pc[i], "stateWrite")
    BY <1>4, <1>12 DEF StateCreate, Goto, StateDocs
  <2>2. Writing(i) = {} /\ Writing(i)' = {StateTemp(i)}
    BY <1>5, <2>1 DEF Writing
  <2> HIDE DEF node
  <2> QED
    BY <1>1, <1>3, <1>4, <1>7, <2>1, <2>2, StateChange
<1>13. CASE StateWrite(i)
  <2> DEFINE node == [sel |-> req[i], synced |-> TRUE]
  <2>1. /\ node \in StateDocs /\ WriteNode(StateTemp(i), node) /\ Written(node, req[i])
        /\ pc[i] = "stateWrite" /\ Goto(i, pc[i], "markerCreate")
    BY <1>2, <1>13 DEF StateWrite, Goto, StateDocs, Written
  <2>2. Writing(i) = {StateTemp(i)} /\ Writing(i)' = {}
    BY <1>5, <2>1 DEF Writing
  <2>3. Exists(fs, StateTemp(i)) /\ node # Absent /\ node.synced
    BY <1>2, <2>1, AbsentAssumption DEF TreeAtBuild, Written
  <2> HIDE DEF node
  <2>4. ASSUME fs'[StateTemp(i)] = node, \A d \in images' : ~Exists(d, State) PROVE StateAfterTree(i)'
    BY <1>5, <2>1, <2>3, <2>4 DEF StateAfterTree, BuildSteps, Exists
  <2> QED
    BY <1>1, <1>3, <1>4, <2>1, <2>2, <2>3, <2>4, StateChange
<1>14. ASSUME NEW node \in MarkerDocs, NEW to \in {"markerWrite", "markerRename"}, Goto(i, pc[i], to),
              pc[i] \in {"markerCreate", "markerWrite"},
              Create(MarkerTemp(i), node) \/ (WriteNode(MarkerTemp(i), node) /\ Exists(fs, MarkerTemp(i))),
              to = "markerRename" => node.synced
       PROVE  SInv'
  <2>1. Writing(i) \subseteq {MarkerTemp(i)} /\ (to = "markerWrite" => Writing(i)' = {MarkerTemp(i)})
    BY <1>5, <1>14 DEF Writing
  <2>2. ASSUME \A y \in Names \ {MarkerTemp(i)} : fs'[y] = fs[y], \A d \in images' : ~Exists(d, State)
        PROVE  StateAfterTree(i)'
    <3>1. fs'[StateTemp(i)] = fs[StateTemp(i)] /\ Exists(fs, StateTemp(i)) /\ Written(fs[StateTemp(i)], req[i])
      BY <1>2, <1>4, <1>14, <2>2 DEF StateAfterTree
    <3> QED
      BY <1>5, <1>14, <2>2, <3>1 DEF StateAfterTree, BuildSteps, Exists
  <2> QED
    BY <1>1, <1>3, <1>4, <1>14, <2>1, <2>2, StateChange
<1>15. CASE MarkerCreate(i)
  <2> DEFINE node == [sel |-> Torn, stateTemp |-> i, staging |-> i, synced |-> FALSE]
  <2>1. node \in MarkerDocs /\ Create(MarkerTemp(i), node) /\ pc[i] = "markerCreate" /\ Goto(i, pc[i], "markerWrite")
    BY <1>15 DEF MarkerCreate, Goto, MarkerDocs
  <2> HIDE DEF node
  <2> QED
    BY <1>14, <2>1
<1>16. CASE MarkerWrite(i)
  <2> DEFINE node == [sel |-> req[i], stateTemp |-> i, staging |-> i, synced |-> TRUE]
  <2>1. /\ node \in MarkerDocs /\ WriteNode(MarkerTemp(i), node) /\ node.synced
        /\ pc[i] = "markerWrite" /\ Goto(i, pc[i], "markerRename")
    BY <1>2, <1>16 DEF MarkerWrite, Goto, MarkerDocs
  <2>2. Exists(fs, MarkerTemp(i))
    BY <1>2, <2>1 DEF TreeAtBuild
  <2> HIDE DEF node
  <2> QED
    BY <1>14, <2>1, <2>2
<1> QED
  BY <1>8, <1>9, <1>10, <1>11, <1>12, <1>13, <1>15, <1>16

\* reconstruct's marker, and the removal of the marker.
LEMMA StateMarkers ==
  ASSUME SInv, TInv', Durable', NEW i \in Invocations,
         RecCreate(i) \/ RecWrite(i) \/ RecUnmark(i) \/ Unmark(i)
  PROVE  SInv'
<1>1. /\ pc[i] \in {"recCreate", "recWrite", "recUnmark", "unmark"} /\ pc[i] \in LockedSteps
  BY DEF RecCreate, RecWrite, RecUnmark, Unmark, Goto, LockedSteps, RecoverySteps, CommitSteps
<1>2. TypeOK /\ IsDirectory(fs) /\ TreeAtRecovery(i)
  BY <1>1, HolderKnows
<1>3. /\ MarkerTemp(i) \in Names \ {State, Repository} /\ Marker \in Names \ {State, Repository}
      /\ NodesOf(MarkerTemp(i)) = {Absent} \cup MarkerDocs /\ Absent \in NodesOf(Marker)
  BY NamesDistinct, NodeKinds
<1>4. ASSUME NEW to \in {"recWrite", "recRename", "recUnmarkSync", "unmarkSync"}, Goto(i, pc[i], to)
      PROVE  StateAfterTree(i)' /\ pc'[i] = to
  <2>1. pc'[i] = to
    BY <1>2, <1>4 DEF Goto, TypeOK
  <2> QED
    BY <2>1 DEF StateAfterTree, BuildSteps
<1>5. CASE RecUnmark(i) \/ Unmark(i)
  <2>1. PICK to \in {"recUnmarkSync", "unmarkSync"} : Goto(i, pc[i], to) /\ Remove(Marker)
    BY <1>5 DEF RecUnmark, Unmark, Goto
  <2>2. Writing(i) = {}
    BY <1>5 DEF Writing, RecUnmark, Unmark, Goto
  <2> QED
    BY <1>1, <1>3, <1>4, <2>1, <2>2, StateChange
<1>6. CASE RecCreate(i) \/ RecWrite(i)
  <2>1. /\ TheOnly(StateTemps(fs)) \in StateTemps(fs) /\ TheOnly(StateTemps(fs)) \in Invocations
        /\ TheOnly(Stagings(fs)) \in Invocations
    BY <1>2, <1>6 DEF RecCreate, RecWrite, Goto, TreeAtRecovery, TheOnly, StateTemps, Stagings
  <2>2. CASE RecCreate(i)
    <3> DEFINE node == [sel |-> Torn, stateTemp |-> TheOnly(StateTemps(fs)),
                        staging |-> TheOnly(Stagings(fs)), synced |-> FALSE]
    <3>1. node \in MarkerDocs
      BY <2>1 DEF MarkerDocs
    <3>2. Create(MarkerTemp(i), node) /\ Goto(i, pc[i], "recWrite") /\ pc[i] = "recCreate"
      BY <2>2 DEF RecCreate, Goto
    <3>3. Writing(i) = {} /\ Writing(i)' = {MarkerTemp(i)}
      BY <1>4, <3>2 DEF Writing
    <3> HIDE DEF node
    <3> QED
      BY <1>1, <1>3, <1>4, <3>1, <3>2, <3>3, StateChange
  <2>3. CASE RecWrite(i)
    <3> DEFINE sel == fs[StateTemp(TheOnly(StateTemps(fs)))].sel
    <3> DEFINE node == [fs[MarkerTemp(i)] EXCEPT !.sel = sel, !.synced = TRUE]
    <3>1. WriteNode(MarkerTemp(i), node) /\ Goto(i, pc[i], "recRename") /\ pc[i] = "recWrite"
      BY <2>3 DEF RecWrite, Goto
    <3>2. Exists(fs, MarkerTemp(i)) /\ fs[MarkerTemp(i)] \in MarkerDocs
      BY <1>2, <1>3, <3>1 DEF TreeAtRecovery, IsDirectory, Exists
    <3>3. sel \in Selections \cup {Torn}
      BY <1>2, <2>1, NamesDistinct, NodeKinds DEF IsDirectory, StateTemps, Exists, StateDocs
    <3> HIDE DEF sel
    <3>4. node \in MarkerDocs /\ node.synced
      BY <3>2, <3>3 DEF MarkerDocs
    <3>5. Writing(i) = {MarkerTemp(i)}
      BY <3>1 DEF Writing
    <3> HIDE DEF node
    <3> QED
      BY <1>1, <1>3, <1>4, <3>1, <3>2, <3>4, <3>5, StateChange
  <2> QED
    BY <1>6, <2>2, <2>3
<1> QED
  BY <1>5, <1>6

\* A rename: the directories it reaches, and what it leaves synced.
LEMMA StateRename ==
  ASSUME SInv, TInv', Durable', NEW i \in Invocations, pc[i] \in LockedSteps, Writing(i) = {},
         NEW to, Goto(i, pc[i], to),
         NEW from \in Names \ {State, Repository}, NEW target \in Names, from # target,
         NodesOf(from) = NodesOf(target), Rename(from, target)
  PROVE  /\ fs'[from] = Absent /\ fs'[target] = fs[from]
         /\ \A x \in Names \ {from, target} : fs'[x] = fs[x]
         /\ \A d \in images' : \E e \in images :
              \/ d = e
              \/ /\ d[target] = fs[from]
                 /\ \A x \in {State, Repository} \ {target} : d[x] = e[x]
         /\ (\A d \in images' : StateIsGood(d)) /\ StateAfterTree(i)' => SInv'
<1>1. /\ TypeOK /\ \A y \in Names \ Writing(i) : Exists(fs, y) => fs[y].synced
  BY HolderKnows
<1>2. /\ fs'[from] = Absent /\ fs'[target] = fs[from]
      /\ \A x \in Names \ {from, target} : fs'[x] = fs[x]
      /\ \A d \in images' : \E e \in images :
           \/ d = e
           \/ /\ d[from] = Absent /\ d[target] = fs[from]
              /\ \A x \in Names \ {from, target} : d[x] = e[x]
  BY <1>1, RenameInAnyOrder
<1>3. \A y \in Names : Exists(fs', y) => fs'[y].synced
  BY <1>1, <1>2 DEF Exists
<1>4. pc' = [pc EXCEPT ![i] = to]
  BY DEF Goto
<1>5. ASSUME \A d \in images' : StateIsGood(d), StateAfterTree(i)' PROVE SInv'
  BY <1>3, <1>4, <1>5, StateStep
<1>6. \A x \in {State, Repository} \ {target} : x \in Names \ {from, target}
  BY NamesDistinct
<1> QED
  BY <1>2, <1>5, <1>6

\* The marker is published.
LEMMA StateMark ==
  ASSUME SInv, TInv', Durable', NEW i \in Invocations, MarkerRename(i) \/ RecRename(i)
  PROVE  SInv'
<1> DEFINE n == IF pc[i] = "markerRename" THEN i ELSE TheOnly(MarkerTemps(fs))
<1> DEFINE to == IF pc[i] = "markerRename" THEN "markerSync" ELSE "recMarkerSync"
<1>1. pc[i] \in {"markerRename", "recRename"} /\ Rename(MarkerTemp(n), Marker) /\ Goto(i, pc[i], to)
  BY DEF MarkerRename, RecRename, Goto
<1>2. pc[i] \in LockedSteps /\ Writing(i) = {}
  BY <1>1 DEF LockedSteps, BuildSteps, RecoverySteps, Writing
<1>3. TypeOK /\ TreeAtRecovery(i) /\ StateAfterTree(i) /\ \A d \in images : StateIsGood(d)
  BY <1>2, HolderKnows
<1>4. n \in Invocations
  BY <1>1, <1>3 DEF TreeAtRecovery, MarkerTemps, TheOnly
<1>5. pc'[i] = to /\ req' = req
  BY <1>1, <1>3 DEF Goto, TypeOK
<1>6. (to = "markerSync" /\ pc[i] = "markerRename") \/ to = "recMarkerSync"
  OBVIOUS
<1> HIDE DEF n, to
<1>7. /\ MarkerTemp(n) \in Names \ {State, Repository} /\ Marker \in Names /\ MarkerTemp(n) # Marker
      /\ NodesOf(MarkerTemp(n)) = NodesOf(Marker) /\ Marker \notin {State, Repository}
      /\ StateTemp(i) \in Names \ {MarkerTemp(n), Marker}
  BY <1>4, NamesDistinct, NodeKinds
<1>8. /\ \A x \in Names \ {MarkerTemp(n), Marker} : fs'[x] = fs[x]
      /\ \A d \in images' : \E e \in images :
           \/ d = e
           \/ /\ d[Marker] = fs[MarkerTemp(n)]
              /\ \A x \in {State, Repository} \ {Marker} : d[x] = e[x]
      /\ (\A d \in images' : StateIsGood(d)) /\ StateAfterTree(i)' => SInv'
  BY <1>1, <1>2, <1>7, StateRename
<1>9. \A d \in images' : \E e \in images : d[State] = e[State] /\ d[Repository] = e[Repository]
  BY <1>7, <1>8
<1>10. \A d \in images' : StateIsGood(d)
  BY <1>3, <1>9, GoodStays
<1>11. StateAfterTree(i)'
  <2>1. fs'[StateTemp(i)] = fs[StateTemp(i)]
    BY <1>7, <1>8
  <2>2. (\A d \in images : ~Exists(d, State)) => \A d \in images' : ~Exists(d, State)
    BY <1>9 DEF Exists
  <2> QED
    BY <1>3, <1>5, <1>6, <2>1, <2>2 DEF StateAfterTree, BuildSteps, Exists
<1> QED
  BY <1>8, <1>10, <1>11

\* The tree is published where no directory has a state.
LEMMA StatePublish ==
  ASSUME SInv, TInv', Durable', NEW i \in Invocations, Publish(i) \/ RecPublish(i)
  PROVE  SInv'
<1> DEFINE n == IF pc[i] = "publish" THEN i ELSE fs[Marker].staging
<1> DEFINE to == IF pc[i] = "publish" THEN "publishSync" ELSE "recPublishSync"
<1>1. pc[i] \in {"publish", "recPublish"} /\ Rename(Staging(n), Repository) /\ Goto(i, pc[i], to)
  BY DEF Publish, RecPublish, Goto
<1>2. pc[i] \in LockedSteps /\ Writing(i) = {}
  BY <1>1 DEF LockedSteps, CommitSteps, RecoverySteps, Writing
<1>3. /\ TypeOK /\ TreeAtRecovery(i) /\ TreeAtBuild(i) /\ StateAfterTree(i) /\ IsDirectory(fs)
      /\ \A d \in images : StateIsGood(d)
  BY <1>2, HolderKnows
<1>4. pc[i] = "recPublish" => Exists(fs, Marker) /\ fs[Marker] \in MarkerDocs
  BY <1>3, NamesDistinct, NodeKinds DEF TreeAtRecovery, IsDirectory, Exists
<1>5. n \in Invocations
  BY <1>1, <1>4 DEF MarkerDocs
<1>6. pc'[i] = to /\ req' = req
  BY <1>1, <1>3 DEF Goto, TypeOK
<1>7. /\ pc[i] = "publish" => to = "publishSync" /\ n = i
      /\ pc[i] = "recPublish" => to = "recPublishSync" /\ n = fs[Marker].staging
  OBVIOUS
<1> HIDE DEF n, to
<1>8. /\ Staging(n) \in Names \ {State, Repository} /\ Repository \in Names /\ Staging(n) # Repository
      /\ NodesOf(Staging(n)) = NodesOf(Repository) /\ State # Repository
      /\ Marker \in Names \ {Staging(n), Repository}
      /\ \A m \in Invocations : StateTemp(m) \in Names \ {Staging(n), Repository}
  BY <1>5, NamesDistinct, NodeKinds
<1>9. /\ fs'[Repository] = fs[Staging(n)]
      /\ \A x \in Names \ {Staging(n), Repository} : fs'[x] = fs[x]
      /\ \A d \in images' : \E e \in images :
           \/ d = e
           \/ /\ d[Repository] = fs[Staging(n)]
              /\ \A x \in {State, Repository} \ {Repository} : d[x] = e[x]
      /\ (\A d \in images' : StateIsGood(d)) /\ StateAfterTree(i)' => SInv'
  BY <1>1, <1>2, <1>8, StateRename
<1>10. \A d \in images' : ~Exists(d, State)
  <2>1. \A d \in images : ~Exists(d, State)
    BY <1>1, <1>3 DEF StateAfterTree
  <2> QED
    BY <1>8, <1>9, <2>1 DEF Exists
<1>11. \A d \in images' : StateIsGood(d)
  BY <1>10 DEF StateIsGood
<1>12. StateAfterTree(i)'
  <2>1. CASE pc[i] = "publish"
    <3>1. Exists(fs, Staging(i)) /\ ContentsValid(fs[Staging(i)], req[i])
      BY <1>3, <2>1 DEF TreeAtBuild, Complete
    <3>2. fs'[StateTemp(i)] = fs[StateTemp(i)] /\ Exists(fs, StateTemp(i)) /\ Written(fs[StateTemp(i)], req[i])
      BY <1>3, <1>8, <1>9, <2>1 DEF StateAfterTree
    <3> QED
      BY <1>6, <1>7, <1>9, <1>10, <2>1, <3>1, <3>2 DEF StateAfterTree, BuildSteps, Exists
  <2>2. CASE pc[i] = "recPublish"
    <3>1. Exists(fs, Staging(n)) /\ ContentsValid(fs[Staging(n)], fs[Marker].sel)
      BY <1>3, <1>7, <2>2 DEF TreeAtRecovery
    <3>2. fs'[Marker] = fs[Marker] /\ \A m \in Invocations : fs'[StateTemp(m)] = fs[StateTemp(m)]
      BY <1>8, <1>9
    <3>3. StateTemps(fs') = StateTemps(fs) /\ fs[Marker].stateTemp \in Invocations
      BY <1>4, <2>2, <3>2 DEF StateTemps, Exists, MarkerDocs
    <3>4. StateTemps(fs) # {} => fs[StateTemp(fs[Marker].stateTemp)].sel = fs[Marker].sel
      BY <1>3, <2>2 DEF StateAfterTree
    <3> QED
      BY <1>6, <1>7, <1>9, <1>10, <2>2, <3>1, <3>2, <3>3, <3>4 DEF StateAfterTree, BuildSteps, Exists
  <2> QED
    BY <1>1, <2>1, <2>2
<1> QED
  BY <1>9, <1>11, <1>12

\* The state is published where the only directory has its repository.
LEMMA StateCommit ==
  ASSUME SInv, TInv', Durable', NEW i \in Invocations, Commit(i) \/ RecState(i)
  PROVE  SInv'
<1> DEFINE n == IF pc[i] = "commit" THEN i ELSE fs[Marker].stateTemp
<1>1. pc[i] \in {"commit", "recState"} /\ pc[i] \in LockedSteps /\ Writing(i) = {}
  BY DEF Commit, RecState, Goto, LockedSteps, CommitSteps, RecoverySteps, Writing
<1>2. /\ TypeOK /\ TreeAtRecovery(i) /\ StateAfterTree(i) /\ IsDirectory(fs) /\ images = {fs}
      /\ \A d \in images : StateIsGood(d)
      /\ \A y \in Names \ Writing(i) : Exists(fs, y) => fs[y].synced
      /\ req[i] # Torn
  <2>1. /\ TypeOK /\ TreeAtRecovery(i) /\ StateAfterTree(i) /\ fs \in images
        /\ \A d \in images : IsDirectory(d)
        /\ \A d \in images : StateIsGood(d)
        /\ \A y \in Names \ Writing(i) : Exists(fs, y) => fs[y].synced
        /\ req[i] # Torn
    BY <1>1, HolderKnows
  <2> QED
    BY <1>1, <2>1 DEF StateAfterTree
<1>3. pc[i] = "recState" => /\ Exists(fs, Marker) /\ fs[Marker] \in MarkerDocs /\ fs[Marker].sel \in Selections
                            /\ StateTemps(fs) # {} /\ Exists(fs, StateTemp(fs[Marker].stateTemp))
  BY <1>2, NamesDistinct, NodeKinds DEF TreeAtRecovery, TempOrState, IsDirectory, Exists
<1>4. n \in Invocations
  BY <1>1, <1>3 DEF MarkerDocs
<1>5. /\ Exists(fs, StateTemp(n)) /\ Exists(fs, Repository)
      /\ ContentsValid(fs[Repository], fs[StateTemp(n)].sel)
      /\ fs[StateTemp(n)].sel # Torn
  BY <1>1, <1>2, <1>3, TornAssumption DEF StateAfterTree, Written
<1>6. \/ pc[i] = "recState" /\ Goto(i, pc[i], "recUnmark") /\ Remove(StateTemp(n))
      \/ \E to \in {"commitSync", "recStateSync"} : Goto(i, pc[i], to) /\ Rename(StateTemp(n), State)
  BY DEF Commit, RecState, Goto
<1> HIDE DEF n
<1>7. ASSUME NEW to \in {"recUnmark", "commitSync", "recStateSync"}, Goto(i, pc[i], to)
      PROVE  StateAfterTree(i)'
  <2>1. pc'[i] = to
    BY <1>2, <1>7 DEF Goto, TypeOK
  <2> QED
    BY <2>1 DEF StateAfterTree, BuildSteps
<1>8. CASE Goto(i, pc[i], "recUnmark") /\ Remove(StateTemp(n))
  <2>1. StateTemp(n) \in Names \ {State, Repository} /\ Absent \in NodesOf(StateTemp(n))
    BY <1>4, NamesDistinct DEF NodesOf
  <2> QED
    BY <1>1, <1>7, <1>8, <2>1, StateChange
<1>9. ASSUME NEW to \in {"commitSync", "recStateSync"}, Goto(i, pc[i], to), Rename(StateTemp(n), State)
      PROVE  SInv'
  <2>1. /\ StateTemp(n) \in Names \ {State, Repository} /\ State \in Names /\ StateTemp(n) # State
        /\ NodesOf(StateTemp(n)) = NodesOf(State) /\ State # Repository
    BY <1>4, NamesDistinct, NodeKinds
  <2>2. /\ \A d \in images' : \E e \in images :
             \/ d = e
             \/ /\ d[State] = fs[StateTemp(n)]
                /\ \A x \in {State, Repository} \ {State} : d[x] = e[x]
        /\ (\A d \in images' : StateIsGood(d)) /\ StateAfterTree(i)' => SInv'
    BY <1>1, <1>9, <2>1, StateRename
  <2>3. fs[StateTemp(n)].synced
    BY <1>1, <1>2, <1>5, <2>1
  <2>4. \A d \in images' : StateIsGood(d)
    BY <1>2, <1>5, <2>1, <2>2, <2>3 DEF StateIsGood, Exists
  <2> QED
    BY <1>7, <1>9, <2>2, <2>4
<1> QED
  BY <1>6, <1>8, <1>9

\* The look at an existing project.
LEMMA StateExisting ==
  ASSUME SInv, TInv', Durable', NEW i \in Invocations, Existing(i)
  PROVE  SInv'
<1>1. /\ pc[i] = "existing" /\ UNCHANGED <<fs, images>> /\ pc[i] \in LockedSteps /\ pc[i] \in QuietSteps
      /\ Writing(i) = {}
  BY DEF Existing, LockedSteps, QuietSteps, Writing
<1>2. /\ TypeOK /\ images = {fs} /\ \A d \in images : StateIsGood(d)
      /\ \A x \in Names \ Writing(i) : Exists(fs, x) => fs[x].synced
  BY <1>1, HolderKnows
<1>3. /\ pc' = [pc EXCEPT ![i] = pc'[i]] /\ pc'[i] \in {"done", "mkStaging"}
      /\ pc'[i] = "mkStaging" => ~Exists(fs, State)
  BY <1>1, <1>2 DEF Existing, Goto, Return, TypeOK
<1>4. StateAfterTree(i)'
  BY <1>1, <1>2, <1>3 DEF StateAfterTree, BuildSteps
<1> QED
  BY <1>1, <1>2, <1>3, <1>4, StateStep

\* A power loss keeps a state that is good, with its repository.
LEMMA StatePowerLoss ==
  ASSUME SInv, TInv', Durable', PowerLoss
  PROVE  SInv'
<1>0. PICK d \in images : \E lost \in SUBSET Unsynced(d) :
         fs' = Settle(d, lost) /\ images' = {Settle(d, lost)}
  BY DEF PowerLoss
<1>1. PICK lost \in SUBSET Unsynced(d) : fs' = Settle(d, lost) /\ images' = {Settle(d, lost)}
  BY <1>0
<1>2. IsDirectory(d) /\ StateIsGood(d) /\ (Exists(d, Repository) => d[Repository].synced)
  BY DEF SInv, TInv, TypeOK, TreesInAnyOrder, StatesInAnyOrder, RepositoryNeverPartial
<1>3. /\ \A x \in Names : Exists(fs', x) <=> Exists(d, x)
      /\ \A x \in Names : Exists(d, x) /\ d[x].synced => fs'[x] = d[x]
      /\ \A x \in Names : Exists(d, x) => fs'[x].synced
  BY <1>1, <1>2, SettleEffect, SettleSyncs
<1>4. StateIsGood(fs')
  BY <1>2, <1>3, NamesDistinct DEF StateIsGood
<1>5. \A i \in Invocations : pc'[i] \in {"idle", "done"}
  BY DEF PowerLoss, Active
<1>6. \A i \in Invocations : StateAfterTree(i)'
  BY <1>5 DEF StateAfterTree, BuildSteps
<1>7. SyncedExcept(UNION {Writing(j) : j \in Invocations})'
  BY <1>3 DEF SyncedExcept
<1> QED
  BY <1>1, <1>4, <1>6, <1>7 DEF SInv, StatesInAnyOrder

LEMMA InitStates == Init => SInv
<1> SUFFICES ASSUME Init PROVE SInv
  OBVIOUS
<1>1. TInv
  BY InitTrees
<1>2. images = {fs} /\ \A x \in Names : fs[x] = Absent
  BY DEF Init, EmptyDirectory
<1>3. \A i \in Invocations : pc[i] = "idle"
  BY DEF Init
<1>4. Durable /\ \A i \in Invocations : StateAfterTree(i)
  BY <1>2, <1>3 DEF Durable, StateAfterTree, BuildSteps
<1>5. (\A d \in images : StateIsGood(d)) /\ SyncedExcept(UNION {Writing(i) : i \in Invocations})
  BY <1>2, NamesDistinct DEF StateIsGood, SyncedExcept, Exists
<1> QED
  BY <1>1, <1>4, <1>5 DEF SInv, StatesInAnyOrder

\* Every step preserves it, when calls end only by returning or by a power loss.
LEMMA NextStates ==
  ASSUME ~MayKill, ~MayFail, SInv, [Next]_vars
  PROVE  SInv'
<1>1. TInv'
  BY NextTrees DEF SInv
<1>2. Durable'
  BY NextDurable DEF SInv, TInv, TreesInAnyOrder, StatesInAnyOrder
<1>3. ASSUME NEW i \in Invocations, Recovery(i) PROVE SInv'
  BY <1>1, <1>2, <1>3, StateRecover, StateSyncs, StateMarkers, StateMark, StatePublish, StateCommit DEF Recovery
<1>4. ASSUME NEW i \in Invocations, Build(i) PROVE SInv'
  <2>1. ~Clean(i)
    BY DEF Clean, Goto, SInv, StatesInAnyOrder, Durable
  <2> QED
    BY <1>1, <1>2, <1>4, <2>1, StateExisting, StatePrepares, StateMark DEF Build
<1>5. ASSUME NEW i \in Invocations, Finish(i) PROVE SInv'
  BY <1>1, <1>2, <1>5, StateSyncs, StateMarkers, StatePublish, StateCommit DEF Finish
<1>6. \A i \in Invocations : ~IoFails(i) /\ ~Kill(i)
  BY DEF IoFails, Kill
<1>7. CASE UNCHANGED vars
  BY <1>1, <1>2, <1>7 DEF vars, SInv, StatesInAnyOrder, SyncedExcept, Writing, StateAfterTree, StateIsGood
<1> QED
  BY <1>1, <1>2, <1>3, <1>4, <1>5, <1>6, <1>7, StateEntry, StatePowerLoss DEF Next, Step

\* On a file system that may persist directory operations in any order, a committed
\* state describes the repository beside it after every power loss, as long as
\* no call ends otherwise.  The order is then that of the calls of fsync alone.
THEOREM StateDescribesRepositoryInAnyOrder ==
  ASSUME ~MayKill, ~MayFail
  PROVE  Spec => []StateImpliesRepository
<1>1. Init => SInv
  BY InitStates
<1>2. SInv /\ [Next]_vars => SInv'
  BY NextStates
<1>3. SInv => StateImpliesRepository
  BY DEF SInv, StatesInAnyOrder, StateIsGood, StateImpliesRepository
<1> QED
  BY <1>1, <1>2, <1>3, PTL DEF Spec

=============================================================================
