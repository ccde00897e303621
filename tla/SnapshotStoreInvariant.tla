---------------------- MODULE SnapshotStoreInvariant -----------------------
(***************************************************************************)
(* Why the snapshot store survives crashes.  Only the holder of the        *)
(* refresh lock changes a file; what it has put in place stays as it left  *)
(* it until it is done; and as long as nothing is damaged from outside,    *)
(* every head that a power loss may bring back names a durable generation. *)
(***************************************************************************)
EXTENDS SnapshotStore

InstallSteps == {"stage", "install"}
FlushSteps == {"syncFile", "syncGenerations"}
BindSteps == {"previous", "publishHead", "syncViews", "pin"}
PublicationSteps == InstallSteps \cup FlushSteps \cup BindSteps
LockedSteps == PublicationSteps \cup {"read", "retain", "remove"}

\* The locals of a call at the steps that use them.
LocalsKnown(p) ==
  /\ pc[p] \in PublicationSteps => job[p].op = "publish"
  /\ pc[p] = "scan" => pending[p] \subseteq {k \in Keys : Present(k)}
  /\ pc[p] \in {"retain", "remove"} => job[p].op = "cleanup"
  /\ pc[p] = "remove" => pending[p] \subseteq Generations
  /\ pc[p] = "install" => stamp[p] \in Stamps
  /\ pc[p] \in FlushSteps \cup BindSteps => header[p] \in Stamps
  /\ pc[p] = "publishHead" => sequence[p] \in 1 .. MaxSequence
  /\ pc[p] = "lock" => job[p].op # "probe"

\* The types of the variables and of the locals.
Typed == TypeOK /\ \A p \in Processes : LocalsKnown(p)

LockHeld == \A p \in Processes : pc[p] \in LockedSteps => lock = p

\* What is visible now is among what a power loss may leave, and nothing is damaged.
ImagesSound ==
  /\ \A g \in Generations :
       /\ generations[g] \in generationImages[g]
       /\ generationImages[g] \subseteq {Absent} \cup [header : Stamps, intact : {TRUE}]
  /\ \A k \in Keys :
       /\ heads[k] \in headImages[k]
       /\ headImages[k] \subseteq {Absent} \cup Head

\* The generation of a publisher is in place, and later durable.
PublicationKnown(p) ==
  LET file == [header |-> header[p], intact |-> TRUE] IN
  /\ pc[p] \in FlushSteps => generations[job[p].generation] = file
  /\ pc[p] \in BindSteps => generationImages[job[p].generation] = {file}

\* The sequence a publisher has drawn is above all that a power loss may bring back,
\* and none of these is above the visible one of its view.
SequencesOrdered ==
  \A k \in Keys : \A h \in headImages[k] \ {Absent} :
    /\ heads[k] # Absent
    /\ h.sequence <= heads[k].sequence
    /\ \A p \in Processes : pc[p] = "publishHead" => h.sequence < sequence[p]

\* The inductive invariant of the store while no file is damaged from outside and no
\* cleanup runs: publish_staged_generation puts generations, heads and sequences in place in this order.
CrashInvariant ==
  damaged = 0 =>
    /\ ImagesSound
    /\ \A p \in Processes : PublicationKnown(p)
    /\ HeadsNameDurableGenerations
    /\ SequencesOrdered
    /\ SequencesAreDistinct

\* A call has no result before it ends, and as long as the file its publication has put in
\* place opens, its header is the one the head is bound to.
HeaderKnown(p) ==
  LET g == job[p].generation IN
  /\ pc[p] # "done" => result[p] = "none"
  /\ pc[p] \in FlushSteps \cup BindSteps /\ Opens(g) => generations[g].header = header[p]

\* What a publisher returns is what its head is bound to, with damage and cleanups too.
PinInvariant == PinnedIsPublished /\ \A p \in Processes : HeaderKnown(p)

(***************************************************************************)
(* Why a cleanup takes no generation from a valid head                     *)
(***************************************************************************)

\* What cleanup has still to remove is named by no valid head but those it could not
\* read.
CleanupInvariant ==
  \A p \in Processes : pc[p] = "remove" =>
    \A k \in Keys : Valid(k) => heads[k].generation \notin pending[p] \/ k \in missed[p]

(***************************************************************************)
(* Why what a reader returns was selected during its call                  *)
(***************************************************************************)

\* A call is under way exactly while it records what is selected in its scope.
CallKnown(p) ==
  /\ pc[p] # "done" <=> result[p] = "none"
  /\ pc[p] \in {"idle", "done"} \/ ~IsReader(p) => seen[p] = {}
  /\ pc[p] \in {"lock", "read"} /\ IsReader(p) => SelectedView(job[p].endpoint) \in seen[p]
  /\ pc[p] = "idle" => best[p] = Absent
  /\ pc[p] \in {"read", "scan"} => IsReader(p)

\* A head in the scope of an observer is one of those selected during its call, or
\* older than all of these.
HeadsSeen(p) ==
  \A k \in Keys : Present(k) /\ InScope(k, job[p].endpoint) =>
    \/ ViewOf(k) \in seen[p]
    \/ \A v \in seen[p] : v # Absent /\ heads[k].sequence < v[2].sequence

\* The best head so far was selected during the call, or a later one that was is still
\* to be visited.
ScanKnown(p) ==
  pc[p] = "scan" =>
    /\ HeadsSeen(p)
    /\ \/ best[p] \in seen[p]
       \/ \E k \in pending[p] : /\ InScope(k, job[p].endpoint)
                               /\ ViewOf(k) \in seen[p]
                               /\ Later(ViewOf(k), best[p])

RegisterInvariant == \A p \in Processes : CallKnown(p) /\ ScanKnown(p)
=============================================================================
