---------------------------- MODULE LockCommand ----------------------------
(***************************************************************************)
(* `rsolve lock` (cli.rs): checks of the arguments and of the destinations, *)
(* the resolution, the projection and round trip of the lock, its atomic    *)
(* replacement, and the metrics report.  Several processes may run it in    *)
(* one project directory, other programs may replace an entry there, the    *)
(* power may fail, and the file system may fold the case of names.          *)
(*                                                                         *)
(* An entry of the directory is <<"missing">>, a dangling <<"symlink">>, a  *)
(* directory or a file; a file is named by who wrote it and why.            *)
(***************************************************************************)
EXTENDS Naturals

CONSTANTS
    Commands,    \* [process -> [manifest, offline, metrics]]: metrics a name or "none"
    Resolutions, \* what a resolution may select
    MaxForeign   \* bound on the changes other programs make

VARIABLES
    folding,     \* whether the file system folds the case of names
    dir,         \* [name -> entry], case variants folded
    disk,        \* [name -> the entries the disk may hold]
    files,       \* [file -> [kind, value, whole]]
    synced,      \* the files whose content is on the disk
    proc,        \* [process -> [pc, value, lock]]: lock, the lock's identity
    foreign,     \* changes made by other programs so far
    down         \* the power failed

vars == <<folding, dir, disk, files, synced, proc, foreign, down>>

Processes == DOMAIN Commands
Missing == <<"missing">>
Old == <<"old">>
New(p, kind) == <<p, kind>>

(* A lock's value: what was selected, and for which manifest.               *)
Values == [resolution : Resolutions, intent : {"this", "other"}]
NoValue == [resolution |-> 0, intent |-> "none"]
ReportFile == [kind |-> "report", value |-> NoValue, whole |-> TRUE]
Lock(v) == [kind |-> "lock", value |-> v, whole |-> TRUE]

Names == {"lock", "LOCK", "report"}
Fold(name) == IF folding /\ name = "LOCK" THEN "lock" ELSE name
Entry(name) == dir[Fold(name)]
Directory(name) == <<"directory", name>>
IsFile(e) == e \notin {Missing, <<"symlink">>} \cup {Directory(n) : n \in Names}

(* ExistingPathIdentity: a handle follows a link, and opens a directory.    *)
Identity(e) == IF e = <<"symlink">> THEN Missing ELSE e

Init ==
    /\ folding \in BOOLEAN
    /\ \E e \in {Missing, Old, <<"symlink">>} : \E r \in {Missing, Old} :
        /\ dir = [n \in Names |-> IF n = "lock" THEN e ELSE IF n = "report" THEN r ELSE Missing]
        /\ disk = [n \in Names |-> {dir[n]}]
    /\ \E v \in Values : files = [f \in {Old} |-> Lock(v)]
    /\ synced = {Old}
    /\ proc = [p \in Processes |-> [pc |-> "start", value |-> NoValue, lock |-> Missing]]
    /\ foreign = 0 /\ down = FALSE

Step(p, from, to) == ~ down /\ proc[p].pc = from /\ proc' = [proc EXCEPT ![p].pc = to]
Fails(p, from) == ~ down /\ proc[p].pc = from /\ proc' = [proc EXCEPT ![p].pc = "failed"]
SameFiles == UNCHANGED <<folding, dir, disk, files, synced, foreign, down>>

-----------------------------------------------------------------------------
(* Before the resolution.                                                   *)

validate_output_path(name) == Entry(name) = Missing \/ IsFile(Entry(name))

destination_paths_equal(a, b) == a = b

same_existing_identity(a, b) == Identity(a) # Missing /\ Identity(a) = Identity(b)
existing_destinations_share_identity(a, b) == same_existing_identity(Entry(a), Entry(b))

Metrics(p) == Commands[p].metrics
DestinationsClash(p) ==
    /\ Metrics(p) # "none"
    /\ \/ ~ validate_output_path(Metrics(p))
       \/ destination_paths_equal("lock", Metrics(p))
       \/ existing_destinations_share_identity("lock", Metrics(p))

(* An offline run of a manifest consumes the lock there is, if any.         *)
Consumes(p) == Commands[p].manifest /\ Commands[p].offline /\ IsFile(Entry("lock"))
Usable(file) == file.kind = "lock" /\ file.whole /\ file.value.intent = "this"

Start(p) ==
    /\ validate_output_path("lock") /\ ~ DestinationsClash(p)
    /\ Consumes(p) => Usable(files[Entry("lock")])
    /\ Step(p, "start", "resolve")
    /\ SameFiles

(* One of these checks failed, or the arguments, the manifest, its          *)
(* environment or its roots are refused.                                    *)
StartFails(p) == Fails(p, "start") /\ SameFiles

(* The backend answers; the lock is projected and survives its round trip.  *)
Resolve(p) ==
    /\ ~ down /\ proc[p].pc = "resolve"
    /\ \E r \in Resolutions :
        proc' = [proc EXCEPT ![p].pc = "write",
                             ![p].value = [resolution |-> r, intent |-> "this"]]
    /\ SameFiles

ResolveFails(p) == Fails(p, "resolve") /\ SameFiles

-----------------------------------------------------------------------------
(* write_lockfile and write_report: a temporary file, synced, renamed.      *)

(* The lock is there already, byte for byte.                                *)
Same(p) == IsFile(Entry("lock")) /\ files[Entry("lock")] = Lock(proc[p].value)

UpToDate(p) == Step(p, "write", "recheck") /\ Same(p) /\ SameFiles

(* A mutant: the temporary file is renamed without being synced.            *)
NotSynced(f) == synced' = synced

sync_all(f) == synced' = synced \cup {f}

Stage(p, kind, content) ==
    /\ files' = [f \in DOMAIN files \cup {New(p, kind)} |->
                    IF f = New(p, kind) THEN content ELSE files[f]]
    /\ sync_all(New(p, kind))
    /\ UNCHANGED <<folding, dir, disk, foreign, down>>

StageLock(p) ==
    /\ Step(p, "write", "commit")
    /\ validate_output_path("lock") /\ ~ Same(p)
    /\ Stage(p, "lock", Lock(proc[p].value))

StageReport(p) ==
    /\ Step(p, "report", "commit report")
    /\ validate_output_path(Metrics(p))
    /\ Stage(p, "report", ReportFile)

(* The destination is checked again after the slow write; a step of another *)
(* process may still come between this check and the rename.                *)
Check(p) ==
    /\ \/ Step(p, "commit", "rename") /\ validate_output_path("lock")
       \/ Step(p, "commit report", "rename report") /\ validate_output_path(Metrics(p))
    /\ SameFiles

(* The rename replaces whatever the name has become, a directory excepted;  *)
(* the directory that holds it is not synced.                               *)
persist_temp(name, f) ==
    /\ Entry(name) # Directory(Fold(name))
    /\ dir' = [dir EXCEPT ![Fold(name)] = f]
    /\ disk' = [disk EXCEPT ![Fold(name)] = @ \cup {f}]
    /\ UNCHANGED <<folding, files, synced, foreign, down>>

Publish(p) == Step(p, "rename", "recheck") /\ persist_temp("lock", New(p, "lock"))
PublishReport(p) ==
    Step(p, "rename report", "done") /\ persist_temp(Metrics(p), New(p, "report"))

WriteFails(p) ==
    /\ \E from \in {"write", "commit", "rename", "report", "commit report", "rename report"} :
        Fails(p, from)
    /\ SameFiles

-----------------------------------------------------------------------------
(* After the lock is published: destinations that were missing before the   *)
(* resolution may turn out to be one file.  The two are opened in turn.     *)

(* A mutant: the destinations are not compared again.                       *)
NotCompared(p) == FALSE

Aliased(p) == same_existing_identity(proc[p].lock, Entry(Metrics(p)))

LockIdentity(p) ==
    /\ ~ down /\ proc[p].pc = "recheck"
    /\ IF Metrics(p) = "none" THEN proc' = [proc EXCEPT ![p].pc = "done"]
       ELSE proc' = [proc EXCEPT ![p].lock = Identity(Entry("lock")),
                                 ![p].pc = IF Identity(Entry("lock")) = Missing
                                           THEN "failed" ELSE "compare"]
    /\ SameFiles

CompareIdentities(p) ==
    /\ \/ Step(p, "compare", "report") /\ ~ Aliased(p)
       \/ Fails(p, "compare") /\ Aliased(p)
    /\ SameFiles

(* path_identity could not open the lock, or the report.                    *)
IdentityFails(p) ==
    /\ \/ Fails(p, "recheck") /\ Metrics(p) # "none"
       \/ Fails(p, "compare")
    /\ SameFiles

-----------------------------------------------------------------------------
(* The rest of the world.                                                   *)

Foreign ==
    /\ ~ down /\ foreign < MaxForeign
    /\ \E n \in {"lock", "report"} : \E e \in {Missing, <<"symlink">>, Directory(n)} :
        /\ dir[n] # e
        /\ dir' = [dir EXCEPT ![n] = e] /\ disk' = [disk EXCEPT ![n] = @ \cup {e}]
    /\ foreign' = foreign + 1
    /\ UNCHANGED <<folding, files, synced, proc, down>>

(* The disk holds some of the changes, and of a file what was synced.       *)
PowerFails ==
    /\ ~ down /\ down' = TRUE
    /\ \E l \in disk["lock"], u \in disk["LOCK"], r \in disk["report"] :
        dir' = [lock |-> l, LOCK |-> u, report |-> r]
    /\ files' = [f \in DOMAIN files |-> IF f \in synced THEN files[f]
                                        ELSE [files[f] EXCEPT !.whole = FALSE]]
    /\ UNCHANGED <<folding, disk, synced, proc, foreign>>

Over == down \/ \A p \in Processes : proc[p].pc \in {"done", "failed"}
Terminating == Over /\ UNCHANGED vars

Next ==
    \/ \E p \in Processes :
        \/ Start(p) \/ StartFails(p) \/ Resolve(p) \/ ResolveFails(p)
        \/ UpToDate(p) \/ StageLock(p) \/ StageReport(p) \/ Check(p)
        \/ Publish(p) \/ PublishReport(p) \/ WriteFails(p)
        \/ LockIdentity(p) \/ CompareIdentities(p) \/ IdentityFails(p)
    \/ ~ Over /\ (Foreign \/ PowerFails)
    \/ Terminating

Spec == Init /\ [][Next]_vars

-----------------------------------------------------------------------------
(***************************************************************************)
(* A lock found under the lock's name is whole, however the commands        *)
(* interleave and whenever the power fails: write_lockfile syncs the        *)
(* temporary file before it renames it.                                     *)
(***************************************************************************)
LockIsWhole == IsFile(dir["lock"]) => files[dir["lock"]].whole

(***************************************************************************)
(* The report of a command never replaces the lock this command published   *)
(* or found up to date, even when the two destinations were missing before  *)
(* the resolution and a folded name makes them one file.  (What the disk    *)
(* holds after a power failure was put there by an earlier step.)           *)
(***************************************************************************)
SparesTheLock ==
    \A p \in Processes :
        ~ down' /\ dir'["lock"] = New(p, "report") /\ dir["lock"] # dir'["lock"] =>
            dir["lock"] # proc[p].lock
ReportsSpareTheLock == [][SparesTheLock]_vars

=============================================================================
