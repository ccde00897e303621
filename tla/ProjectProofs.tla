--------------------------- MODULE ProjectProofs ---------------------------
(***************************************************************************)
(* The bounded copy, `rsolve lock`, the preparation of a repository and the *)
(* rounds of the resolution, for any sizes, commands, selections, packages  *)
(* and numbers of concurrent calls.                                        *)
(***************************************************************************)
EXTENDS Project, WellFoundedInduction, FiniteSetTheorems, TLAPS

-----------------------------------------------------------------------------
(* The copy of a stream (BoundedCopy).                                     *)

\* The bound is a u64.
LEMMA LimitInRange ==
  ASSUME Stream!TypeOK
  PROVE  Stream!Limit \in 0..MaxSize
BY SizesAssumption DEF Stream!TypeOK, Stream!Limit

\* Types are preserved: the loop's counters stay u64 and within the stream.
LEMMA TypeStep ==
  ASSUME Stream!TypeOK, [Stream!Next]_(Stream!vars)
  PROVE  Stream!TypeOK'
<1>1. CASE Stream!EndOfStream
  BY <1>1 DEF Stream!TypeOK, Stream!EndOfStream
<1>2. CASE Stream!ReadBytes
  <2>1. Stream!Capacity \in Nat
    BY LimitInRange, SizesAssumption DEF Stream!TypeOK, Stream!Capacity, Stream!Least, Stream!AtLimit
  <2>2. PICK read \in 1..Stream!Least(Stream!Capacity, length - consumed) :
          consumed' = consumed + read /\ size' = Stream!Least(size + read, MaxSize)
    BY <1>2 DEF Stream!ReadBytes
  <2>3. /\ length \in Nat /\ consumed \in Nat /\ size \in Nat /\ MaxSize \in Nat
        /\ read \in Nat /\ read <= length - consumed
    BY <2>1, <2>2, SizesAssumption DEF Stream!TypeOK, Stream!Least
  <2>4. consumed' \in 0..length /\ size' \in 0..MaxSize
    BY <2>2, <2>3 DEF Stream!Least
  <2> QED
    BY <1>2, <2>4 DEF Stream!TypeOK, Stream!ReadBytes
<1>3. CASE UNCHANGED Stream!vars
  BY <1>3 DEF Stream!TypeOK, Stream!vars
<1> QED
  BY <1>1, <1>2, <1>3 DEF Stream!Next

\* The loop keeps its invariant: a read never passes the bound, except for the one
\* byte that ends the loop.
LEMMA InvariantStep ==
  ASSUME Stream!TypeOK, Stream!CopyInvariant, [Stream!Next]_(Stream!vars)
  PROVE  Stream!CopyInvariant'
<1> USE SizesAssumption
<1>0. Stream!Limit \in 0..MaxSize
  BY LimitInRange
<1>1. CASE Stream!EndOfStream
  <2>1. Stream!Limit' = Stream!Limit /\ size' = size /\ consumed' = consumed
        /\ length' = length /\ expected' = expected
    BY <1>1 DEF Stream!EndOfStream, Stream!Limit
  <2>2. size = consumed /\ consumed <= Stream!Limit /\ consumed = length
    BY <1>1 DEF Stream!EndOfStream, Stream!CopyInvariant
  <2>3. CASE expected \in {None, size}
    BY <1>1, <2>1, <2>2, <2>3 DEF Stream!EndOfStream, Stream!CopyInvariant
  <2>4. CASE expected \notin {None, size}
    <3>1. outcome' = "mismatch"
      BY <1>1, <2>4 DEF Stream!EndOfStream
    <3> QED
      BY <1>0, <2>1, <2>2, <2>4, <3>1 DEF Stream!CopyInvariant, Stream!TypeOK
  <2> QED
    BY <2>3, <2>4
<1>2. CASE Stream!ReadBytes
  <2>1. Stream!Limit' = Stream!Limit /\ length' = length /\ expected' = expected
    BY <1>2 DEF Stream!ReadBytes, Stream!Limit
  <2>2. size = consumed /\ consumed <= Stream!Limit
    BY <1>2 DEF Stream!ReadBytes, Stream!CopyInvariant
  <2>3. PICK read \in 1..Stream!Least(Stream!Capacity, length - consumed) :
          consumed' = consumed + read /\ size' = Stream!Least(size + read, MaxSize)
    BY <1>2 DEF Stream!ReadBytes
  <2>4. Stream!Capacity \in Nat
    BY <1>0 DEF Stream!TypeOK, Stream!Capacity, Stream!Least, Stream!AtLimit
  <2>5. /\ length \in Nat /\ consumed \in Nat /\ size \in Nat /\ MaxSize \in Nat
        /\ read \in Nat /\ read >= 1 /\ read <= Stream!Capacity /\ read <= length - consumed
    BY <2>3, <2>4 DEF Stream!TypeOK, Stream!Least
  <2>6. CASE Stream!AtLimit
    <3>1. consumed = Stream!Limit /\ read = 1
      BY <1>0, <2>2, <2>5, <2>6 DEF Stream!AtLimit, Stream!Capacity
    <3>2. consumed' = Stream!Limit + 1 /\ length > Stream!Limit
      BY <1>0, <2>3, <2>5, <3>1
    <3>3. outcome' = IF expected = None THEN "tooLarge" ELSE "mismatch"
      BY <1>2, <2>6 DEF Stream!ReadBytes
    <3>4. expected # None => Stream!Limit = expected
      BY DEF Stream!Limit
    <3> QED
      BY <1>0, <2>1, <3>2, <3>3, <3>4 DEF Stream!CopyInvariant
  <2>7. CASE ~Stream!AtLimit
    <3>1. consumed' <= Stream!Limit
      BY <1>0, <2>2, <2>3, <2>5, <2>7 DEF Stream!AtLimit, Stream!Capacity, Stream!Least
    <3>2. size' = consumed'
      BY <1>0, <2>2, <2>3, <2>5, <3>1 DEF Stream!Least
    <3>3. outcome' = "none"
      BY <1>2, <2>7 DEF Stream!ReadBytes
    <3> QED
      BY <2>1, <3>1, <3>2, <3>3 DEF Stream!CopyInvariant
  <2> QED
    BY <2>6, <2>7
<1>3. CASE UNCHANGED Stream!vars
  BY <1>3 DEF Stream!CopyInvariant, Stream!Limit, Stream!vars
<1> QED
  BY <1>1, <1>2, <1>3 DEF Stream!Next

(* The other components leave the copy's variables alone.                  *)
LEMMA CopyNow ==
  ASSUME [ProjectNext]_projectVars, which = "copy" \/ which' = "copy"
  PROVE  which = "copy" /\ which' = "copy" /\ [Stream!Next]_(Stream!vars)
BY DEF ProjectNext, CopyNext, CopyEnded, CommandNext, PreparationNext, ResolutionNext, UpdateNext, projectVars,
   copyOnly, Stream!vars

(* The invariant of the loop, in the composition.                          *)
LEMMA CopyInit == ProjectInit => (which = "copy" => Stream!TypeOK /\ Stream!CopyInvariant)
<1> SUFFICES ASSUME ProjectInit, which = "copy" PROVE Stream!TypeOK /\ Stream!CopyInvariant
  OBVIOUS
<1>1. Stream!Init
  BY DEF ProjectInit
<1> QED
  BY <1>1, SizesAssumption DEF Stream!Init, Stream!TypeOK, Stream!CopyInvariant, Stream!Limit

LEMMA CopyStep ==
    [ProjectNext]_projectVars /\ (which = "copy" => Stream!TypeOK /\ Stream!CopyInvariant)
        => (which = "copy" => Stream!TypeOK /\ Stream!CopyInvariant)'
BY CopyNow, TypeStep, InvariantStep

\* The loop of copy_compressed_input keeps its counters within their types, and
\* never passes its bound except by the one byte that ends it.
THEOREM InvariantHolds == ProjectSpec => [](which = "copy" => Stream!TypeOK /\ Stream!CopyInvariant)
BY CopyInit, CopyStep, PTL DEF ProjectSpec

\* copy_compressed_input never consumes more than one byte beyond its bound, for
\* every buffer, bound and stream and every way a reader may cut the stream.
THEOREM ConsumptionBounded == ProjectSpec => [](which = "copy" => Stream!BoundedConsumption)
<1>1. Stream!TypeOK /\ Stream!CopyInvariant => Stream!BoundedConsumption
  <2> SUFFICES ASSUME Stream!TypeOK, Stream!CopyInvariant
               PROVE  consumed <= Stream!Limit + 1
    BY DEF Stream!BoundedConsumption
  <2>1. Stream!Limit \in Int /\ consumed \in Int
    BY LimitInRange, SizesAssumption DEF Stream!TypeOK
  <2> QED
    BY <2>1 DEF Stream!TypeOK, Stream!CopyInvariant
<1> QED
  BY <1>1, InvariantHolds, PTL

\* It accepts exactly the streams the reference definition accepts.
THEOREM OutcomeCorrect == ProjectSpec => []OutcomeIsTheReference
<1>1. Stream!TypeOK /\ Stream!CopyInvariant => Stream!OutcomeIsTheReference
  <2> SUFFICES ASSUME Stream!TypeOK, Stream!CopyInvariant, outcome # "none"
               PROVE  Stream!OutcomeIsTheReference
    BY DEF Stream!OutcomeIsTheReference
  <2>1. /\ consumed \in Nat /\ length \in Nat /\ consumed <= length /\ size \in Nat
        /\ HardLimit \in Nat
    BY SizesAssumption DEF Stream!TypeOK
  <2>2. CASE outcome = "ok"
    <3>1. /\ size = consumed /\ consumed = length /\ consumed <= Stream!Limit
          /\ expected \in {None, size}
      BY <2>2 DEF Stream!CopyInvariant
    <3> QED
      BY <2>1, <2>2, <3>1, SizesAssumption DEF Stream!OutcomeIsTheReference, Stream!Limit
  <2>3. CASE outcome = "mismatch"
    <3>1. expected # None /\ length # expected
      BY <2>3 DEF Stream!CopyInvariant
    <3> QED
      BY <2>1, <2>3, <3>1 DEF Stream!OutcomeIsTheReference
  <2>4. CASE outcome = "tooLarge"
    <3>1. expected = None /\ consumed = HardLimit + 1
      BY <2>4 DEF Stream!CopyInvariant, Stream!Limit
    <3> QED
      BY <2>1, <2>4, <3>1 DEF Stream!OutcomeIsTheReference
  <2> QED
    BY <2>2, <2>3, <2>4 DEF Stream!TypeOK
<1>2. (which = "copy" => Stream!TypeOK /\ Stream!CopyInvariant) => OutcomeIsTheReference
  BY <1>1 DEF OutcomeIsTheReference
<1> QED
  BY <1>2, InvariantHolds, PTL

-----------------------------------------------------------------------------
(* `rsolve lock` (LockCommand): the invariants.                            *)

(* The steps before a process publishes its lock, and its report.          *)
BeforeLock == {"start", "resolve", "write", "commit", "rename"}
BeforeReport == BeforeLock \cup {"recheck", "compare", "report", "commit report", "rename report"}
Places == BeforeReport \cup {"done", "failed"}

Entries ==
    {Command!Missing, Command!Old, <<"symlink">>} \cup {Command!Directory(n) : n \in Command!Names}
    \cup {Command!New(p, kind) : p \in Command!Processes, kind \in {"lock", "report"}}
Runs == [pc : Places, value : Command!Values \cup {Command!NoValue}, lock : Entries]

(* The types that the other invariants rest on.                            *)
Typed ==
    /\ folding \in BOOLEAN
    /\ dir \in [Command!Names -> Entries] /\ disk \in [Command!Names -> SUBSET Entries]
    /\ proc \in [Command!Processes -> Runs]

(* A file is synced before the directory, or the disk, can name it; what is *)
(* synced is whole, whatever happens.                                      *)
Ready(f) == f \in synced /\ f \in DOMAIN files

Staged(p) ==
    /\ proc[p].pc \in {"commit", "rename"} => Ready(Command!New(p, "lock"))
    /\ proc[p].pc \in {"commit report", "rename report"} => Ready(Command!New(p, "report"))

NamedIsSynced ==
    /\ \A n \in Command!Names : Command!IsFile(dir[n]) => Ready(dir[n])
    /\ \A n \in Command!Names : \A e \in disk[n] : Command!IsFile(e) => Ready(e)
    /\ \A f \in synced : f \in DOMAIN files => files[f].whole
    /\ ~ down => \A p \in Command!Processes : Staged(p)

(* A file that a process has still to publish has no name yet, and nobody  *)
(* has seen it.                                                            *)
Unpublished(e) ==
    \A p \in Command!Processes :
        /\ proc[p].pc \in BeforeLock => e # Command!New(p, "lock")
        /\ proc[p].pc \in BeforeReport => e # Command!New(p, "report")

(* Past the comparison of its destinations, a process has found the lock's *)
(* name to lead to something other than its lock, and it cannot come back, *)
(* unless it is a directory, which no rename replaces.                     *)
Compared(p) ==
    /\ proc[p].pc # "start" /\ proc[p].pc # "failed" => Command!Metrics(p) # "lock"
    /\ proc[p].pc \in {"compare", "report", "commit report", "rename report"} =>
         proc[p].lock \notin {Command!Missing, <<"symlink">>}
    /\ /\ proc[p].pc \in {"report", "commit report", "rename report"}
       /\ folding /\ Command!Metrics(p) = "LOCK"
       => dir["lock"] # proc[p].lock \/ proc[p].lock = Command!Directory("lock")

LockIsSpared ==
    /\ Unpublished(dir["lock"])
    /\ \A p \in Command!Processes : Unpublished(proc[p].lock)
    /\ \A p \in Command!Processes : Compared(p)

-----------------------------------------------------------------------------
(* The types.                                                              *)

(* The initial state has its types.                                        *)
LEMMA InitTyped == Command!Init => Typed
<1> SUFFICES ASSUME Command!Init PROVE Typed
  OBVIOUS
<1>1. PICK e \in {Command!Missing, Command!Old, <<"symlink">>}, r \in {Command!Missing, Command!Old} :
        /\ dir = [n \in Command!Names |-> IF n = "lock" THEN e ELSE IF n = "report" THEN r ELSE Command!Missing]
        /\ disk = [n \in Command!Names |-> {dir[n]}]
  BY DEF Command!Init
<1>2. {Command!Missing, Command!Old, <<"symlink">>} \subseteq Entries
  BY DEF Entries
<1>3. dir \in [Command!Names -> Entries] /\ disk \in [Command!Names -> SUBSET Entries]
  BY <1>1, <1>2
<1>4. [pc |-> "start", value |-> Command!NoValue, lock |-> Command!Missing] \in Runs
  <2>1. Command!Missing \in Entries
    BY <1>2
  <2>2. Command!NoValue \in Command!Values \cup {Command!NoValue}
    OBVIOUS
  <2> QED
    BY <2>1, <2>2 DEF Runs, Places, BeforeReport, BeforeLock
<1> QED
  BY <1>3, <1>4 DEF Typed, Command!Init

(* What a process does to its own record: the places it moves between, and *)
(* what it remembers.                                                      *)
Moves(p, r) ==
    /\ ~ down /\ down' = down /\ folding' = folding
    /\ r \in Runs /\ proc' = [proc EXCEPT ![p] = r]

(* The ways a process may move: quietly, or with a file staged or renamed. *)
Walks(p, r, from, to) == proc[p].pc = from /\ r.pc = to /\ r.lock = proc[p].lock

Quiet(p, r) ==
    /\ Command!SameFiles
    /\ \/ Walks(p, r, "start", "resolve") /\ ~ Command!DestinationsClash(p)
       \/ \E from \in BeforeReport : Walks(p, r, from, "failed")
       \/ Walks(p, r, "resolve", "write")
       \/ Walks(p, r, "write", "recheck")
       \/ Walks(p, r, "commit", "rename")
       \/ Walks(p, r, "commit report", "rename report")
       \/ Walks(p, r, "recheck", "done")
       \/ /\ proc[p].pc = "recheck" /\ r.lock = Command!Identity(Command!Entry("lock"))
          /\ r.pc = IF r.lock = Command!Missing THEN "failed" ELSE "compare"
       \/ Walks(p, r, "compare", "report") /\ ~ Command!Aliased(p)

Stages(p, r) ==
    \/ Walks(p, r, "write", "commit") /\ Command!Stage(p, "lock", Command!Lock(proc[p].value))
    \/ Walks(p, r, "report", "commit report") /\ Command!Stage(p, "report", Command!ReportFile)

Renames(p, r) ==
    \/ Walks(p, r, "rename", "recheck") /\ Command!persist_temp("lock", Command!New(p, "lock"))
    \/ Walks(p, r, "rename report", "done") /\ Command!persist_temp(Command!Metrics(p), Command!New(p, "report"))

(* A step of the control changes the place only.                           *)
LEMMA MoveOfStep ==
  ASSUME Typed, NEW p \in Command!Processes, NEW from \in Places, NEW to \in Places, Command!Step(p, from, to),
         UNCHANGED <<folding, down>>
  PROVE  \E r : Moves(p, r) /\ Walks(p, r, from, to)
<1> DEFINE r == [proc[p] EXCEPT !.pc = to]
<1>1. r \in Runs /\ r.pc = to /\ r.lock = proc[p].lock
  BY DEF Typed, Runs
<1>2. proc' = [proc EXCEPT ![p] = r]
  BY DEF Command!Step, Typed
<1> QED
  BY <1>1, <1>2 DEF Moves, Walks, Command!Step

(* So does a step of the control that fails.                               *)
LEMMA MoveOfFailure ==
  ASSUME Typed, NEW p \in Command!Processes, NEW from \in BeforeReport, Command!Fails(p, from), Command!SameFiles
  PROVE  \E r : Moves(p, r) /\ Quiet(p, r)
<1>1. Command!Step(p, from, "failed") /\ from \in Places /\ UNCHANGED <<folding, down>>
  BY DEF Command!Fails, Command!Step, Command!SameFiles, Places
<1>2. \E r : Moves(p, r) /\ Walks(p, r, from, "failed")
  BY <1>1, MoveOfStep DEF Places
<1> QED
  BY <1>2 DEF Quiet

(* The entries of the directory, links followed.                           *)
LEMMA IdentityTyped ==
  ASSUME Typed
  PROVE  Command!Identity(Command!Entry("lock")) \in Entries /\ Command!Fold("lock") = "lock" /\ Command!Entry("lock") = dir["lock"]
<1>1. Command!Fold("lock") = "lock" /\ "lock" \in Command!Names
  BY DEF Command!Fold, Command!Names
<1>2. dir["lock"] \in Entries /\ Command!Missing \in Entries
  BY <1>1 DEF Typed, Entries
<1> QED
  BY <1>1, <1>2 DEF Command!Identity, Command!Entry

(* The identity of the lock is taken, or no report is asked for.           *)
LEMMA MoveOfIdentity ==
  ASSUME Typed, NEW p \in Command!Processes, Command!LockIdentity(p)
  PROVE  \E r : Moves(p, r) /\ Quiet(p, r)
<1> DEFINE e == Command!Identity(Command!Entry("lock"))
           to == IF e = Command!Missing THEN "failed" ELSE "compare"
<1>0. Command!SameFiles /\ ~down /\ proc[p].pc = "recheck" /\ UNCHANGED <<folding, down>>
  BY DEF Command!LockIdentity, Command!SameFiles
<1>1. CASE Command!Metrics(p) = "none"
  <2>1. Command!Step(p, "recheck", "done")
    BY <1>1 DEF Command!LockIdentity, Command!Step
  <2>2. \E r : Moves(p, r) /\ Walks(p, r, "recheck", "done")
    BY <2>1, <1>0, MoveOfStep DEF Places, BeforeReport, BeforeLock
  <2> QED
    BY <2>2, <1>0 DEF Quiet
<1>2. CASE Command!Metrics(p) # "none"
  <2>1. proc' = [proc EXCEPT ![p].lock = e, ![p].pc = to]
    BY <1>2 DEF Command!LockIdentity
  <2>2. to \in Places /\ e \in Entries
    BY IdentityTyped DEF Places, BeforeReport, BeforeLock
  <2> HIDE DEF e, to
  <2>3. proc' \in [Command!Processes -> Runs]
    BY <2>1, <2>2 DEF Typed, Runs
  <2> DEFINE r == proc'[p]
  <2>4. r \in Runs /\ r.pc = to /\ r.lock = e
    BY <2>1, <2>3 DEF Typed, Runs
  <2>5. proc' = [proc EXCEPT ![p] = r]
    BY <2>1, <2>3 DEF Typed
  <2>6. Moves(p, r)
    BY <2>4, <2>5, <1>0 DEF Moves
  <2>7. Quiet(p, r)
    BY <1>0, <2>4 DEF Quiet, e, to
  <2> QED
    BY <2>6, <2>7
<1> QED
  BY <1>1, <1>2

(* Every step of a process is one of these ways.                           *)
LEMMA ProcessMoves ==
  ASSUME Typed, NEW p \in Command!Processes,
         \/ Command!Start(p) \/ Command!StartFails(p) \/ Command!Resolve(p) \/ Command!ResolveFails(p)
         \/ Command!UpToDate(p) \/ Command!StageLock(p) \/ Command!StageReport(p) \/ Command!Check(p)
         \/ Command!Publish(p) \/ Command!PublishReport(p) \/ Command!WriteFails(p)
         \/ Command!LockIdentity(p) \/ Command!CompareIdentities(p) \/ Command!IdentityFails(p)
  PROVE  \E r : Moves(p, r) /\ (Quiet(p, r) \/ Stages(p, r) \/ Renames(p, r))
<1>1. CASE Command!Start(p)
  <2>1. Command!Step(p, "start", "resolve") /\ Command!SameFiles /\ ~ Command!DestinationsClash(p) /\ UNCHANGED <<folding, down>>
    BY <1>1 DEF Command!Start, Command!SameFiles
  <2>2. \E r : Moves(p, r) /\ Walks(p, r, "start", "resolve")
    BY <2>1, MoveOfStep DEF Places, BeforeReport, BeforeLock
  <2> QED
    BY <2>1, <2>2 DEF Quiet
<1>2. CASE Command!StartFails(p)
  BY <1>2, MoveOfFailure DEF Command!StartFails, BeforeReport, BeforeLock
<1>3. CASE Command!Resolve(p)
  <2>1. PICK s \in Resolutions :
          proc' = [proc EXCEPT ![p].pc = "write", ![p].value = [resolution |-> s, intent |-> "this"]]
    BY <1>3 DEF Command!Resolve
  <2>2. [resolution |-> s, intent |-> "this"] \in Command!Values
    BY DEF Command!Values
  <2>3. proc' \in [Command!Processes -> Runs]
    BY <2>1, <2>2 DEF Typed, Runs, Places, BeforeReport, BeforeLock
  <2> DEFINE r == proc'[p]
  <2>4. r \in Runs /\ r.pc = "write" /\ r.lock = proc[p].lock
    BY <2>1, <2>3 DEF Typed, Runs
  <2>5. proc' = [proc EXCEPT ![p] = r]
    BY <2>1, <2>3 DEF Typed
  <2>6. ~down /\ Command!SameFiles /\ down' = down /\ folding' = folding /\ proc[p].pc = "resolve"
    BY <1>3 DEF Command!Resolve, Command!SameFiles
  <2>7. Moves(p, r) /\ Walks(p, r, "resolve", "write")
    BY <2>4, <2>5, <2>6 DEF Moves, Walks
  <2> QED
    BY <2>6, <2>7 DEF Quiet
<1>4. CASE Command!ResolveFails(p)
  BY <1>4, MoveOfFailure DEF Command!ResolveFails, BeforeReport, BeforeLock
<1>5. CASE Command!UpToDate(p)
  <2>1. Command!Step(p, "write", "recheck") /\ Command!SameFiles /\ UNCHANGED <<folding, down>>
    BY <1>5 DEF Command!UpToDate, Command!SameFiles
  <2>2. \E r : Moves(p, r) /\ Walks(p, r, "write", "recheck")
    BY <2>1, MoveOfStep DEF Places, BeforeReport, BeforeLock
  <2> QED
    BY <2>1, <2>2 DEF Quiet
<1>6. CASE Command!StageLock(p)
  <2>1. Command!Step(p, "write", "commit") /\ Command!Stage(p, "lock", Command!Lock(proc[p].value)) /\ UNCHANGED <<folding, down>>
    BY <1>6 DEF Command!StageLock, Command!Stage
  <2>2. \E r : Moves(p, r) /\ Walks(p, r, "write", "commit")
    BY <2>1, MoveOfStep DEF Places, BeforeReport, BeforeLock
  <2> QED
    BY <2>1, <2>2 DEF Stages
<1>7. CASE Command!StageReport(p)
  <2>1. Command!Step(p, "report", "commit report") /\ Command!Stage(p, "report", Command!ReportFile) /\ UNCHANGED <<folding, down>>
    BY <1>7 DEF Command!StageReport, Command!Stage
  <2>2. \E r : Moves(p, r) /\ Walks(p, r, "report", "commit report")
    BY <2>1, MoveOfStep DEF Places, BeforeReport, BeforeLock
  <2> QED
    BY <2>1, <2>2 DEF Stages
<1>8. CASE Command!Check(p)
  <2>0. Command!SameFiles /\ UNCHANGED <<folding, down>>
    BY <1>8 DEF Command!Check, Command!SameFiles
  <2>1. CASE Command!Step(p, "commit", "rename")
    BY <2>0, <2>1, MoveOfStep DEF Quiet, Places, BeforeReport, BeforeLock
  <2>2. CASE Command!Step(p, "commit report", "rename report")
    BY <2>0, <2>2, MoveOfStep DEF Quiet, Places, BeforeReport, BeforeLock
  <2> QED
    BY <2>1, <2>2, <1>8 DEF Command!Check
<1>9. CASE Command!Publish(p)
  <2>1. Command!Step(p, "rename", "recheck") /\ Command!persist_temp("lock", Command!New(p, "lock")) /\ UNCHANGED <<folding, down>>
    BY <1>9 DEF Command!Publish, Command!persist_temp
  <2>2. \E r : Moves(p, r) /\ Walks(p, r, "rename", "recheck")
    BY <2>1, MoveOfStep DEF Places, BeforeReport, BeforeLock
  <2> QED
    BY <2>1, <2>2 DEF Renames
<1>10. CASE Command!PublishReport(p)
  <2>1. /\ Command!Step(p, "rename report", "done") /\ Command!persist_temp(Command!Metrics(p), Command!New(p, "report"))
        /\ UNCHANGED <<folding, down>>
    BY <1>10 DEF Command!PublishReport, Command!persist_temp
  <2>2. \E r : Moves(p, r) /\ Walks(p, r, "rename report", "done")
    BY <2>1, MoveOfStep DEF Places, BeforeReport, BeforeLock
  <2> QED
    BY <2>1, <2>2 DEF Renames
<1>11. CASE Command!WriteFails(p)
  BY <1>11, MoveOfFailure DEF Command!WriteFails, BeforeReport, BeforeLock
<1>12. CASE Command!LockIdentity(p)
  BY <1>12, MoveOfIdentity
<1>13. CASE Command!CompareIdentities(p)
  <2>0. Command!SameFiles /\ UNCHANGED <<folding, down>>
    BY <1>13 DEF Command!CompareIdentities, Command!SameFiles
  <2>1. CASE Command!Step(p, "compare", "report") /\ ~ Command!Aliased(p)
    BY <2>0, <2>1, MoveOfStep DEF Quiet, Places, BeforeReport, BeforeLock
  <2>2. CASE Command!Fails(p, "compare")
    BY <2>0, <2>2, MoveOfFailure DEF BeforeReport, BeforeLock
  <2> QED
    BY <2>1, <2>2, <1>13 DEF Command!CompareIdentities
<1>14. CASE Command!IdentityFails(p)
  BY <1>14, MoveOfFailure DEF Command!IdentityFails, BeforeReport, BeforeLock
<1> QED
  BY <1>1, <1>2, <1>3, <1>4, <1>5, <1>6, <1>7, <1>8, <1>9, <1>10, <1>11, <1>12, <1>13, <1>14

(* The cases of a step, for the proofs below.                              *)
LEMMA Cases ==
  ASSUME Typed, [Command!Next]_(Command!vars)
  PROVE  \/ \E p \in Command!Processes : \E r : Moves(p, r) /\ (Quiet(p, r) \/ Stages(p, r) \/ Renames(p, r))
         \/ Command!Foreign
         \/ Command!PowerFails
         \/ UNCHANGED Command!vars
<1>1. CASE UNCHANGED Command!vars
  BY <1>1
<1>2. CASE Command!Foreign \/ Command!PowerFails \/ Command!Terminating
  BY <1>2 DEF Command!Terminating
<1>3. ASSUME NEW p \in Command!Processes,
         \/ Command!Start(p) \/ Command!StartFails(p) \/ Command!Resolve(p) \/ Command!ResolveFails(p)
         \/ Command!UpToDate(p) \/ Command!StageLock(p) \/ Command!StageReport(p) \/ Command!Check(p)
         \/ Command!Publish(p) \/ Command!PublishReport(p) \/ Command!WriteFails(p)
         \/ Command!LockIdentity(p) \/ Command!CompareIdentities(p) \/ Command!IdentityFails(p)
      PROVE \E r : Moves(p, r) /\ (Quiet(p, r) \/ Stages(p, r) \/ Renames(p, r))
  BY <1>3, ProcessMoves
<1> QED
  BY <1>1, <1>2, <1>3 DEF Command!Next

(* What a rename does to the directory.                                    *)
LEMMA Renamed ==
  ASSUME Typed, NEW name, NEW f \in Entries, Command!persist_temp(name, f)
  PROVE  /\ dir' \in [Command!Names -> Entries] /\ disk' \in [Command!Names -> SUBSET Entries]
         /\ \A n \in Command!Names : dir'[n] \in {dir[n], f} /\ disk'[n] \subseteq disk[n] \cup {f}
         /\ \A n \in Command!Names : n # Command!Fold(name) => dir'[n] = dir[n]
         /\ Command!Fold(name) \in Command!Names => dir[Command!Fold(name)] # Command!Directory(Command!Fold(name)) /\ dir'[Command!Fold(name)] = f
         /\ UNCHANGED <<folding, files, synced>>
<1> DEFINE x == Command!Fold(name)
<1>1. /\ dir[x] # Command!Directory(x) /\ dir' = [dir EXCEPT ![x] = f]
      /\ disk' = [disk EXCEPT ![x] = disk[x] \cup {f}]
      /\ UNCHANGED <<folding, files, synced>>
  BY DEF Command!persist_temp, Command!Entry
<1>2. dir \in [Command!Names -> Entries] /\ disk \in [Command!Names -> SUBSET Entries]
  BY DEF Typed
<1> HIDE DEF x
<1>3. dir' \in [Command!Names -> Entries] /\ disk' \in [Command!Names -> SUBSET Entries]
  BY <1>1, <1>2
<1>4. \A n \in Command!Names : dir'[n] \in {dir[n], f} /\ disk'[n] \subseteq disk[n] \cup {f}
  BY <1>1, <1>2
<1>5. \A n \in Command!Names : n # x => dir'[n] = dir[n]
  BY <1>1, <1>2
<1> QED
  BY <1>1, <1>2, <1>3, <1>4, <1>5 DEF x

(* What another program does to it.                                        *)
LEMMA Replaced ==
  ASSUME Typed, Command!Foreign
  PROVE  \E e \in {Command!Missing, <<"symlink">>} \cup {Command!Directory(n) : n \in Command!Names} :
           /\ dir' \in [Command!Names -> Entries] /\ disk' \in [Command!Names -> SUBSET Entries]
           /\ \A n \in Command!Names : dir'[n] \in {dir[n], e} /\ disk'[n] \subseteq disk[n] \cup {e}
           /\ dir'["lock"] # dir["lock"] => e \in {Command!Missing, <<"symlink">>, Command!Directory("lock")}
           /\ ~down /\ UNCHANGED <<folding, files, synced, proc, down>>
<1>0. PICK n \in {"lock", "report"} : \E e \in {Command!Missing, <<"symlink">>, Command!Directory(n)} :
        /\ dir' = [dir EXCEPT ![n] = e] /\ disk' = [disk EXCEPT ![n] = disk[n] \cup {e}]
  BY DEF Command!Foreign
<1>1. PICK e \in {Command!Missing, <<"symlink">>, Command!Directory(n)} :
        /\ dir' = [dir EXCEPT ![n] = e] /\ disk' = [disk EXCEPT ![n] = disk[n] \cup {e}]
  BY <1>0
<1>2. n \in Command!Names /\ "lock" \in Command!Names /\ e \in Entries
  BY DEF Command!Names, Entries
<1>3. dir \in [Command!Names -> Entries] /\ disk \in [Command!Names -> SUBSET Entries]
  BY DEF Typed
<1>4. dir' \in [Command!Names -> Entries] /\ disk' \in [Command!Names -> SUBSET Entries]
  BY <1>1, <1>2, <1>3
<1>5. \A m \in Command!Names : dir'[m] \in {dir[m], e} /\ disk'[m] \subseteq disk[m] \cup {e}
  BY <1>1, <1>2, <1>3
<1>6. dir'["lock"] # dir["lock"] => n = "lock"
  BY <1>1, <1>2, <1>3
<1>7. e \in {Command!Missing, <<"symlink">>} \cup {Command!Directory(m) : m \in Command!Names}
  BY <1>2
<1>8. ~down /\ UNCHANGED <<folding, files, synced, proc, down>>
  BY DEF Command!Foreign
<1> QED
  BY <1>4, <1>5, <1>6, <1>7, <1>8

(* What a power failure leaves.                                            *)
LEMMA Restored ==
  ASSUME Typed, Command!PowerFails
  PROVE  /\ dir' \in [Command!Names -> Entries] /\ \A n \in Command!Names : dir'[n] \in disk[n]
         /\ DOMAIN files' = DOMAIN files
         /\ \A f \in DOMAIN files : f \in synced => files'[f] = files[f]
         /\ down' = TRUE /\ UNCHANGED <<folding, disk, synced, proc>>
<1>1. PICK l \in disk["lock"], u \in disk["LOCK"], r \in disk["report"] :
        dir' = [lock |-> l, LOCK |-> u, report |-> r]
  BY DEF Command!PowerFails
<1>2. disk["lock"] \subseteq Entries /\ disk["LOCK"] \subseteq Entries /\ disk["report"] \subseteq Entries
  BY DEF Typed, Command!Names
<1>3. dir' \in [Command!Names -> Entries] /\ \A n \in Command!Names : dir'[n] \in disk[n]
  BY <1>1, <1>2 DEF Command!Names
<1>4. DOMAIN files' = DOMAIN files /\ \A f \in DOMAIN files : f \in synced => files'[f] = files[f]
  BY DEF Command!PowerFails
<1> QED
  BY <1>3, <1>4 DEF Command!PowerFails

(* A file of a process is an entry.                                        *)
LEMMA NewIsEntry ==
  ASSUME NEW p \in Command!Processes
  PROVE  Command!New(p, "lock") \in Entries /\ Command!New(p, "report") \in Entries
BY DEF Entries

(* Every step keeps the types.                                             *)
LEMMA NextTyped == Typed /\ [Command!Next]_(Command!vars) => Typed'
<1> SUFFICES ASSUME Typed, [Command!Next]_(Command!vars) PROVE Typed'
  OBVIOUS
<1>1. ASSUME NEW p \in Command!Processes, NEW r, Moves(p, r), Quiet(p, r) \/ Stages(p, r) \/ Renames(p, r)
      PROVE  Typed'
  <2>1. proc' \in [Command!Processes -> Runs] /\ folding' \in BOOLEAN
    BY <1>1 DEF Moves, Typed
  <2>2. dir' \in [Command!Names -> Entries] /\ disk' \in [Command!Names -> SUBSET Entries]
    <3>1. CASE Quiet(p, r)
      BY <3>1 DEF Quiet, Command!SameFiles, Typed
    <3>2. CASE Stages(p, r)
      BY <3>2 DEF Stages, Command!Stage, Typed
    <3>3. CASE Renames(p, r)
      BY <3>3, NewIsEntry, Renamed DEF Renames
    <3> QED
      BY <1>1, <3>1, <3>2, <3>3
  <2> QED
    BY <2>1, <2>2 DEF Typed
<1>2. CASE Command!Foreign
  BY <1>2, Replaced DEF Typed
<1>3. CASE Command!PowerFails
  BY <1>3, Restored DEF Typed
<1>4. CASE UNCHANGED Command!vars
  BY <1>4 DEF Typed, Command!vars
<1> QED
  BY <1>1, <1>2, <1>3, <1>4, Cases

-----------------------------------------------------------------------------
(* Names lead to synced files.                                             *)

(* Directories, links and nothing are no files.                            *)
LEMMA NotFiles ==
  \A e \in {Command!Missing, <<"symlink">>} \cup {Command!Directory(n) : n \in Command!Names} : ~Command!IsFile(e)
BY DEF Command!IsFile

(* The lock file of the start is synced and whole.                         *)
LEMMA InitNamed == Command!Init => NamedIsSynced
<1> SUFFICES ASSUME Command!Init PROVE NamedIsSynced
  OBVIOUS
<1>1. PICK e \in {Command!Missing, Command!Old, <<"symlink">>}, r \in {Command!Missing, Command!Old} :
        /\ dir = [n \in Command!Names |-> IF n = "lock" THEN e ELSE IF n = "report" THEN r ELSE Command!Missing]
        /\ disk = [n \in Command!Names |-> {dir[n]}]
  BY DEF Command!Init
<1>2. PICK v \in Command!Values : files = [f \in {Command!Old} |-> Command!Lock(v)]
  BY DEF Command!Init
<1>3. \A n \in Command!Names : dir[n] \in {Command!Missing, Command!Old, <<"symlink">>} /\ disk[n] = {dir[n]}
  BY <1>1
<1>4. synced = {Command!Old} /\ DOMAIN files = {Command!Old} /\ files[Command!Old] = Command!Lock(v)
  BY <1>2 DEF Command!Init
<1>5. Ready(Command!Old) /\ files[Command!Old].whole
  BY <1>4 DEF Ready, Command!Lock
<1>6. \A p \in Command!Processes : Staged(p)
  BY DEF Command!Init, Staged
<1>7. ~Command!IsFile(Command!Missing) /\ ~Command!IsFile(<<"symlink">>)
  BY NotFiles
<1> QED
  BY <1>3, <1>4, <1>5, <1>6, <1>7 DEF NamedIsSynced

(* Every step keeps them so: only a staged file is renamed.                *)
LEMMA NextNamed == Typed /\ NamedIsSynced /\ [Command!Next]_(Command!vars) => NamedIsSynced'
<1> SUFFICES ASSUME Typed, NamedIsSynced, [Command!Next]_(Command!vars) PROVE NamedIsSynced'
  OBVIOUS
<1>0. DOMAIN proc = Command!Processes
  BY DEF Typed
<1>1. ASSUME NEW p \in Command!Processes, NEW r, Moves(p, r), Quiet(p, r)
      PROVE  NamedIsSynced'
  <2>1. UNCHANGED <<dir, disk, files, synced>>
    BY <1>1 DEF Quiet, Command!SameFiles
  <2>2. ~down /\ \A q \in Command!Processes : Staged(q)
    BY <1>1 DEF Moves, NamedIsSynced
  <2>3. ASSUME NEW q \in Command!Processes PROVE Staged(q)'
    <3>1. CASE q # p
      BY <3>1, <1>0, <1>1, <2>1, <2>2 DEF Moves, Staged, Ready
    <3>2. CASE q = p
      <4>1. proc'[p] = r
        BY <1>0, <1>1 DEF Moves
      <4>2. /\ r.pc \in {"commit", "rename"} => proc[p].pc = "commit"
            /\ r.pc \in {"commit report", "rename report"} => proc[p].pc = "commit report"
        BY <1>1 DEF Quiet, Walks
      <4> QED
        BY <3>2, <4>1, <4>2, <2>1, <2>2 DEF Staged, Ready
    <3> QED
      BY <3>1, <3>2
  <2> QED
    BY <2>1, <2>3 DEF NamedIsSynced, Ready, Command!IsFile
<1>2. ASSUME NEW p \in Command!Processes, NEW r, Moves(p, r), Stages(p, r)
      PROVE  NamedIsSynced'
  <2>1. PICK kind \in {"lock", "report"}, content \in {Command!Lock(proc[p].value), Command!ReportFile} :
          /\ Command!Stage(p, kind, content)
          /\ r.pc = "commit" => kind = "lock"
          /\ r.pc = "commit report" => kind = "report"
          /\ r.pc \in {"commit", "commit report"}
    BY <1>2 DEF Stages, Walks
  <2>2. content.whole = TRUE
    BY DEF Command!Lock, Command!ReportFile
  <2> DEFINE g == Command!New(p, kind)
  <2>3. /\ UNCHANGED <<dir, disk>> /\ synced' = synced \cup {g}
        /\ files' = [f \in DOMAIN files \cup {g} |-> IF f = g THEN content ELSE files[f]]
    BY <2>1 DEF Command!Stage, Command!sync_all
  <2> HIDE DEF g
  <2>4. \A f : Ready(f) \/ f = g => Ready(f)'
    BY <2>3 DEF Ready
  <2>5. \A f \in synced' : f \in DOMAIN files' => files'[f].whole
    BY <2>2, <2>3 DEF NamedIsSynced
  <2>6. ASSUME NEW q \in Command!Processes PROVE Staged(q)'
    <3>1. CASE q # p
      BY <3>1, <1>0, <1>2, <2>4 DEF Moves, Staged, NamedIsSynced
    <3>2. CASE q = p
      BY <3>2, <1>0, <1>2, <2>1, <2>4 DEF Moves, Staged, g
    <3> QED
      BY <3>1, <3>2
  <2>7. \A n \in Command!Names : Command!IsFile(dir'[n]) => Ready(dir[n])'
    BY <2>3, <2>4 DEF NamedIsSynced
  <2>8. \A n \in Command!Names : \A e \in disk'[n] : Command!IsFile(e) => Ready(e)'
    BY <2>3, <2>4 DEF NamedIsSynced
  <2> QED
    BY <2>5, <2>6, <2>7, <2>8 DEF NamedIsSynced, Command!IsFile
<1>3. ASSUME NEW p \in Command!Processes, NEW r, Moves(p, r), Renames(p, r)
      PROVE  NamedIsSynced'
  <2>1. PICK kind \in {"lock", "report"} :
          /\ \E name : Command!persist_temp(name, Command!New(p, kind))
          /\ kind = "lock" => proc[p].pc = "rename"
          /\ kind = "report" => proc[p].pc = "rename report"
          /\ r.pc \in {"recheck", "done"}
    <3>1. CASE Walks(p, r, "rename", "recheck") /\ Command!persist_temp("lock", Command!New(p, "lock"))
      BY <3>1 DEF Walks
    <3>2. CASE Walks(p, r, "rename report", "done") /\ Command!persist_temp(Command!Metrics(p), Command!New(p, "report"))
      BY <3>2 DEF Walks
    <3> QED
      BY <1>3, <3>1, <3>2 DEF Renames
  <2> DEFINE g == Command!New(p, kind)
  <2>2. g \in Entries
    BY NewIsEntry
  <2>3. Ready(g)
    BY <1>3, <2>1 DEF NamedIsSynced, Staged, Moves
  <2> HIDE DEF g
  <2>4. /\ UNCHANGED <<files, synced>>
        /\ \A n \in Command!Names : dir'[n] \in {dir[n], g} /\ disk'[n] \subseteq disk[n] \cup {g}
    BY <2>1, <2>2, Renamed DEF g
  <2>5. \A f : Ready(f) => Ready(f)'
    BY <2>4 DEF Ready
  <2>6. ASSUME NEW q \in Command!Processes PROVE Staged(q)'
    BY <1>0, <1>3, <2>1, <2>5 DEF Moves, Staged, NamedIsSynced
  <2>7. \A n \in Command!Names : Command!IsFile(dir'[n]) => Ready(dir[n])'
    BY <2>3, <2>4, <2>5 DEF NamedIsSynced, Ready
  <2>8. \A n \in Command!Names : \A e \in disk'[n] : Command!IsFile(e) => Ready(e)'
    BY <2>3, <2>4, <2>5 DEF NamedIsSynced
  <2> QED
    BY <2>4, <2>6, <2>7, <2>8 DEF NamedIsSynced, Command!IsFile
<1>4. CASE Command!Foreign
  <2>1. PICK e \in {Command!Missing, <<"symlink">>} \cup {Command!Directory(n) : n \in Command!Names} :
          /\ \A n \in Command!Names : dir'[n] \in {dir[n], e} /\ disk'[n] \subseteq disk[n] \cup {e}
          /\ UNCHANGED <<files, synced, proc, down>>
    BY <1>4, Replaced
  <2>2. ~Command!IsFile(e)
    BY NotFiles
  <2>3. \A n \in Command!Names : Command!IsFile(dir'[n]) => Ready(dir[n])'
    BY <2>1, <2>2 DEF NamedIsSynced, Ready
  <2>4. \A n \in Command!Names : \A f \in disk'[n] : Command!IsFile(f) => Ready(f)'
    BY <2>1, <2>2 DEF NamedIsSynced, Ready
  <2>5. ~down' => \A q \in Command!Processes : Staged(q)'
    BY <2>1 DEF NamedIsSynced, Staged, Ready
  <2> QED
    BY <2>1, <2>3, <2>4, <2>5 DEF NamedIsSynced, Command!IsFile
<1>5. CASE Command!PowerFails
  <2>1. \A n \in Command!Names : dir'[n] \in disk[n]
    BY <1>5, Restored
  <2>2. /\ DOMAIN files' = DOMAIN files
        /\ \A f \in DOMAIN files : f \in synced => files'[f] = files[f]
        /\ down' = TRUE /\ UNCHANGED <<disk, synced>>
    BY <1>5, Restored
  <2>3. \A f : Ready(f) => Ready(f)'
    BY <2>2 DEF Ready
  <2>4. \A n \in Command!Names : Command!IsFile(dir'[n]) => Ready(dir[n])'
    BY <2>1, <2>2 DEF NamedIsSynced, Ready
  <2> QED
    BY <2>2, <2>3, <2>4 DEF NamedIsSynced, Command!IsFile
<1>6. CASE UNCHANGED Command!vars
  BY <1>6 DEF NamedIsSynced, Command!vars, Staged, Ready, Command!IsFile
<1> QED
  BY <1>1, <1>2, <1>3, <1>4, <1>5, <1>6, Cases

-----------------------------------------------------------------------------
(* The lock is spared.                                                     *)

(* Processes are told from the directories of the model.                   *)
Distinguished == "directory" \notin Command!Processes

(* The files of two processes, or of two kinds, differ, and are none of the *)
(* other entries.                                                          *)
LEMMA NewIsNew ==
  ASSUME Distinguished, NEW p \in Command!Processes, NEW q \in Command!Processes
  PROVE  /\ Command!New(p, "lock") # Command!New(q, "report")
         /\ p # q => Command!New(p, "lock") # Command!New(q, "lock") /\ Command!New(p, "report") # Command!New(q, "report")
         /\ \A k \in {"lock", "report"} : Command!New(p, k) \notin {Command!Missing, Command!Old, <<"symlink">>}
         /\ \A k \in {"lock", "report"} : \A n \in Command!Names : Command!New(p, k) # Command!Directory(n)
<1>1. \A k : Command!New(p, k)[1] = p /\ Command!New(p, k)[2] = k /\ Command!New(q, k)[1] = q /\ Command!New(q, k)[2] = k
  BY DEF Command!New
<1>2. \A k : DOMAIN Command!New(p, k) = {1, 2}
  BY DEF Command!New
<1>3. DOMAIN Command!Missing = {1} /\ DOMAIN Command!Old = {1} /\ DOMAIN <<"symlink">> = {1}
  BY DEF Command!Missing, Command!Old
<1>4. \A n : Command!Directory(n)[1] = "directory"
  BY DEF Command!Directory
<1>5. \A k : Command!New(p, k) \notin {Command!Missing, Command!Old, <<"symlink">>}
  BY <1>2, <1>3
<1>6. \A k : \A n : Command!New(p, k) # Command!Directory(n)
  BY <1>1, <1>4 DEF Distinguished
<1> QED
  BY <1>1, <1>5, <1>6

(* Nothing is published yet at the start.                                  *)
LEMMA InitSpared == Distinguished /\ Command!Init => LockIsSpared
<1> SUFFICES ASSUME Distinguished, Command!Init PROVE LockIsSpared
  OBVIOUS
<1>1. dir["lock"] \in {Command!Missing, Command!Old, <<"symlink">>}
  BY DEF Command!Init, Command!Names
<1>2. \A p \in Command!Processes : proc[p].pc = "start" /\ proc[p].lock = Command!Missing
  BY DEF Command!Init
<1>3. \A e \in {Command!Missing, Command!Old, <<"symlink">>} : Unpublished(e)
  BY NewIsNew DEF Unpublished
<1>4. \A p \in Command!Processes : Compared(p)
  BY <1>2 DEF Compared
<1> QED
  BY <1>1, <1>2, <1>3, <1>4 DEF LockIsSpared

(* A process only moves forward, so that what is published stays so.       *)
LEMMA StaysUnpublished ==
  ASSUME Typed, NEW p \in Command!Processes, NEW r, Moves(p, r), Quiet(p, r) \/ Stages(p, r) \/ Renames(p, r),
         NEW e, Unpublished(e)
  PROVE  \A q \in Command!Processes :
           /\ proc'[q].pc \in BeforeLock => e # Command!New(q, "lock")
           /\ proc'[q].pc \in BeforeReport => e # Command!New(q, "report")
<1>1. proc'[p] = r /\ \A q \in Command!Processes : q # p => proc'[q] = proc[q]
  BY DEF Moves, Typed
<1>2. (r.pc \in BeforeLock => proc[p].pc \in BeforeLock) /\ (r.pc \in BeforeReport => proc[p].pc \in BeforeReport)
  <2>1. CASE Quiet(p, r)
    BY <2>1 DEF Quiet, Walks, BeforeReport, BeforeLock
  <2>2. CASE Stages(p, r) \/ Renames(p, r)
    BY <2>2 DEF Stages, Renames, Walks, BeforeReport, BeforeLock
  <2> QED
    BY <2>1, <2>2
<1> QED
  BY <1>1, <1>2 DEF Unpublished

(* What a process remembers of the lock after a step: what it remembered,  *)
(* or what it sees.                                                        *)
LEMMA Remembered ==
  ASSUME Typed, NEW p \in Command!Processes, NEW r, Moves(p, r), Quiet(p, r) \/ Stages(p, r) \/ Renames(p, r)
  PROVE  /\ \A q \in Command!Processes : q # p => proc'[q] = proc[q]
         /\ proc'[p] = r /\ r.lock \in {proc[p].lock, Command!Missing, dir["lock"]}
<1>1. Command!Entry("lock") = dir["lock"]
  BY IdentityTyped
<1>2. CASE Quiet(p, r)
  BY <1>1, <1>2 DEF Moves, Typed, Quiet, Walks, Command!Identity
<1>3. CASE Stages(p, r) \/ Renames(p, r)
  BY <1>3 DEF Moves, Typed, Stages, Renames, Walks
<1> QED
  BY <1>2, <1>3

(* A process that stays beside the files compares its destinations.        *)
LEMMA QuietCompares ==
  ASSUME Typed, NEW p \in Command!Processes, NEW r, Moves(p, r), Quiet(p, r) \/ Stages(p, r), Compared(p)
  PROVE  Compared(p)'
<1>1. proc'[p] = r /\ UNCHANGED <<dir, folding>>
  BY DEF Moves, Typed, Quiet, Command!SameFiles, Stages, Command!Stage
<1>2. r.pc # "start" /\ r.pc # "failed" => Command!Metrics(p) # "lock"
  <2>1. ~Command!DestinationsClash(p) => Command!Metrics(p) # "lock"
    BY DEF Command!DestinationsClash, Command!destination_paths_equal
  <2> QED
    BY <2>1 DEF Quiet, Stages, Walks, Compared
<1>3. r.pc \in {"compare", "report", "commit report", "rename report"} => r.lock \notin {Command!Missing, <<"symlink">>}
  <2>1. \A e : Command!Identity(e) # <<"symlink">>
    BY DEF Command!Identity, Command!Missing
  <2> QED
    BY <2>1 DEF Quiet, Stages, Walks, Compared
<1>4. /\ r.pc \in {"report", "commit report", "rename report"}
      /\ folding /\ Command!Metrics(p) = "LOCK"
      => dir["lock"] # r.lock \/ r.lock = Command!Directory("lock")
  <2>1. folding /\ Command!Metrics(p) = "LOCK" => Command!Entry(Command!Metrics(p)) = dir["lock"]
    BY DEF Command!Entry, Command!Fold
  <2>2. ASSUME Walks(p, r, "compare", "report"), ~ Command!Aliased(p), folding, Command!Metrics(p) = "LOCK"
        PROVE  dir["lock"] # r.lock
    <3>1. r.lock = proc[p].lock /\ r.lock \notin {Command!Missing, <<"symlink">>}
      BY <2>2 DEF Walks, Compared
    <3>2. Command!Identity(r.lock) # Command!Missing => Command!Identity(r.lock) # Command!Identity(dir["lock"])
      BY <2>1, <2>2, <3>1 DEF Command!Aliased, Command!same_existing_identity
    <3> QED
      BY <3>1, <3>2 DEF Command!Identity
  <2> QED
    BY <2>2 DEF Quiet, Stages, Walks, Compared
<1> QED
  BY <1>1, <1>2, <1>3, <1>4 DEF Compared, Command!Metrics

(* What a rename brings under the lock's name: nobody has seen it.         *)
LEMMA RenamedLock ==
  ASSUME Typed, NEW p \in Command!Processes, NEW r, Moves(p, r), Renames(p, r)
  PROVE  \E kind \in {"lock", "report"} :
           /\ dir'["lock"] \in {dir["lock"], Command!New(p, kind)} /\ folding' = folding
           /\ kind = "lock" => proc[p].pc = "rename" /\ r.pc = "recheck"
           /\ kind = "report" => proc[p].pc = "rename report" /\ r.pc = "done"
           /\ kind = "report" /\ dir'["lock"] # dir["lock"] =>
                (Command!Fold(Command!Metrics(p)) = "lock" /\ dir["lock"] # Command!Directory("lock"))
<1>0. "lock" \in Command!Names
  BY DEF Command!Names
<1>1. CASE Walks(p, r, "rename", "recheck") /\ Command!persist_temp("lock", Command!New(p, "lock"))
  <2>1. Command!New(p, "lock") \in Entries
    BY NewIsEntry
  <2>2. dir'["lock"] \in {dir["lock"], Command!New(p, "lock")} /\ folding' = folding
    BY <1>0, <1>1, <2>1, Renamed
  <2> QED
    BY <1>1, <2>2 DEF Walks
<1>2. CASE Walks(p, r, "rename report", "done") /\ Command!persist_temp(Command!Metrics(p), Command!New(p, "report"))
  <2>1. Command!New(p, "report") \in Entries
    BY NewIsEntry
  <2>2. dir'["lock"] \in {dir["lock"], Command!New(p, "report")} /\ folding' = folding
    BY <1>0, <1>2, <2>1, Renamed
  <2>3. dir'["lock"] # dir["lock"] => Command!Fold(Command!Metrics(p)) = "lock"
    BY <1>0, <1>2, <2>1, Renamed
  <2>4. Command!Fold(Command!Metrics(p)) = "lock" => dir["lock"] # Command!Directory("lock")
    BY <1>0, <1>2, <2>1, Renamed
  <2> QED
    BY <1>2, <2>2, <2>3, <2>4 DEF Walks
<1> QED
  BY <1>1, <1>2 DEF Renames

(* Every step spares the lock, or the power has failed.                    *)
LEMMA NextSpared ==
  Distinguished /\ Typed /\ (down \/ LockIsSpared) /\ [Command!Next]_(Command!vars) => (down \/ LockIsSpared)'
<1> SUFFICES ASSUME Distinguished, Typed, down \/ LockIsSpared, [Command!Next]_(Command!vars), ~down'
             PROVE  LockIsSpared'
  OBVIOUS
<1>0. "lock" \in Command!Names
  BY DEF Command!Names
<1>1. ASSUME NEW p \in Command!Processes, NEW r, Moves(p, r), Quiet(p, r) \/ Stages(p, r)
      PROVE  LockIsSpared'
  <2>1. LockIsSpared /\ UNCHANGED <<dir, folding>>
    BY <1>1 DEF Moves, Quiet, Stages, Command!SameFiles, Command!Stage
  <2>2. /\ \A q \in Command!Processes : q # p => proc'[q] = proc[q]
        /\ proc'[p] = r /\ r.lock \in {proc[p].lock, Command!Missing, dir["lock"]}
    BY <1>1, Remembered
  <2>3. \A e : Unpublished(e) => Unpublished(e)'
    <3> SUFFICES ASSUME NEW e, Unpublished(e) PROVE Unpublished(e)'
      OBVIOUS
    <3>1. \A q \in Command!Processes :
           /\ proc'[q].pc \in BeforeLock => e # Command!New(q, "lock")
           /\ proc'[q].pc \in BeforeReport => e # Command!New(q, "report")
      BY <1>1, StaysUnpublished
    <3> QED
      BY <3>1 DEF Unpublished
  <2>4. Unpublished(Command!Missing) /\ Unpublished(dir["lock"]) /\ \A q \in Command!Processes : Unpublished(proc[q].lock)
    BY <2>1, NewIsNew DEF LockIsSpared, Unpublished
  <2>5. \A q \in Command!Processes : proc'[q].lock \in {proc[q].lock, Command!Missing, dir["lock"]}
    BY <2>2
  <2>6. \A q \in Command!Processes : Unpublished(proc'[q].lock)
    BY <2>4, <2>5
  <2>7. Unpublished(dir["lock"])'
    BY <2>1, <2>3, <2>4 DEF Unpublished
  <2>8. \A q \in Command!Processes : Unpublished(proc[q].lock)'
    <3> SUFFICES ASSUME NEW q \in Command!Processes PROVE Unpublished(proc[q].lock)'
      OBVIOUS
    <3>1. Unpublished(proc'[q].lock)
      BY <2>6
    <3> QED
      BY <1>1, <3>1, StaysUnpublished DEF Unpublished
  <2>9. \A q \in Command!Processes : Compared(q)'
    <3> SUFFICES ASSUME NEW q \in Command!Processes PROVE Compared(q)'
      OBVIOUS
    <3>1. CASE q = p
      BY <1>1, <2>1, <3>1, QuietCompares DEF LockIsSpared
    <3>2. CASE q # p
      BY <2>1, <2>2, <3>2 DEF LockIsSpared, Compared, Command!Metrics
    <3> QED
      BY <3>1, <3>2
  <2> QED
    BY <2>7, <2>8, <2>9 DEF LockIsSpared
<1>2. ASSUME NEW p \in Command!Processes, NEW r, Moves(p, r), Renames(p, r)
      PROVE  LockIsSpared'
  <2>1. LockIsSpared
    BY <1>2 DEF Moves
  <2>2. PICK kind \in {"lock", "report"} :
           /\ dir'["lock"] \in {dir["lock"], Command!New(p, kind)} /\ folding' = folding
           /\ kind = "lock" => proc[p].pc = "rename" /\ r.pc = "recheck"
           /\ kind = "report" => proc[p].pc = "rename report" /\ r.pc = "done"
    BY <1>2, RenamedLock
  <2>3. /\ \A q \in Command!Processes : q # p => proc'[q] = proc[q]
        /\ proc'[p] = r /\ r.lock = proc[p].lock
    BY <1>2, Remembered DEF Renames, Walks
  <2>4. \A e : Unpublished(e) => e # Command!New(p, kind)
    BY <2>2 DEF Unpublished, BeforeReport, BeforeLock
  <2>5. \A q \in Command!Processes : Unpublished(proc[q].lock)'
    <3> SUFFICES ASSUME NEW q \in Command!Processes PROVE Unpublished(proc[q].lock)'
      OBVIOUS
    <3>1. Unpublished(proc'[q].lock)
      BY <2>1, <2>3 DEF LockIsSpared
    <3> QED
      BY <1>2, <3>1, StaysUnpublished DEF Unpublished
  <2>6. Unpublished(dir["lock"])'
    <3>1. CASE dir'["lock"] = dir["lock"]
      <4>1. Unpublished(dir'["lock"])
        BY <2>1, <3>1 DEF LockIsSpared
      <4> QED
        BY <1>2, <4>1, StaysUnpublished DEF Unpublished
    <3>2. CASE dir'["lock"] = Command!New(p, kind)
      <4>1. \A q \in Command!Processes : q # p => Command!New(p, kind) # Command!New(q, "lock") /\ Command!New(p, kind) # Command!New(q, "report")
        BY NewIsNew
      <4>2. proc'[p].pc \in BeforeLock => Command!New(p, kind) # Command!New(p, "lock")
        BY <2>2, <2>3 DEF BeforeLock
      <4>3. proc'[p].pc \in BeforeReport => Command!New(p, kind) # Command!New(p, "report")
        <5>1. kind = "lock" => Command!New(p, kind) # Command!New(p, "report")
          BY NewIsNew
        <5> QED
          BY <2>2, <2>3, <5>1 DEF BeforeReport, BeforeLock
      <4> QED
        BY <3>2, <4>1, <4>2, <4>3 DEF Unpublished
    <3> QED
      BY <2>2, <3>1, <3>2
  <2>7. \A q \in Command!Processes : Compared(q)'
    <3> SUFFICES ASSUME NEW q \in Command!Processes PROVE Compared(q)'
      OBVIOUS
    <3>1. Compared(q) /\ proc[q].lock # Command!New(p, kind)
      BY <2>1, <2>4 DEF LockIsSpared
    <3>2. CASE q = p
      BY <2>1, <2>2, <2>3, <3>2 DEF LockIsSpared, Compared, Command!Metrics
    <3>3. CASE q # p
      BY <2>2, <2>3, <3>1, <3>3 DEF Compared, Command!Metrics
    <3> QED
      BY <3>2, <3>3
  <2> QED
    BY <2>5, <2>6, <2>7 DEF LockIsSpared
<1>3. CASE Command!Foreign
  <2>1. PICK e \in {Command!Missing, <<"symlink">>} \cup {Command!Directory(n) : n \in Command!Names} :
          /\ \A n \in Command!Names : dir'[n] \in {dir[n], e}
          /\ dir'["lock"] # dir["lock"] => e \in {Command!Missing, <<"symlink">>, Command!Directory("lock")}
          /\ ~down /\ UNCHANGED <<folding, proc>>
    BY <1>3, Replaced
  <2>2. Unpublished(e)
    BY NewIsNew DEF Unpublished
  <2>3. LockIsSpared /\ dir'["lock"] \in {dir["lock"], e}
    BY <1>0, <2>1
  <2>4. Unpublished(dir["lock"])'
    BY <2>1, <2>2, <2>3 DEF LockIsSpared, Unpublished
  <2>5. \A q \in Command!Processes : Unpublished(proc[q].lock)'
    BY <2>1, <2>3 DEF LockIsSpared, Unpublished
  <2>6. \A q \in Command!Processes : Compared(q)'
    BY <2>1, <2>3 DEF LockIsSpared, Compared, Command!Metrics
  <2> QED
    BY <2>4, <2>5, <2>6 DEF LockIsSpared
<1>4. CASE Command!PowerFails
  BY <1>4 DEF Command!PowerFails
<1>5. CASE UNCHANGED Command!vars
  BY <1>5 DEF Command!vars, LockIsSpared, Unpublished, Compared, Command!Metrics
<1> QED
  BY <1>1, <1>2, <1>3, <1>4, <1>5, Cases

(* The step that brings a report under the lock's name finds no lock of its *)
(* command there.                                                          *)
LEMMA StepSpares ==
  Distinguished /\ Typed /\ (down \/ LockIsSpared) /\ [Command!Next]_(Command!vars) => [Command!SparesTheLock]_(Command!vars)
<1> SUFFICES ASSUME Distinguished, Typed, down \/ LockIsSpared, [Command!Next]_(Command!vars),
                    NEW q \in Command!Processes,
                    ~down', dir'["lock"] = Command!New(q, "report"), dir["lock"] # dir'["lock"]
             PROVE  dir["lock"] # proc[q].lock
  BY DEF Command!SparesTheLock
<1>0. "lock" \in Command!Names
  BY DEF Command!Names
<1>1. ASSUME NEW p \in Command!Processes, NEW r, Moves(p, r), Quiet(p, r) \/ Stages(p, r)
      PROVE  FALSE
  BY <1>1 DEF Quiet, Stages, Command!SameFiles, Command!Stage
<1>2. ASSUME NEW p \in Command!Processes, NEW r, Moves(p, r), Renames(p, r)
      PROVE  dir["lock"] # proc[q].lock
  <2>1. PICK kind \in {"lock", "report"} :
           /\ dir'["lock"] \in {dir["lock"], Command!New(p, kind)}
           /\ kind = "report" => proc[p].pc = "rename report"
           /\ kind = "report" /\ dir'["lock"] # dir["lock"] =>
                (Command!Fold(Command!Metrics(p)) = "lock" /\ dir["lock"] # Command!Directory("lock"))
    BY <1>2, RenamedLock
  <2>2. Command!New(p, kind) = Command!New(q, "report")
    BY <2>1
  <2>3. kind = "report" /\ p = q
    BY <2>2, NewIsNew
  <2>4. Command!Fold(Command!Metrics(q)) = "lock" /\ dir["lock"] # Command!Directory("lock") /\ proc[q].pc = "rename report"
    BY <2>1, <2>3
  <2>5. Compared(q)
    BY <1>2 DEF Moves, LockIsSpared
  <2>6. Command!Metrics(q) # "lock"
    BY <2>4, <2>5 DEF Compared
  <2>7. folding /\ Command!Metrics(q) = "LOCK"
    BY <2>4, <2>6 DEF Command!Fold
  <2> QED
    BY <2>4, <2>5, <2>7 DEF Compared
<1>3. CASE Command!Foreign
  <2>1. PICK e \in {Command!Missing, <<"symlink">>} \cup {Command!Directory(n) : n \in Command!Names} :
          \A n \in Command!Names : dir'[n] \in {dir[n], e}
    BY <1>3, Replaced
  <2>2. e = Command!New(q, "report")
    BY <1>0, <2>1
  <2> QED
    BY <2>2, NewIsNew
<1>4. CASE Command!PowerFails
  BY <1>4 DEF Command!PowerFails
<1>5. CASE UNCHANGED Command!vars
  BY <1>5 DEF Command!vars
<1> QED
  BY <1>1, <1>2, <1>3, <1>4, <1>5, Cases

(* The other components leave what the command uses alone.                 *)
LEMMA LockNow ==
  ASSUME [ProjectNext]_projectVars, which = "command" \/ which' = "command"
  PROVE  which = "command" /\ which' = "command" /\ [Command!Next]_(Command!vars)
BY DEF ProjectNext, CopyNext, CopyEnded, CommandNext, PreparationNext, ResolutionNext, UpdateNext, projectVars,
   commandOnly, Command!vars

(* The invariants, in the composition.                                     *)
LEMMA LockInit == ProjectInit => (which = "command" => Typed /\ NamedIsSynced /\ (down \/ LockIsSpared))
<1>1. Distinguished
  BY CommandAssumption DEF Distinguished, Command!Processes
<1> QED
  BY <1>1, InitTyped, InitNamed, InitSpared DEF ProjectInit

LEMMA LockStep ==
    [ProjectNext]_projectVars /\ (which = "command" => Typed /\ NamedIsSynced /\ (down \/ LockIsSpared))
        => (which = "command" => Typed /\ NamedIsSynced /\ (down \/ LockIsSpared))'
<1>1. Distinguished
  BY CommandAssumption DEF Distinguished, Command!Processes
<1> QED
  BY <1>1, LockNow, NextTyped, NextNamed, NextSpared

(***************************************************************************)
(* What is found under the lock's name is whole, for any number of commands *)
(* and programs and at any moment the power fails: atomic_write syncs the  *)
(* temporary file before it renames it, and the rename is the only way a   *)
(* file gets a name.                                                       *)
(***************************************************************************)
THEOREM WholeLock == ProjectSpec => []LockIsWhole
<1>1. (which = "command" => Typed /\ NamedIsSynced /\ (down \/ LockIsSpared)) => LockIsWhole
  BY DEF NamedIsSynced, LockIsWhole, Command!LockIsWhole, Ready, Command!Names
<1> QED
  BY <1>1, LockInit, LockStep, PTL DEF ProjectSpec

(***************************************************************************)
(* The report of a command does not replace the lock that this command     *)
(* published or found up to date, for any commands, however names fold and *)
(* whatever other programs put into the directory: lock compares the       *)
(* identities of the two destinations once more after it published, and    *)
(* what is published afterwards under the lock's name is not its lock.     *)
(***************************************************************************)
THEOREM ReportsSpare == ProjectSpec => ReportsSpareTheLock
<1>1. Distinguished
  BY CommandAssumption DEF Distinguished, Command!Processes
<1>2. (which = "command" => Typed /\ NamedIsSynced /\ (down \/ LockIsSpared)) /\ [ProjectNext]_projectVars
        => [which = "command" => Command!SparesTheLock]_projectVars
  <2> SUFFICES ASSUME Typed, down \/ LockIsSpared, [ProjectNext]_projectVars, which = "command"
               PROVE  Command!SparesTheLock \/ UNCHANGED projectVars
    OBVIOUS
  <2>1. [Command!SparesTheLock]_(Command!vars)
    BY <1>1, LockNow, StepSpares
  <2>2. CASE UNCHANGED Command!vars
    BY <2>2 DEF Command!vars, Command!SparesTheLock
  <2> QED
    BY <2>1, <2>2
<1> QED
  BY <1>2, LockInit, LockStep, PTL DEF ProjectSpec, ReportsSpareTheLock

-----------------------------------------------------------------------------
(* The preparation of a repository (RepositoryPreparation).                *)

ReleaseNames == {p.name : p \in Preparation!Packages}
Plans == [artifact : Preparation!Artifacts \cup {None}, cached : Bytes \cup {None}]
AcquiredArtifacts == [artifact : Preparation!Artifacts, name : ReleaseNames, bytes : Bytes]

(* What the preparation assumes of its selections and repositories.        *)
PreparationConfigured ==
    /\ SelectionLists \subseteq Seq(Preparation!Packages)
    /\ \A p \in Preparation!Packages : Len(p.visible) \in Nat /\ DOMAIN Repositories \subseteq DOMAIN p.offers

(* The local states of a call.                                             *)
CallStates ==
    [pc : {"preflight", "acquire", "fetch", "commit", "done", "failed"}, plans : Seq(Plans), failed : BOOLEAN,
     artifacts : Seq(AcquiredArtifacts), body : Bytes \cup {None}]

(* The shape of the state.                                                 *)
PreparationTyped ==
    /\ selection \in [Calls -> SelectionLists]
    /\ bound \in [Preparation!Descriptors -> Bytes \cup {None}]
    /\ call \in [Calls -> CallStates]

(* The cache never holds, under a descriptor, an archive of another release. *)
BoundIsRight == \A d \in Preparation!Descriptors : bound[d] # None => d[2] \in bound[d]

(* The preflight planned the packages of the selection in their order,     *)
(* each with the artifact its first able repository offers; what the       *)
(* cache had for one is of that release; and a package without an          *)
(* artifact is remembered as a failure.                                    *)
PlansAreRight(c) ==
    /\ Len(call[c].plans) <= Len(selection[c])
    /\ \A i \in 1 .. Len(call[c].plans) :
          /\ call[c].plans[i].artifact = Preparation!plan_selected_artifact(selection[c][i])
          /\ call[c].plans[i].cached # None => selection[c][i].name \in call[c].plans[i].cached
          /\ call[c].plans[i].artifact = None => call[c].failed

(* Where a call carries out its plans.                                     *)
Acquiring == {"acquire", "fetch", "commit"}

(* A call that carries out its plans has one for each package, and what    *)
(* it acquired so far is what they say.                                    *)
ArtifactsAreRight(c) ==
    /\ ~ call[c].failed /\ Len(call[c].plans) = Len(selection[c])
    /\ Len(call[c].artifacts) <= Len(call[c].plans)
    /\ \A i \in 1 .. Len(call[c].artifacts) :
          /\ call[c].artifacts[i].artifact = call[c].plans[i].artifact
          /\ call[c].artifacts[i].name = selection[c][i].name
          /\ call[c].artifacts[i].name \in call[c].artifacts[i].bytes

(* What is true of each call.                                              *)
PreparationCall(c) ==
    /\ call[c].pc = "preflight" => call[c].artifacts = <<>>
    /\ PlansAreRight(c)
    /\ call[c].pc \in Acquiring => ArtifactsAreRight(c)
    /\ call[c].pc \in {"fetch", "commit"} => Len(call[c].artifacts) < Len(call[c].plans)
    /\ call[c].pc = "commit" => call[c].body \in Bytes

(* The invariant: the repository is some call's selection, because every   *)
(* call's artifacts are its own.                                           *)
PreparationInvariant == BoundIsRight /\ Preparation!PublishedIsTheSelection /\ \A c \in Calls : PreparationCall(c)

-----------------------------------------------------------------------------
(* A set of indices that is not empty has a least one.                     *)
LEMMA LeastIndex ==
  ASSUME NEW S \in SUBSET Nat, S # {}
  PROVE  \E i \in S : \A j \in S : i <= j
<1> DEFINE R == OpToRel(<, Nat)
<1>0. IsWellFoundedOn(R, Nat)
  BY NatLessThanWellFounded
<1>3. \A i, j \in Nat : <<j, i>> \in R <=> j < i
  BY DEF OpToRel
<1> HIDE DEF R
<1>1. PICK i \in S : \A j \in S : ~ (<<j, i>> \in R)
  BY <1>0, WFMin
<1>2. ASSUME NEW j \in S PROVE i <= j
  <2>1. i \in Nat /\ j \in Nat
    OBVIOUS
  <2>2. ~ (j < i)
    BY <1>1, <1>3, <2>1
  <2> QED
    BY <2>1, <2>2
<1> QED
  BY <1>2

(* plan_selected_artifact finds the artifact of the first repository that  *)
(* can give one.                                                           *)
LEMMA PlanIsWanted ==
  ASSUME PreparationConfigured, NEW p \in Preparation!Packages, Preparation!plan_selected_artifact(p) # None
  PROVE  Preparation!Wanted(p, Preparation!plan_selected_artifact(p)) /\ Preparation!plan_selected_artifact(p) \in Preparation!Artifacts
<1> DEFINE good == {i \in 1 .. Len(p.visible) : Preparation!Candidate(p, p.visible[i])}
           first == CHOOSE i \in good : \A j \in good : i <= j
           r == p.visible[first]
           a == Preparation!plan_selected_artifact(p)
<1>1. good # {} /\ Preparation!FirstRepository(p) = r /\ a = Preparation!unique_artifact(p.offers[r])
  BY DEF Preparation!plan_selected_artifact, Preparation!FirstRepository
<1>2. good \subseteq Nat /\ Len(p.visible) \in Nat
  BY DEF PreparationConfigured
<1>3. first \in good /\ \A j \in good : first <= j
  <2> HIDE DEF good
  <2> QED
    BY <1>1, <1>2, LeastIndex
<1> HIDE DEF first
<1>4. first \in 1 .. Len(p.visible) /\ Preparation!Candidate(p, r) /\ \A j \in 1 .. (first - 1) : ~ Preparation!Candidate(p, p.visible[j])
  BY <1>2, <1>3
<1>5. a \in p.offers[r] /\ p.offers[r] = {a}
  BY <1>1 DEF Preparation!unique_artifact
<1>6. r \in DOMAIN p.offers
  BY <1>4 DEF Preparation!Candidate, PreparationConfigured
<1> HIDE DEF a, r
<1>7. a \in Preparation!Artifacts
  BY <1>5, <1>6 DEF Preparation!Artifacts
<1>8. Preparation!Wanted(p, a)
  BY <1>4, <1>5 DEF Preparation!Wanted, r
<1> QED
  BY <1>7, <1>8 DEF a

-----------------------------------------------------------------------------
(* The invariant holds at first.                                           *)
LEMMA PreparationInit == PreparationConfigured /\ Preparation!Init => PreparationTyped /\ PreparationInvariant
<1> SUFFICES ASSUME PreparationConfigured, Preparation!Init PROVE PreparationTyped /\ PreparationInvariant
  OBVIOUS
<1>1. Preparation!Idle \in CallStates
  BY DEF Preparation!Idle, CallStates
<1>2. PreparationTyped
  BY <1>1 DEF PreparationTyped, Preparation!Init
<1>3. ASSUME NEW c \in Calls PROVE PreparationCall(c)
  <2>1. call[c] = Preparation!Idle /\ selection[c] \in Seq(Preparation!Packages)
    BY DEF Preparation!Init, PreparationConfigured
  <2>2. Len(selection[c]) \in Nat
    BY <2>1
  <2> QED
    BY <2>1, <2>2 DEF Preparation!Idle, PreparationCall, PlansAreRight, Acquiring
<1> QED
  BY <1>2, <1>3 DEF PreparationInvariant, BoundIsRight, Preparation!PublishedIsTheSelection, Preparation!Init

(* What each step is shown to keep.                                        *)
PreparationKeeps == PreparationTyped' /\ PreparationInvariant'

(* What the step of one call leaves to show.                               *)
LEMMA OneCall ==
  ASSUME PreparationTyped, PreparationInvariant, NEW c \in Calls, UNCHANGED selection,
         NEW new \in CallStates, call' = [call EXCEPT ![c] = new], PreparationCall(c)',
         bound' \in [Preparation!Descriptors -> Bytes \cup {None}], BoundIsRight', Preparation!PublishedIsTheSelection'
  PROVE  PreparationKeeps
<1>1. call' \in [Calls -> CallStates]
  BY DEF PreparationTyped
<1>2. ASSUME NEW d \in Calls PROVE PreparationCall(d)'
  <2>1. CASE d # c
    <3>1. call'[d] = call[d] /\ PreparationCall(d)
      BY <2>1 DEF PreparationTyped, PreparationInvariant
    <3> QED
      BY <3>1 DEF PreparationCall, PlansAreRight, ArtifactsAreRight
  <2> QED
    BY <2>1
<1> QED
  BY <1>1, <1>2 DEF PreparationKeeps, PreparationTyped, PreparationInvariant

(* The repository stays what it was while nobody publishes one.            *)
LEMMA ViewKept ==
  ASSUME Preparation!PublishedIsTheSelection, UNCHANGED <<selection, view>>
  PROVE  Preparation!PublishedIsTheSelection'
BY DEF Preparation!PublishedIsTheSelection

(* The facts about a call that its steps start from.                       *)
LEMMA CallNow ==
  ASSUME PreparationConfigured, PreparationTyped, PreparationInvariant, NEW c \in Calls
  PROVE  /\ call[c] \in CallStates /\ PreparationCall(c)
         /\ selection[c] \in Seq(Preparation!Packages) /\ Len(selection[c]) \in Nat
         /\ call[c].plans \in Seq(Plans) /\ Len(call[c].plans) \in Nat
         /\ call[c].artifacts \in Seq(AcquiredArtifacts) /\ Len(call[c].artifacts) \in Nat
         /\ \A i \in 1 .. Len(selection[c]) : selection[c][i] \in Preparation!Packages
<1>1. call[c] \in CallStates /\ PreparationCall(c) /\ selection[c] \in Seq(Preparation!Packages)
  BY DEF PreparationTyped, PreparationInvariant, PreparationConfigured
<1>2. call[c].plans \in Seq(Plans) /\ call[c].artifacts \in Seq(AcquiredArtifacts)
  BY <1>1 DEF CallStates
<1> QED
  BY <1>1, <1>2

(* A descriptor of a wanted artifact is one the cache knows.               *)
LEMMA DescriptorKnown ==
  ASSUME NEW p \in Preparation!Packages, NEW a \in Preparation!Artifacts
  PROVE  Preparation!Descriptor(a, p) \in Preparation!Descriptors /\ Preparation!Descriptor(a, p)[2] = p.name
BY DEF Preparation!Descriptor, Preparation!Descriptors

(* One more package is planned and probed.                                 *)
LEMMA PreflightKeeps ==
  ASSUME PreparationConfigured, PreparationTyped, PreparationInvariant, NEW c \in Calls, Preparation!Preflight(c)
  PROVE  PreparationKeeps
<1> DEFINE n == Len(call[c].plans)
           p == selection[c][n + 1]
           a == Preparation!plan_selected_artifact(p)
           found(probed) == IF a = None \/ ~ probed THEN None ELSE bound[Preparation!Descriptor(a, p)]
           able(probed) == /\ a # None /\ probed
                           /\ found(probed) # None \/ (~ offline[c] /\ Preparation!validate_http_locator(a))
<1>0. PICK probed \in BOOLEAN :
        call' = [call EXCEPT ![c].plans = Append(@, [artifact |-> a, cached |-> found(probed)]),
                             ![c].failed = @ \/ ~ able(probed)]
  BY DEF Preparation!Preflight, Preparation!Remaining
<1> DEFINE cached == found(probed)
           capable == able(probed)
           planned == [artifact |-> a, cached |-> cached]
           new == [call[c] EXCEPT !.plans = Append(@, planned), !.failed = @ \/ ~ capable]
<1>1. /\ call[c].pc = "preflight" /\ n < Len(selection[c]) /\ UNCHANGED <<selection, view, bound>>
      /\ call' = [call EXCEPT ![c].plans = Append(@, planned), ![c].failed = @ \/ ~ capable]
  BY <1>0 DEF Preparation!Preflight, Preparation!SameCall
<1>2. /\ call[c] \in CallStates /\ PreparationCall(c)
      /\ selection[c] \in Seq(Preparation!Packages) /\ Len(selection[c]) \in Nat
      /\ call[c].plans \in Seq(Plans) /\ n \in Nat
  BY CallNow
<1>3. p \in Preparation!Packages
  BY <1>1, <1>2
<1>4. a # None => a \in Preparation!Artifacts
  BY <1>3, PlanIsWanted
<1>5. cached \in Bytes \cup {None} /\ (cached # None => p.name \in cached)
  <2>1. CASE a = None \/ ~ probed
    BY <2>1
  <2>2. CASE a # None /\ probed
    <3> HIDE DEF a, p
    <3>1. Preparation!Descriptor(a, p) \in Preparation!Descriptors /\ Preparation!Descriptor(a, p)[2] = p.name
      BY <1>3, <1>4, <2>2, DescriptorKnown
    <3> QED
      BY <2>2, <3>1 DEF PreparationTyped, PreparationInvariant, BoundIsRight
  <2> QED
    BY <2>1, <2>2
<1> HIDE DEF a, p, cached
<1>6. planned \in Plans
  BY <1>4, <1>5 DEF Plans
<1>7. /\ a = None => ~ capable
      /\ planned.artifact = a /\ planned.cached = cached
      /\ p = selection[c][n + 1] /\ a = Preparation!plan_selected_artifact(selection[c][n + 1])
  BY DEF a, p
<1> HIDE DEF capable, found, able
<1>8. /\ new \in CallStates /\ new.pc = call[c].pc /\ new.artifacts = call[c].artifacts
      /\ new.plans = Append(call[c].plans, planned) /\ new.failed = (call[c].failed \/ ~ capable)
      /\ call' = [call EXCEPT ![c] = new]
  <2>1. Append(call[c].plans, planned) \in Seq(Plans)
    BY <1>2, <1>6
  <2>2. new \in CallStates
    BY <1>2, <2>1 DEF CallStates
  <2>3. new.pc = call[c].pc /\ new.artifacts = call[c].artifacts
      /\ new.plans = Append(call[c].plans, planned) /\ new.failed = (call[c].failed \/ ~ capable)
    BY <1>2 DEF CallStates
  <2>4. call' = [call EXCEPT ![c] = new]
    BY <1>1 DEF PreparationTyped
  <2> QED
    BY <2>2, <2>3, <2>4
<1> HIDE DEF new, planned
<1>9. PreparationCall(c)'
  <2>1. call'[c] = new
    BY <1>8 DEF PreparationTyped
  <2>2. /\ Len(new.plans) = n + 1 /\ new.plans[n + 1] = planned
        /\ \A i \in 1 .. n : new.plans[i] = call[c].plans[i]
    BY <1>2, <1>6, <1>8
  <2>3. PlansAreRight(c)
    BY <1>2 DEF PreparationCall
  <2>4. ASSUME NEW i \in 1 .. (n + 1)
        PROVE  /\ new.plans[i].artifact = Preparation!plan_selected_artifact(selection[c][i])
               /\ new.plans[i].cached # None => selection[c][i].name \in new.plans[i].cached
               /\ new.plans[i].artifact = None => new.failed
    <3>1. CASE i = n + 1
      BY <3>1, <2>2, <1>5, <1>7, <1>8
    <3>2. CASE i \in 1 .. n
      BY <3>2, <2>2, <2>3, <1>8 DEF PlansAreRight
    <3>3. i = n + 1 \/ i \in 1 .. n
      BY <1>2
    <3> QED
      BY <3>1, <3>2, <3>3
  <2>6. call'[c].plans = new.plans /\ call'[c].failed = new.failed /\ selection'[c] = selection[c]
    BY <1>1, <2>1
  <2>7. n + 1 <= Len(selection[c])
    BY <1>1, <1>2
  <2>5. PlansAreRight(c)'
    BY <2>2, <2>4, <2>6, <2>7 DEF PlansAreRight
  <2> QED
    BY <1>1, <1>2, <1>8, <2>1, <2>5 DEF PreparationCall, Acquiring
<1>10. bound' \in [Preparation!Descriptors -> Bytes \cup {None}] /\ BoundIsRight' /\ Preparation!PublishedIsTheSelection'
  BY <1>1, ViewKept DEF PreparationTyped, PreparationInvariant, BoundIsRight
<1> QED
  BY <1>1, <1>8, <1>9, <1>10, OneCall

(* A step of a call that only moves it on.                                 *)
LEMMA MovesOn ==
  ASSUME PreparationConfigured, PreparationTyped, PreparationInvariant, NEW c \in Calls,
         UNCHANGED <<selection, view, bound>>,
         NEW pc \in {"acquire", "fetch", "commit", "done", "failed"}, NEW body \in Bytes \cup {None},
         call' = [call EXCEPT ![c].pc = pc, ![c].body = body],
         pc \in Acquiring => ArtifactsAreRight(c),
         pc \in {"fetch", "commit"} => Len(call[c].artifacts) < Len(call[c].plans),
         pc = "commit" => body \in Bytes
  PROVE  PreparationKeeps
<1> DEFINE new == [call[c] EXCEPT !.pc = pc, !.body = body]
<1>1. call[c] \in CallStates /\ PreparationCall(c)
  BY CallNow
<1>2. /\ new \in CallStates /\ new.pc = pc /\ new.body = body /\ new.plans = call[c].plans
      /\ new.artifacts = call[c].artifacts /\ new.failed = call[c].failed
  BY <1>1 DEF CallStates
<1>3. call' = [call EXCEPT ![c] = new] /\ call'[c] = new
  BY DEF PreparationTyped
<1> HIDE DEF new
<1>4. PlansAreRight(c)' /\ (ArtifactsAreRight(c) => ArtifactsAreRight(c)')
  <2>1. /\ call'[c].plans = call[c].plans /\ call'[c].artifacts = call[c].artifacts
        /\ call'[c].failed = call[c].failed /\ selection' = selection
    BY <1>2, <1>3
  <2>2. PlansAreRight(c)'
    <3>1. PlansAreRight(c)
      BY <1>1 DEF PreparationCall
    <3> QED
      BY <2>1, <3>1 DEF PlansAreRight
  <2>3. ArtifactsAreRight(c) => ArtifactsAreRight(c)'
    BY <2>1 DEF ArtifactsAreRight
  <2> QED
    BY <2>2, <2>3
<1>5. PreparationCall(c)'
  BY <1>2, <1>3, <1>4 DEF PreparationCall
<1>6. bound' \in [Preparation!Descriptors -> Bytes \cup {None}] /\ BoundIsRight' /\ Preparation!PublishedIsTheSelection'
  BY ViewKept DEF PreparationTyped, PreparationInvariant, BoundIsRight
<1> QED
  BY <1>2, <1>3, <1>5, <1>6, OneCall

(* The preflight ends, with a failure if any package had none.             *)
LEMMA PreflightEndsKeeps ==
  ASSUME PreparationConfigured, PreparationTyped, PreparationInvariant, NEW c \in Calls, Preparation!PreflightEnds(c)
  PROVE  PreparationKeeps
<1> DEFINE pc == IF call[c].failed THEN "failed" ELSE "acquire"
<1>1. /\ call[c].pc = "preflight" /\ Len(call[c].plans) = Len(selection[c]) /\ UNCHANGED <<selection, view, bound>>
      /\ call' = [call EXCEPT ![c].pc = pc]
  BY DEF Preparation!PreflightEnds, Preparation!SameCall
<1>2. call[c] \in CallStates /\ PreparationCall(c) /\ Len(call[c].plans) \in Nat
  BY CallNow
<1>3. call' = [call EXCEPT ![c].pc = pc, ![c].body = call[c].body] /\ call[c].body \in Bytes \cup {None}
  BY <1>1, <1>2 DEF PreparationTyped, CallStates
<1>4. pc = "acquire" => ArtifactsAreRight(c)
  BY <1>1, <1>2 DEF PreparationCall, ArtifactsAreRight
<1>5. pc \in {"failed", "acquire"}
  OBVIOUS
<1> HIDE DEF pc
<1> QED
  BY <1>1, <1>3, <1>4, <1>5, MovesOn DEF Acquiring

(* An artifact is added for the next package.                              *)
LEMMA AddKeeps ==
  ASSUME PreparationConfigured, PreparationTyped, PreparationInvariant, NEW c \in Calls,
         call[c].pc \in Acquiring, Len(call[c].artifacts) < Len(call[c].plans),
         NEW b \in Bytes, selection[c][Preparation!Place(c)].name \in b,
         NEW new \in CallStates, new.pc = "acquire", new.plans = call[c].plans, new.failed = call[c].failed,
         new.artifacts = Append(call[c].artifacts, Preparation!Acquired(c, b)), call' = [call EXCEPT ![c] = new],
         UNCHANGED <<selection, view>>, bound' \in [Preparation!Descriptors -> Bytes \cup {None}], BoundIsRight'
  PROVE  PreparationKeeps
<1> DEFINE n == Len(call[c].artifacts)
<1>1. /\ PreparationCall(c) /\ n \in Nat /\ Len(call[c].plans) \in Nat
      /\ call[c].artifacts \in Seq(AcquiredArtifacts)
  BY CallNow
<1>2. ArtifactsAreRight(c) /\ PlansAreRight(c)
  BY <1>1 DEF PreparationCall
<1>3. call'[c] = new
  BY DEF PreparationTyped
<1>4. /\ Preparation!Acquired(c, b).artifact = call[c].plans[n + 1].artifact /\ Preparation!Acquired(c, b).name = selection[c][n + 1].name
      /\ Preparation!Acquired(c, b).bytes = b
  BY DEF Preparation!Acquired, Preparation!Plan, Preparation!Place
<1>5. /\ Len(new.artifacts) = n + 1 /\ new.artifacts[n + 1] = Preparation!Acquired(c, b)
      /\ \A i \in 1 .. n : new.artifacts[i] = call[c].artifacts[i]
  <2> DEFINE s == call[c].artifacts
             x == Preparation!Acquired(c, b)
  <2>1. s \in Seq(AcquiredArtifacts \cup {x})
    BY <1>1
  <2> HIDE DEF s, x
  <2>2. Len(Append(s, x)) = Len(s) + 1 /\ Append(s, x)[Len(s) + 1] = x /\ \A i \in 1 .. Len(s) : Append(s, x)[i] = s[i]
    BY <2>1
  <2> QED
    BY <2>2 DEF s, x
<1>6. ASSUME NEW i \in 1 .. (n + 1)
      PROVE  /\ new.artifacts[i].artifact = call[c].plans[i].artifact
             /\ new.artifacts[i].name = selection[c][i].name
             /\ new.artifacts[i].name \in new.artifacts[i].bytes
  <2>1. CASE i = n + 1
    BY <2>1, <1>4, <1>5 DEF Preparation!Place
  <2>2. CASE i \in 1 .. n
    BY <2>2, <1>2, <1>5 DEF ArtifactsAreRight
  <2> QED
    BY <1>1, <2>1, <2>2
<1>7. /\ call'[c].plans = call[c].plans /\ call'[c].failed = call[c].failed /\ selection'[c] = selection[c]
      /\ call'[c].artifacts = new.artifacts /\ call'[c].pc = "acquire"
  BY <1>3
<1>8. n + 1 <= Len(call[c].plans)
  BY <1>1
<1>9. ArtifactsAreRight(c)'
  BY <1>2, <1>5, <1>6, <1>7, <1>8 DEF ArtifactsAreRight
<1>10. PlansAreRight(c)'
  BY <1>2, <1>7 DEF PlansAreRight
<1>11. PreparationCall(c)'
  BY <1>7, <1>9, <1>10 DEF PreparationCall
<1>12. Preparation!PublishedIsTheSelection'
  BY ViewKept DEF PreparationInvariant
<1> QED
  BY <1>11, <1>12, OneCall

(* The next package to acquire, its plan and its descriptor.               *)
LEMMA NextPlan ==
  ASSUME PreparationConfigured, PreparationTyped, PreparationInvariant, NEW c \in Calls,
         call[c].pc \in Acquiring, Len(call[c].artifacts) < Len(call[c].plans)
  PROVE  /\ Preparation!Plan(c).artifact \in Preparation!Artifacts /\ Preparation!Plan(c).artifact # None
         /\ Preparation!Key(c) \in Preparation!Descriptors /\ Preparation!Key(c)[2] = selection[c][Preparation!Place(c)].name
         /\ selection[c][Preparation!Place(c)].name \in ReleaseNames
         /\ Preparation!Plan(c).cached \in Bytes \cup {None}
         /\ Preparation!Plan(c).cached # None => selection[c][Preparation!Place(c)].name \in Preparation!Plan(c).cached
         /\ bound[Preparation!Key(c)] \in Bytes \cup {None}
         /\ bound[Preparation!Key(c)] # None => selection[c][Preparation!Place(c)].name \in bound[Preparation!Key(c)]
<1> DEFINE n == Preparation!Place(c)
           p == selection[c][n]
<1>1. /\ PreparationCall(c) /\ call[c].plans \in Seq(Plans) /\ Len(call[c].plans) \in Nat
      /\ Len(call[c].artifacts) \in Nat /\ \A i \in 1 .. Len(selection[c]) : selection[c][i] \in Preparation!Packages
  BY CallNow
<1>2. n \in 1 .. Len(call[c].plans)
  BY <1>1 DEF Preparation!Place
<1>3. /\ Preparation!Plan(c).artifact = Preparation!plan_selected_artifact(p) /\ Preparation!Plan(c).artifact # None
      /\ Preparation!Plan(c).cached # None => p.name \in Preparation!Plan(c).cached
  BY <1>1, <1>2 DEF PreparationCall, PlansAreRight, ArtifactsAreRight, Preparation!Plan
<1>4. p \in Preparation!Packages
  BY <1>1, <1>2 DEF PreparationCall, ArtifactsAreRight
<1>5. Preparation!Plan(c) \in Plans
  BY <1>1, <1>2 DEF Preparation!Plan
<1>6. Preparation!Plan(c).artifact \in Preparation!Artifacts
  BY <1>3, <1>4, PlanIsWanted
<1>7. Preparation!Key(c) \in Preparation!Descriptors /\ Preparation!Key(c)[2] = p.name
  BY <1>4, <1>6, DescriptorKnown DEF Preparation!Key
<1>8. Preparation!Plan(c).cached \in Bytes \cup {None} /\ p.name \in ReleaseNames
  BY <1>4, <1>5 DEF Plans, ReleaseNames
<1> QED
  BY <1>3, <1>6, <1>7, <1>8 DEF PreparationTyped, PreparationInvariant, BoundIsRight

(* A plan is carried out from the cache, or leads to a request.            *)
LEMMA AcquireKeeps ==
  ASSUME PreparationConfigured, PreparationTyped, PreparationInvariant, NEW c \in Calls, Preparation!Acquire(c)
  PROVE  PreparationKeeps
<1> DEFINE b == IF Preparation!Plan(c).artifact = None THEN None
                ELSE IF Preparation!Plan(c).cached # None THEN Preparation!Plan(c).cached ELSE bound[Preparation!Key(c)]
           pc == IF offline[c] THEN "failed" ELSE "fetch"
           new == [call[c] EXCEPT !.artifacts = Append(@, Preparation!Acquired(c, b))]
<1>1. /\ call[c].pc = "acquire" /\ Preparation!Place(c) <= Len(call[c].plans) /\ UNCHANGED <<selection, view, bound>>
      /\ \/ b # None /\ call' = [call EXCEPT ![c].artifacts = Append(@, Preparation!Acquired(c, b))]
         \/ b = None /\ call' = [call EXCEPT ![c].pc = pc]
         \/ call' = [call EXCEPT ![c].pc = "failed"]
  BY DEF Preparation!Acquire, Preparation!Planned, Preparation!SameCall
<1>2. /\ call[c] \in CallStates /\ PreparationCall(c) /\ call[c].artifacts \in Seq(AcquiredArtifacts)
      /\ Len(call[c].artifacts) \in Nat /\ Len(call[c].plans) \in Nat
  BY CallNow
<1>3. Len(call[c].artifacts) < Len(call[c].plans) /\ call[c].pc \in Acquiring
  BY <1>1, <1>2 DEF Preparation!Place, Acquiring
<1>4. /\ b \in Bytes \cup {None} /\ (b # None => selection[c][Preparation!Place(c)].name \in b)
      /\ Preparation!Plan(c).artifact \in Preparation!Artifacts /\ selection[c][Preparation!Place(c)].name \in ReleaseNames
  BY <1>3, NextPlan
<1>5. CASE b # None /\ call' = [call EXCEPT ![c].artifacts = Append(@, Preparation!Acquired(c, b))]
  <2>1. Preparation!Acquired(c, b) \in AcquiredArtifacts
    BY <1>4, <1>5 DEF Preparation!Acquired, AcquiredArtifacts
  <2> HIDE DEF b
  <2>2. Append(call[c].artifacts, Preparation!Acquired(c, b)) \in Seq(AcquiredArtifacts)
    BY <1>2, <2>1
  <2>3. /\ new \in CallStates /\ new.pc = "acquire" /\ new.plans = call[c].plans /\ new.failed = call[c].failed
        /\ new.artifacts = Append(call[c].artifacts, Preparation!Acquired(c, b))
    BY <1>1, <1>2, <2>2 DEF CallStates
  <2>4. call' = [call EXCEPT ![c] = new]
    BY <1>1, <1>5 DEF PreparationTyped
  <2>5. bound' \in [Preparation!Descriptors -> Bytes \cup {None}] /\ BoundIsRight'
    BY <1>1 DEF PreparationTyped, PreparationInvariant, BoundIsRight
  <2> HIDE DEF new
  <2> QED
    BY <1>1, <1>3, <1>4, <1>5, <2>3, <2>4, <2>5, AddKeeps
<1>6. ASSUME NEW to \in {"failed", "fetch"}, call' = [call EXCEPT ![c].pc = to] PROVE PreparationKeeps
  <2>1. call' = [call EXCEPT ![c].pc = to, ![c].body = call[c].body] /\ call[c].body \in Bytes \cup {None}
    BY <1>2, <1>6 DEF PreparationTyped, CallStates
  <2>2. ArtifactsAreRight(c)
    BY <1>2, <1>3 DEF PreparationCall
  <2> QED
    BY <1>1, <1>3, <2>1, <2>2, MovesOn DEF Acquiring
<1> QED
  BY <1>1, <1>5, <1>6

(* The server sends something, or fails.                                   *)
LEMMA FetchKeeps ==
  ASSUME PreparationConfigured, PreparationTyped, PreparationInvariant, NEW c \in Calls, Preparation!Fetch(c)
  PROVE  PreparationKeeps
<1>1. call[c].pc = "fetch" /\ UNCHANGED <<selection, view, bound>>
  BY DEF Preparation!Fetch, Preparation!SameCall
<1>2. call[c] \in CallStates /\ PreparationCall(c)
  BY CallNow
<1>3. ArtifactsAreRight(c) /\ Len(call[c].artifacts) < Len(call[c].plans)
  BY <1>1, <1>2 DEF PreparationCall, Acquiring
<1>4. ASSUME NEW b \in Bytes, call' = [call EXCEPT ![c].pc = "commit", ![c].body = b]
      PROVE  PreparationKeeps
  BY <1>1, <1>3, <1>4, MovesOn DEF Acquiring
<1>5. CASE call' = [call EXCEPT ![c].pc = "failed"]
  <2>1. call' = [call EXCEPT ![c].pc = "failed", ![c].body = call[c].body] /\ call[c].body \in Bytes \cup {None}
    BY <1>2, <1>5 DEF PreparationTyped, CallStates
  <2> QED
    BY <1>1, <2>1, MovesOn DEF Acquiring
<1> QED
  BY <1>4, <1>5 DEF Preparation!Fetch

(* What was fetched enters the cache only if it describes the release.     *)
LEMMA CommitKeeps ==
  ASSUME PreparationConfigured, PreparationTyped, PreparationInvariant, NEW c \in Calls, Preparation!Commit(c)
  PROVE  PreparationKeeps
<1> DEFINE b == IF bound[Preparation!Key(c)] # None THEN bound[Preparation!Key(c)] ELSE call[c].body
           new == [call[c] EXCEPT !.pc = "acquire", !.body = None, !.artifacts = Append(@, Preparation!Acquired(c, b))]
<1>1. call[c].pc = "commit" /\ UNCHANGED <<selection, view>>
  BY DEF Preparation!Commit, Preparation!SameCall
<1>2. /\ call[c] \in CallStates /\ PreparationCall(c) /\ call[c].artifacts \in Seq(AcquiredArtifacts)
  BY CallNow
<1>3. /\ Len(call[c].artifacts) < Len(call[c].plans) /\ call[c].pc \in Acquiring /\ call[c].body \in Bytes
  BY <1>1, <1>2 DEF PreparationCall, Acquiring
<1>4. /\ bound[Preparation!Key(c)] \in Bytes \cup {None} /\ (bound[Preparation!Key(c)] # None => selection[c][Preparation!Place(c)].name \in bound[Preparation!Key(c)])
      /\ Preparation!Plan(c).artifact \in Preparation!Artifacts /\ selection[c][Preparation!Place(c)].name \in ReleaseNames
      /\ Preparation!Key(c) \in Preparation!Descriptors /\ Preparation!Key(c)[2] = selection[c][Preparation!Place(c)].name
  BY <1>3, NextPlan
<1>5. CASE /\ bound[Preparation!Key(c)] # None \/ Preparation!Validates(b, Preparation!Key(c)[2])
           /\ bound' = [bound EXCEPT ![Preparation!Key(c)] = b]
           /\ call' = [call EXCEPT ![c].pc = "acquire", ![c].body = None,
                                   ![c].artifacts = Append(@, Preparation!Acquired(c, b))]
  <2>1. b \in Bytes /\ selection[c][Preparation!Place(c)].name \in b
    BY <1>3, <1>4, <1>5 DEF Preparation!Validates
  <2> HIDE DEF b
  <2>2. Preparation!Acquired(c, b) \in AcquiredArtifacts
    BY <1>4, <2>1 DEF Preparation!Acquired, AcquiredArtifacts
  <2>3. Append(call[c].artifacts, Preparation!Acquired(c, b)) \in Seq(AcquiredArtifacts)
    BY <1>2, <2>2
  <2>4. /\ new \in CallStates /\ new.pc = "acquire" /\ new.plans = call[c].plans /\ new.failed = call[c].failed
        /\ new.artifacts = Append(call[c].artifacts, Preparation!Acquired(c, b))
    BY <1>2, <2>3 DEF CallStates
  <2>5. call' = [call EXCEPT ![c] = new]
    BY <1>5 DEF PreparationTyped
  <2>6. bound' \in [Preparation!Descriptors -> Bytes \cup {None}] /\ BoundIsRight'
    BY <1>4, <1>5, <2>1 DEF PreparationTyped, PreparationInvariant, BoundIsRight
  <2> HIDE DEF new
  <2> QED
    BY <1>1, <1>3, <2>1, <2>4, <2>5, <2>6, AddKeeps
<1>6. CASE /\ call' = [call EXCEPT ![c].pc = "failed"]
           /\ \/ bound' = bound
              \/ /\ bound[Preparation!Key(c)] # None \/ Preparation!Validates(b, Preparation!Key(c)[2])
                 /\ bound' = [bound EXCEPT ![Preparation!Key(c)] = b]
  <2> DEFINE failed == [call[c] EXCEPT !.pc = "failed"]
  <2>1. /\ failed \in CallStates /\ failed.pc = "failed" /\ failed.plans = call[c].plans
        /\ failed.failed = call[c].failed /\ call' = [call EXCEPT ![c] = failed] /\ call'[c] = failed
    BY <1>2, <1>6 DEF CallStates, PreparationTyped
  <2> HIDE DEF failed
  <2>2. PreparationCall(c)'
    BY <1>1, <1>2, <2>1 DEF PreparationCall, PlansAreRight, Acquiring
  <2>3. bound' \in [Preparation!Descriptors -> Bytes \cup {None}] /\ BoundIsRight'
    BY <1>3, <1>4, <1>6 DEF PreparationTyped, PreparationInvariant, BoundIsRight, Preparation!Validates
  <2> QED
    BY <1>1, <2>1, <2>2, <2>3, ViewKept, OneCall DEF PreparationInvariant
<1> QED
  BY <1>5, <1>6 DEF Preparation!Commit

(* A call that acquired everything has its selection, and may publish it.  *)
LEMMA AcquiredIsTheSelection ==
  ASSUME PreparationConfigured, PreparationTyped, PreparationInvariant, NEW c \in Calls,
         call[c].pc = "acquire", Preparation!Place(c) > Len(call[c].plans)
  PROVE  /\ Len(call[c].artifacts) = Len(selection[c])
         /\ \A i \in 1 .. Len(call[c].artifacts) :
                /\ call[c].artifacts[i].name = selection[c][i].name
                /\ Preparation!Wanted(selection[c][i], call[c].artifacts[i].artifact)
                /\ call[c].artifacts[i].name \in call[c].artifacts[i].bytes
<1>1. /\ PreparationCall(c) /\ Len(call[c].plans) \in Nat /\ Len(call[c].artifacts) \in Nat
      /\ \A i \in 1 .. Len(selection[c]) : selection[c][i] \in Preparation!Packages
  BY CallNow
<1>2. ArtifactsAreRight(c) /\ PlansAreRight(c)
  BY <1>1 DEF PreparationCall, Acquiring
<1>3. Len(call[c].artifacts) = Len(call[c].plans) /\ Len(call[c].plans) = Len(selection[c])
  BY <1>1, <1>2 DEF ArtifactsAreRight, Preparation!Place
<1>4. ASSUME NEW i \in 1 .. Len(call[c].artifacts)
      PROVE  Preparation!Wanted(selection[c][i], call[c].artifacts[i].artifact)
  <2>1. selection[c][i] \in Preparation!Packages
    BY <1>1, <1>3
  <2>2. /\ call[c].artifacts[i].artifact = call[c].plans[i].artifact
        /\ call[c].plans[i].artifact = Preparation!plan_selected_artifact(selection[c][i])
        /\ call[c].plans[i].artifact # None
    BY <1>2, <1>3 DEF ArtifactsAreRight, PlansAreRight
  <2> QED
    BY <2>1, <2>2, PlanIsWanted
<1> QED
  BY <1>2, <1>3, <1>4 DEF ArtifactsAreRight

(* A call that acquired everything publishes it.                           *)
LEMMA MaterializeKeeps ==
  ASSUME PreparationConfigured, PreparationTyped, PreparationInvariant, NEW c \in Calls, Preparation!Materialize(c)
  PROVE  PreparationKeeps
<1> DEFINE done == [call[c] EXCEPT !.pc = "done"]
<1>1. call[c].pc = "acquire" /\ Preparation!Place(c) > Len(call[c].plans) /\ UNCHANGED <<selection, bound>>
  BY DEF Preparation!Materialize
<1>2. call[c] \in CallStates /\ PreparationCall(c)
  BY CallNow
<1>3. CASE view' = view /\ call' = [call EXCEPT ![c].pc = "failed"]
  <2>1. call' = [call EXCEPT ![c].pc = "failed", ![c].body = call[c].body] /\ call[c].body \in Bytes \cup {None}
    BY <1>2, <1>3 DEF PreparationTyped, CallStates
  <2> QED
    BY <1>1, <1>3, <2>1, MovesOn DEF Acquiring
<1>4. CASE view' = call[c].artifacts /\ call' = [call EXCEPT ![c].pc = "done"]
  <2>1. Preparation!PublishedIsTheSelection'
    BY <1>1, <1>4, AcquiredIsTheSelection DEF Preparation!PublishedIsTheSelection
  <2>2. /\ done \in CallStates /\ done.pc = "done" /\ done.plans = call[c].plans /\ done.failed = call[c].failed
        /\ call' = [call EXCEPT ![c] = done] /\ call'[c] = done
    BY <1>2, <1>4 DEF CallStates, PreparationTyped
  <2> HIDE DEF done
  <2>3. PreparationCall(c)'
    BY <1>1, <1>2, <2>2 DEF PreparationCall, PlansAreRight, Acquiring
  <2>4. bound' \in [Preparation!Descriptors -> Bytes \cup {None}] /\ BoundIsRight'
    BY <1>1 DEF PreparationTyped, PreparationInvariant, BoundIsRight
  <2> QED
    BY <1>1, <2>1, <2>2, <2>3, <2>4, OneCall
<1> QED
  BY <1>3, <1>4 DEF Preparation!Materialize

(* The cache loses an object.                                              *)
LEMMA LoseKeeps ==
  ASSUME PreparationTyped, PreparationInvariant, NEW d \in Preparation!Descriptors, Preparation!Lose(d)
  PROVE  PreparationKeeps
<1>1. bound' = [bound EXCEPT ![d] = None] /\ UNCHANGED <<selection, view, call>>
  BY DEF Preparation!Lose
<1>2. bound' \in [Preparation!Descriptors -> Bytes \cup {None}] /\ BoundIsRight'
  BY <1>1 DEF PreparationTyped, PreparationInvariant, BoundIsRight
<1>3. ASSUME NEW c \in Calls PROVE PreparationCall(c)'
  BY <1>1 DEF PreparationInvariant, PreparationCall, PlansAreRight, ArtifactsAreRight
<1> QED
  BY <1>1, <1>2, <1>3, ViewKept DEF PreparationKeeps, PreparationTyped, PreparationInvariant

(* Every step keeps the invariant.                                         *)
LEMMA PreparationStep ==
  PreparationConfigured /\ PreparationTyped /\ PreparationInvariant /\ [Preparation!Next]_(Preparation!vars) =>
    PreparationTyped' /\ PreparationInvariant'
<1> SUFFICES ASSUME PreparationConfigured, PreparationTyped, PreparationInvariant, [Preparation!Next]_(Preparation!vars)
             PROVE  PreparationKeeps
  BY DEF PreparationKeeps
<1>1. CASE UNCHANGED Preparation!vars
  <2>1. UNCHANGED <<selection, bound, view, call>>
    BY <1>1 DEF Preparation!vars
  <2>2. ASSUME NEW c \in Calls PROVE PreparationCall(c)'
    BY <2>1 DEF PreparationInvariant, PreparationCall, PlansAreRight, ArtifactsAreRight
  <2>3. BoundIsRight'
    BY <2>1 DEF PreparationInvariant, BoundIsRight
  <2> QED
    BY <2>1, <2>2, <2>3, ViewKept DEF PreparationKeeps, PreparationTyped, PreparationInvariant
<1>2. CASE Preparation!Returned
  BY <1>1, <1>2 DEF Preparation!Returned
<1> QED
  BY <1>1, <1>2, PreflightKeeps, PreflightEndsKeeps, AcquireKeeps, FetchKeeps, CommitKeeps, MaterializeKeeps,
     LoseKeeps DEF Preparation!Next

(* What the preparation assumes is what the composition assumes.           *)
LEMMA IsConfigured == PreparationConfigured
  BY PreparationAssumption DEF PreparationConfigured

(* The other components leave what the preparation uses alone.             *)
LEMMA PreparationNow ==
  ASSUME [ProjectNext]_projectVars, which = "preparation" \/ which' = "preparation"
  PROVE  which = "preparation" /\ which' = "preparation" /\ [Preparation!Next]_(Preparation!vars)
BY DEF ProjectNext, CopyNext, CopyEnded, CommandNext, PreparationNext, ResolutionNext, UpdateNext, projectVars,
   preparationOnly, Preparation!vars

(***************************************************************************)
(* The repository of a project holds every package of some call's          *)
(* selection, each from the first visible repository that can give one and *)
(* with bytes that describe the release, for any selections, number of     *)
(* concurrent calls and losses of the cache: a call publishes only when    *)
(* every plan of its preflight was carried out, and the cache never holds  *)
(* another release's archive under a descriptor.                           *)
(***************************************************************************)
THEOREM PublishedSelection == ProjectSpec => []PublishedIsTheSelection
<1>1. ProjectInit => (which = "preparation" => PreparationTyped /\ PreparationInvariant)
  BY IsConfigured, PreparationInit DEF ProjectInit
<1>2. [ProjectNext]_projectVars /\ (which = "preparation" => PreparationTyped /\ PreparationInvariant)
        => (which = "preparation" => PreparationTyped /\ PreparationInvariant)'
  BY IsConfigured, PreparationNow, PreparationStep
<1>3. (which = "preparation" => PreparationTyped /\ PreparationInvariant) => PublishedIsTheSelection
  BY DEF PreparationInvariant, PublishedIsTheSelection
<1> QED
  BY <1>1, <1>2, <1>3, PTL DEF ProjectSpec

-----------------------------------------------------------------------------
(* The rounds of the resolution (RepositoryResolution).                    *)

(* The last level of a walk.                                               *)
Depth == Resolution!Cardinality(PackageNames) + 1

(* The levels of the walk over what the entries answer with.               *)
IsWalk(w, load) ==
    w = [k \in 0 .. Depth |->
            IF k = 0 THEN Resolution!RootNodes \cup Resolution!DirectNodes
            ELSE w[k - 1] \cup UNION {Resolution!NextNodes(n, load) : n \in w[k - 1]}]

LEMMA DepthType == Depth \in Nat /\ Depth # 0
<1>1. Cardinality(PackageNames) \in Nat
  BY ResolutionAssumption, FS_CardinalityType
<1>2. Resolution!Cardinality(PackageNames) = Cardinality(PackageNames)
  BY DEF Resolution!Cardinality, Cardinality
<1> QED
  BY <1>1, <1>2 DEF Depth

(* There is such a walk.                                                   *)
LEMMA WalkExists ==
  ASSUME NEW load
  PROVE  \E w : IsWalk(w, load)
<1> DEFINE First == Resolution!RootNodes \cup Resolution!DirectNodes
           More(x) == x \cup UNION {Resolution!NextNodes(n, load) : n \in x}
           Up(w, m) == w = [k \in 0 .. m |-> IF k = 0 THEN First ELSE More(w[k - 1])]
           bad == {m \in Nat : ~ \E w : Up(w, m)}
<1>1. bad = {}
  <2> SUFFICES ASSUME bad # {} PROVE FALSE
    OBVIOUS
  <2>1. PICK m \in bad : \A j \in bad : m <= j
    <3> HIDE DEF bad
    <3>1. bad \in SUBSET Nat
      BY DEF bad
    <3> QED
      BY <3>1, LeastIndex
  <2>2. m \in Nat /\ ~ \E w : Up(w, m)
    OBVIOUS
  <2>3. CASE m = 0
    <3> HIDE DEF First, More
    <3> DEFINE w == [k \in 0 .. 0 |-> First]
    <3>1. Up(w, 0)
      OBVIOUS
    <3> HIDE DEF w, Up
    <3> QED
      BY <2>2, <2>3, <3>1
  <2>4. CASE m # 0
    <3>1. m - 1 \in Nat /\ m - 1 \notin bad
      <4> HIDE DEF bad
      <4> QED
        BY <2>1, <2>2, <2>4
    <3>2. PICK v : Up(v, m - 1)
      BY <3>1
    <3> HIDE DEF First, More
    <3> DEFINE w == [k \in 0 .. m |-> IF k = m THEN More(v[m - 1]) ELSE v[k]]
    <3>3. ASSUME NEW k \in 0 .. m PROVE w[k] = IF k = 0 THEN First ELSE More(w[k - 1])
      <4>1. CASE k = 0
        BY <2>2, <2>4, <3>2, <4>1
      <4>2. CASE k = m
        BY <2>2, <2>4, <4>2
      <4>3. CASE k # 0 /\ k # m
        BY <2>2, <2>4, <3>2, <4>3
      <4> QED
        BY <4>1, <4>2, <4>3
    <3>4. Up(w, m)
      BY <3>3
    <3> HIDE DEF w, Up
    <3> QED
      BY <2>2, <3>4
  <2> QED
    BY <2>3, <2>4
<1>2. \E w : Up(w, Depth)
  <2> HIDE DEF Up
  <2> QED
    BY <1>1, DepthType
<1> QED
  BY <1>2 DEF IsWalk

(* The recursion of Reach is such a walk.                                  *)
LEMMA ReachWalks ==
  ASSUME NEW load
  PROVE  \E w : IsWalk(w, load) /\ Resolution!Reach(load) = w[Depth]
<1> DEFINE w == CHOOSE v : IsWalk(v, load)
<1>1. IsWalk(w, load)
  BY WalkExists, Zenon
<1>2. Resolution!Reach(load) = w[Depth]
  BY Zenon DEF Resolution!Reach, IsWalk, Depth
<1> QED
  BY <1>1, <1>2

(* The first level, and each one after it.                                 *)
LEMMA WalkLevels ==
  ASSUME NEW load, NEW w, IsWalk(w, load)
  PROVE  /\ w[0] = Resolution!RootNodes \cup Resolution!DirectNodes
         /\ \A k \in 1 .. Depth :
               k - 1 \in 0 .. Depth /\ w[k] = w[k - 1] \cup UNION {Resolution!NextNodes(n, load) : n \in w[k - 1]}
<1>1. w[0] = Resolution!RootNodes \cup Resolution!DirectNodes
  BY DepthType DEF IsWalk
<1>2. ASSUME NEW k \in 1 .. Depth
      PROVE  k - 1 \in 0 .. Depth /\ w[k] = w[k - 1] \cup UNION {Resolution!NextNodes(n, load) : n \in w[k - 1]}
  <2>1. k \in 0 .. Depth /\ k # 0 /\ k - 1 \in 0 .. Depth
    BY DepthType
  <2> QED
    BY <2>1 DEF IsWalk
<1> QED
  BY <1>1, <1>2

(* A set of levels that has each level whose predecessor it has, and the   *)
(* first one, has all of them.                                             *)
LEMMA LevelInduction ==
  ASSUME NEW S, 0 \in S, \A k \in 1 .. Depth : k - 1 \in S => k \in S
  PROVE  \A k \in 0 .. Depth : k \in S
<1> DEFINE bad == {k \in 0 .. Depth : k \notin S}
<1> SUFFICES ASSUME bad # {} PROVE FALSE
  OBVIOUS
<1>1. bad \in SUBSET Nat
  BY DepthType
<1>2. PICK k \in bad : \A j \in bad : k <= j
  <2> HIDE DEF bad
  <2> QED
    BY <1>1, LeastIndex
<1>3. k \in 1 .. Depth /\ k - 1 \in 0 .. Depth /\ k \notin S
  BY DepthType
<1>4. k - 1 \notin bad
  <2> HIDE DEF bad
  <2> QED
    BY <1>2, <1>3, DepthType
<1> QED
  BY <1>3, <1>4

(* Levels grow.                                                            *)
LEMMA WalkGrows ==
  ASSUME NEW load, NEW w, IsWalk(w, load), NEW k \in 0 .. Depth
  PROVE  w[k] \subseteq w[Depth]
<1> DEFINE S == {j \in 0 .. Depth : w[Depth - j] \subseteq w[Depth]}
<1>0. Depth \in Nat
  BY DepthType
<1>1. 0 \in S
  BY <1>0
<1>2. ASSUME NEW j \in 1 .. Depth, j - 1 \in S PROVE j \in S
  <2>1. j \in 0 .. Depth /\ Depth - (j - 1) \in 1 .. Depth /\ (Depth - (j - 1)) - 1 = Depth - j
    BY <1>0
  <2>2. w[Depth - j] \subseteq w[Depth - (j - 1)]
    BY <2>1, WalkLevels
  <2> QED
    BY <1>2, <2>1, <2>2
<1>3. \A j \in 0 .. Depth : j \in S
  <2> HIDE DEF S
  <2> QED
    BY <1>1, <1>2, LevelInduction
<1>4. Depth - k \in 0 .. Depth /\ Depth - (Depth - k) = k
  BY <1>0
<1> QED
  BY <1>3, <1>4

(* A walk meets no base package.                                           *)
LEMMA RemoteNodes ==
  ASSUME env \in Environments, NEW load, NEW w, IsWalk(w, load), NEW n \in w[Depth]
  PROVE  n.name \notin RBase
<1> DEFINE S == {k \in 0 .. Depth : \A m \in w[k] : m.name \notin RBase}
<1>0. Depth \in Nat
  BY DepthType
<1>1. 0 \in S
  <2>1. ASSUME NEW m \in Resolution!RootNodes PROVE m.name \notin RBase
    BY ResolutionAssumption
       DEF Resolution!RootNodes, Resolution!Node, Resolution!is_remote_root, Resolution!is_remote_name
  <2>2. ASSUME NEW m \in Resolution!DirectNodes PROVE m.name \notin RBase
    BY DEF Resolution!DirectNodes, Resolution!Node, Resolution!Followed, Resolution!is_remote_name
  <2> QED
    BY <1>0, <2>1, <2>2, WalkLevels
<1>2. ASSUME NEW k \in 1 .. Depth, k - 1 \in S PROVE k \in S
  <2>1. ASSUME NEW l, NEW m \in Resolution!NextNodes(l, load) PROVE m.name \notin RBase
    BY DEF Resolution!NextNodes, Resolution!Node, Resolution!Followed, Resolution!is_remote_name
  <2> QED
    BY <1>0, <1>2, <2>1, WalkLevels
<1>3. \A k \in 0 .. Depth : k \in S
  <2> HIDE DEF S
  <2> QED
    BY <1>1, <1>2, LevelInduction
<1> QED
  BY <1>0, <1>3

(* Two registries that answer alike on a walk over one of them are walked  *)
(* alike.                                                                  *)
LEMMA SameWalks ==
  ASSUME NEW load, NEW other, NEW v, NEW w, IsWalk(v, load), IsWalk(w, other),
         \A n \in v[Depth] : Resolution!NextNodes(n, load) = Resolution!NextNodes(n, other)
  PROVE  v[Depth] = w[Depth]
<1> DEFINE S == {k \in 0 .. Depth : v[k] = w[k]}
<1>0. Depth \in Nat
  BY DepthType
<1>1. 0 \in S
  <2>1. v[0] = Resolution!RootNodes \cup Resolution!DirectNodes
    BY WalkLevels
  <2>2. w[0] = Resolution!RootNodes \cup Resolution!DirectNodes
    BY WalkLevels
  <2> QED
    BY <1>0, <2>1, <2>2
<1>2. ASSUME NEW k \in 1 .. Depth, k - 1 \in S PROVE k \in S
  <2>1. /\ k - 1 \in 0 .. Depth /\ v[k - 1] = w[k - 1]
        /\ v[k] = v[k - 1] \cup UNION {Resolution!NextNodes(n, load) : n \in v[k - 1]}
    BY <1>2, WalkLevels
  <2>3. w[k] = w[k - 1] \cup UNION {Resolution!NextNodes(n, other) : n \in w[k - 1]}
    BY WalkLevels
  <2>4. k \in 0 .. Depth
    BY <1>0
  <2>2. \A n \in v[k - 1] : Resolution!NextNodes(n, load) = Resolution!NextNodes(n, other)
    BY <2>1, WalkGrows
  <2>5. UNION {Resolution!NextNodes(n, load) : n \in v[k - 1]} = UNION {Resolution!NextNodes(n, other) : n \in w[k - 1]}
    BY <2>1, <2>2
  <2> QED
    BY <2>1, <2>3, <2>4, <2>5
<1>3. \A k \in 0 .. Depth : k \in S
  <2> HIDE DEF S
  <2> QED
    BY <1>1, <1>2, LevelInduction
<1> QED
  BY <1>0, <1>3

-----------------------------------------------------------------------------
WorkFields == {"closure", "refreshed", "optional", "required", "then"}

(* The shape of the state.                                                 *)
ResolutionTyped ==
    env \in Environments /\ DOMAIN snap = Resolution!Entries /\ DOMAIN work = WorkFields

Nowhere == \A e \in Resolution!Entries : snap[e] = None

(* No entry may answer for a root.                                         *)
Undemanded ==
    \A n \in Resolution!RootNodes \cup Resolution!DirectNodes :
        Resolution!eligible_dependency_entries(n.source, n.name) = {}

(* The snapshot of a prepared endpoint has all of its scope.               *)
UniverseIsWhole ==
    \A e \in Resolution!Entries :
        env.repos[e].kind = "r-universe" /\ env.repos[e].group \in groups =>
            /\ snap[e] # None /\ snap[e].complete
            /\ \A p \in env.repos[e].allow : Resolution!Lookup(snap[e], p) = env.univ[p]

(* A snapshot of CRAN is partial, and what it holds is what CRAN has.      *)
CranIsTrue ==
    \A e \in Resolution!CranEntries :
        snap[e] # None => ~snap[e].complete /\ \A p \in DOMAIN snap[e].held : snap[e].held[p] = env.cran[p]

Asked == {p \in cranRoots : p \notin RBase /\ Resolution!package_allowed(Resolution!cranIndex, p)}

(* After a preparation without a snapshot CRAN has nothing that was asked  *)
(* for; during one, nothing that CRAN has was dropped.                     *)
AskedIsThere == snap[Resolution!cranIndex] = None => \A p \in Asked : env.cran[p] = {}
AskedIsCollected == \A p \in Asked : p \in work.closure \/ env.cran[p] = {}

(* The last plan is the one of the present snapshots, none of which failed *)
(* to answer, and asks CRAN for nothing new.                               *)
Settled ==
    /\ \E w : /\ IsWalk(w, Resolution!Load) /\ plan = Resolution!Demands(w[Depth])
              /\ \A n \in w[Depth] : \A e \in Resolution!eligible_dependency_entries(n.source, n.name) :
                    ~Resolution!LoadFails(e, n.name)
    /\ Resolution!validate_cran_demand_count(plan)
    /\ Resolution!MissingCranDemand(plan) = {}

Preparing == {"prepare", "collect"}

ResolutionInvariant ==
    /\ UniverseIsWhole /\ CranIsTrue
    /\ stage \in {"start", "direct", "seed"} => Nowhere /\ cranRoots = {}
    /\ stage \in Preparing => Resolution!CranEntries # {} /\ work.then \in {"plan", "universe again"}
    /\ stage = "collect" => AskedIsCollected /\ work.closure \subseteq env.repos[Resolution!cranIndex].allow
    /\ Resolution!CranEntries # {} /\ stage \notin Preparing \cup {"done"} => AskedIsThere
    /\ stage = "universe" => Settled
    /\ stage \in {"qualified", "solve"} => Undemanded \/ (Settled /\ Resolution!Unprepared = {})

-----------------------------------------------------------------------------
(* The only CRAN entry, where CRAN is asked for something.                 *)
LEMMA OneCranEntry ==
  ASSUME ResolutionTyped, Resolution!validate_cran_demand_count(plan), NEW e \in Resolution!CranEntries, plan[e] # {}
  PROVE  e = Resolution!cranIndex
<1>1. Resolution!Cardinality(Resolution!CranEntries) = 1
  BY DEF Resolution!validate_cran_demand_count
<1>2. Resolution!Cardinality(Resolution!CranEntries) = Cardinality(Resolution!CranEntries)
  BY DEF Resolution!Cardinality, Cardinality
<1>3. IsFiniteSet(Resolution!Entries) /\ Resolution!CranEntries \subseteq Resolution!Entries
  BY ResolutionAssumption DEF ResolutionTyped, Resolution!Entries, Resolution!CranEntries
<1>4. IsFiniteSet(Resolution!CranEntries)
  BY <1>3, FS_Subset
<1>5. PICK x : Resolution!CranEntries = {x}
  BY <1>1, <1>2, <1>4, FS_Singleton
<1> QED
  BY <1>5 DEF Resolution!cranIndex

(* On a settled plan each entry answers with what its registry has.        *)
LEMMA SettledAnswers ==
  ASSUME ResolutionTyped, UniverseIsWhole, CranIsTrue, Resolution!CranEntries # {} => AskedIsThere,
         Resolution!Unprepared = {},
         Resolution!validate_cran_demand_count(plan), Resolution!MissingCranDemand(plan) = {},
         NEW w, IsWalk(w, Resolution!Load), plan = Resolution!Demands(w[Depth]),
         NEW n \in w[Depth], NEW e \in Resolution!eligible_dependency_entries(n.source, n.name),
         ~Resolution!LoadFails(e, n.name)
  PROVE  /\ e \in Resolution!Entries /\ n.name \in PackageNames
         /\ Resolution!Load[e][n.name] = Resolution!RegistryLoad[e][n.name]
         /\ Resolution!RegistryLoad[e][n.name] # {} =>
               snap[e] # None /\ Resolution!Lookup(snap[e], n.name) = Resolution!RegistryLoad[e][n.name]
<1> DEFINE p == n.name
<1>1. e \in Resolution!Entries /\ p \in env.repos[e].allow /\ Resolution!package_allowed(e, p)
  BY DEF Resolution!eligible_dependency_entries, Resolution!package_allowed
<1>2. env.repos[e].kind \in {"cran", "r-universe"} /\ p \in PackageNames
  BY <1>1, ResolutionAssumption DEF ResolutionTyped, Resolution!Entries
<1>3. p \in plan[e]
  BY <1>1 DEF Resolution!Demands
<1>4. p \notin RBase
  BY RemoteNodes DEF ResolutionTyped
<1> HIDE DEF p
<1>5. Resolution!Load[e][p] = IF snap[e] # None THEN Resolution!Lookup(snap[e], p) ELSE {}
  BY <1>1, <1>2 DEF Resolution!Load
<1>6. Resolution!RegistryLoad[e][p] = IF env.repos[e].kind = "cran" THEN env.cran[p] ELSE env.univ[p]
  BY <1>1, <1>2 DEF Resolution!RegistryLoad
<1>7. CASE env.repos[e].kind = "cran"
  <2>1. e \in Resolution!CranEntries
    BY <1>1, <1>7 DEF Resolution!CranEntries
  <2>2. e = Resolution!cranIndex
    BY <1>3, <2>1, OneCranEntry
  <2>3. CASE snap[e] # None
    <3>1. p \in DOMAIN snap[e].held
      BY <1>1, <2>1, <2>3 DEF CranIsTrue, Resolution!LoadFails, Resolution!Undecided, p
    <3>2. Resolution!Lookup(snap[e], p) = env.cran[p]
      BY <2>1, <2>3, <3>1 DEF CranIsTrue, Resolution!Lookup
    <3> QED
      BY <1>1, <1>2, <1>5, <1>6, <1>7, <2>3, <3>2 DEF p
  <2>4. CASE snap[e] = None
    <3>1. p \in cranRoots
      BY <1>3, <2>1, <2>2, <2>4 DEF Resolution!MissingCranDemand, Resolution!raw_package_is_covered
    <3>2. p \in Asked
      BY <1>1, <1>4, <2>2, <3>1 DEF Asked
    <3>3. env.cran[p] = {}
      BY <2>1, <2>2, <2>4, <3>2 DEF AskedIsThere
    <3> QED
      BY <1>1, <1>2, <1>5, <1>6, <1>7, <2>4, <3>3 DEF p
  <2> QED
    BY <2>3, <2>4
<1>8. CASE env.repos[e].kind = "r-universe"
  <2>1. env.repos[e].group \in groups
    BY <1>1, <1>3, <1>8 DEF Resolution!Unprepared
  <2>2. snap[e] # None /\ Resolution!Lookup(snap[e], p) = env.univ[p]
    BY <1>1, <1>8, <2>1 DEF UniverseIsWhole
  <2> QED
    BY <1>1, <1>2, <1>5, <1>6, <1>8, <2>2 DEF p
<1> QED
  BY <1>2, <1>7, <1>8

(* A settled plan is the one that the whole registries give.               *)
LEMMA SettledCovers ==
  ASSUME ResolutionTyped, UniverseIsWhole, CranIsTrue, Resolution!CranEntries # {} => AskedIsThere,
         Settled, Resolution!Unprepared = {}
  PROVE  Resolution!SnapshotsCoverTheClosure
<1>1. PICK w : /\ IsWalk(w, Resolution!Load) /\ plan = Resolution!Demands(w[Depth])
               /\ \A n \in w[Depth] : \A e \in Resolution!eligible_dependency_entries(n.source, n.name) :
                     ~Resolution!LoadFails(e, n.name)
  BY DEF Settled
<1>2. ASSUME NEW n \in w[Depth], NEW e \in Resolution!eligible_dependency_entries(n.source, n.name)
      PROVE  /\ e \in Resolution!Entries /\ n.name \in PackageNames
             /\ Resolution!Load[e][n.name] = Resolution!RegistryLoad[e][n.name]
             /\ Resolution!RegistryLoad[e][n.name] # {} =>
                   snap[e] # None /\ Resolution!Lookup(snap[e], n.name) = Resolution!RegistryLoad[e][n.name]
  BY <1>1, <1>2, SettledAnswers DEF Settled
<1>3. ASSUME NEW n \in w[Depth]
      PROVE  Resolution!NextNodes(n, Resolution!Load) = Resolution!NextNodes(n, Resolution!RegistryLoad)
  <2>1. Resolution!Answers(n, Resolution!Load) = Resolution!Answers(n, Resolution!RegistryLoad)
    BY <1>2 DEF Resolution!Answers
  <2> QED
    BY <2>1 DEF Resolution!NextNodes
<1>4. PICK v : IsWalk(v, Resolution!RegistryLoad) /\ Resolution!Reach(Resolution!RegistryLoad) = v[Depth]
  BY ReachWalks
<1>5. Resolution!Reach(Resolution!RegistryLoad) = w[Depth]
  BY <1>1, <1>3, <1>4, SameWalks
<1> QED
  BY <1>2, <1>5 DEF Resolution!SnapshotsCoverTheClosure

(* Where nothing may answer for a root, the walk goes nowhere.             *)
LEMMA UndemandedCovers ==
  ASSUME Undemanded
  PROVE  Resolution!SnapshotsCoverTheClosure
<1>1. PICK v : IsWalk(v, Resolution!RegistryLoad) /\ Resolution!Reach(Resolution!RegistryLoad) = v[Depth]
  BY ReachWalks
<1> DEFINE S == {k \in 0 .. Depth : v[k] = v[0]}
<1>0. Depth \in Nat
  BY DepthType
<1>2. v[0] = Resolution!RootNodes \cup Resolution!DirectNodes
  BY <1>1, WalkLevels
<1>3. ASSUME NEW n \in v[0] PROVE Resolution!NextNodes(n, Resolution!RegistryLoad) = {}
  <2>1. Resolution!Answers(n, Resolution!RegistryLoad) = {}
    BY <1>2 DEF Undemanded, Resolution!Answers
  <2>2. Resolution!Followed({}, n.promote) = {}
    BY DEF Resolution!Followed
  <2> QED
    BY <2>1, <2>2 DEF Resolution!NextNodes
<1>4. ASSUME NEW k \in 1 .. Depth, k - 1 \in S PROVE k \in S
  <2>1. v[k - 1] = v[0] /\ k \in 0 .. Depth
    BY <1>0, <1>4
  <2>2. v[k] = v[k - 1] \cup UNION {Resolution!NextNodes(n, Resolution!RegistryLoad) : n \in v[k - 1]}
    BY <1>0, <1>1, <1>4, WalkLevels
  <2>3. v[k] = v[0]
    BY <1>3, <2>1, <2>2
  <2> QED
    BY <2>1, <2>3
<1>5. \A k \in 0 .. Depth : k \in S
  <2>1. 0 \in S
    BY <1>0
  <2> HIDE DEF S
  <2> QED
    BY <1>4, <2>1, LevelInduction
<1>6. v[Depth] = v[0]
  BY <1>0, <1>5
<1> QED
  BY <1>1, <1>2, <1>6 DEF Undemanded, Resolution!SnapshotsCoverTheClosure

-----------------------------------------------------------------------------
(* The environment of a call does not change, and nothing that is read off *)
(* it does.                                                                *)
LEMMA EnvKept ==
  ASSUME env' = env
  PROVE  /\ Resolution!Entries' = Resolution!Entries /\ Resolution!CranEntries' = Resolution!CranEntries
         /\ Resolution!cranIndex' = Resolution!cranIndex
         /\ Resolution!RootNodes' = Resolution!RootNodes /\ Resolution!DirectNodes' = Resolution!DirectNodes
<1> DEFINE index(x) == CHOOSE e \in {e \in DOMAIN x.repos : x.repos[e].kind = "cran"} : TRUE
<1>1. Resolution!cranIndex = index(env) /\ Resolution!cranIndex' = index(env')
  BY DEF Resolution!cranIndex, Resolution!CranEntries, Resolution!Entries
<1>2. Resolution!cranIndex' = Resolution!cranIndex
  <2> HIDE DEF index
  <2> QED
    BY <1>1
<1>3. Resolution!Entries' = Resolution!Entries /\ Resolution!CranEntries' = Resolution!CranEntries
  BY DEF Resolution!CranEntries, Resolution!Entries
<1>4. Resolution!RootNodes' = Resolution!RootNodes
  BY DEF Resolution!RootNodes, Resolution!Node, Resolution!is_remote_root, Resolution!is_remote_name
<1>5. Resolution!DirectNodes' = Resolution!DirectNodes
  BY DEF Resolution!DirectNodes, Resolution!Node, Resolution!Followed, Resolution!is_remote_name,
         Resolution!direct_releases, Resolution!direct_root_override
<1> QED
  BY <1>2, <1>3, <1>4, <1>5

LEMMA EligibleKept ==
  ASSUME env' = env, NEW source, NEW p
  PROVE  (Resolution!eligible_dependency_entries(source, p))' = Resolution!eligible_dependency_entries(source, p)
BY DEF Resolution!eligible_dependency_entries, Resolution!Entries, Resolution!package_allowed

LEMMA DemandsKept ==
  ASSUME env' = env, NEW nodes
  PROVE  (Resolution!Demands(nodes))' = Resolution!Demands(nodes)
BY EnvKept, EligibleKept DEF Resolution!Demands

LEMMA NextKept ==
  ASSUME env' = env, NEW n, NEW load
  PROVE  (Resolution!NextNodes(n, load))' = Resolution!NextNodes(n, load)
BY EligibleKept DEF Resolution!NextNodes, Resolution!Answers, Resolution!Node, Resolution!Followed,
       Resolution!is_remote_name, Resolution!direct_root_override, Resolution!direct_releases

(* Neither does a walk, nor what the entries answer with, as long as the   *)
(* snapshots stay.                                                         *)
LEMMA LoadKept ==
  ASSUME env' = env, snap' = snap
  PROVE  /\ Resolution!Load' = Resolution!Load
         /\ \A e, p : (Resolution!LoadFails(e, p))' <=> Resolution!LoadFails(e, p)
<1>1. Resolution!Load' = Resolution!Load
  BY EnvKept DEF Resolution!Load, Resolution!package_allowed, Resolution!Lookup
<1>2. \A e, p : (Resolution!LoadFails(e, p))' <=> Resolution!LoadFails(e, p)
  BY DEF Resolution!LoadFails, Resolution!package_allowed, Resolution!Undecided
<1> QED
  BY <1>1, <1>2

LEMMA WalkKept ==
  ASSUME env' = env, NEW w, NEW load, IsWalk(w, load)
  PROVE  IsWalk(w, load)'
<1> DEFINE next(x) == UNION {Resolution!NextNodes(n, load) : n \in x}
           first == Resolution!RootNodes \cup Resolution!DirectNodes
<1>1. \A x : next(x)' = next(x)
  BY NextKept
<1>2. first' = first /\ Depth' = Depth
  BY EnvKept DEF Depth, Resolution!Cardinality
<1>3. w = [k \in 0 .. Depth |-> IF k = 0 THEN first ELSE w[k - 1] \cup next(w[k - 1])]
  BY DEF IsWalk
<1>4. (w = [k \in 0 .. Depth |-> IF k = 0 THEN first ELSE w[k - 1] \cup next(w[k - 1])])'
  <2> HIDE DEF first, next
  <2> QED
    BY <1>1, <1>2, <1>3
<1> QED
  BY <1>4 DEF IsWalk

LEMMA SettledKept ==
  ASSUME UNCHANGED <<env, snap, cranRoots, plan>>, Settled
  PROVE  Settled'
<1>1. PICK w : /\ IsWalk(w, Resolution!Load) /\ plan = Resolution!Demands(w[Depth])
               /\ \A n \in w[Depth] : \A e \in Resolution!eligible_dependency_entries(n.source, n.name) :
                     ~Resolution!LoadFails(e, n.name)
  BY DEF Settled
<1>2. IsWalk(w, Resolution!Load)'
  BY <1>1, LoadKept, WalkKept
<1>3. (plan = Resolution!Demands(w[Depth]))'
  BY <1>1, DemandsKept DEF Depth
<1>4. (\A n \in w[Depth] : \A e \in Resolution!eligible_dependency_entries(n.source, n.name) :
         ~Resolution!LoadFails(e, n.name))'
  BY <1>1, LoadKept, EligibleKept DEF Depth
<1>5. Resolution!validate_cran_demand_count(plan)'
  BY EnvKept DEF Settled, Resolution!validate_cran_demand_count
<1>6. (Resolution!MissingCranDemand(plan) = {})'
  BY EnvKept DEF Settled, Resolution!MissingCranDemand, Resolution!raw_package_is_covered, Resolution!Lookup
<1> QED
  BY <1>2, <1>3, <1>4, <1>5, <1>6 DEF Settled

LEMMA SnapshotsKept ==
  ASSUME UNCHANGED <<env, snap, groups>>, UniverseIsWhole, CranIsTrue
  PROVE  UniverseIsWhole' /\ CranIsTrue'
BY EnvKept DEF UniverseIsWhole, CranIsTrue, Resolution!Lookup

LEMMA AskedKept ==
  ASSUME UNCHANGED <<env, cranRoots>>
  PROVE  Asked' = Asked
BY EnvKept DEF Asked, Resolution!package_allowed

LEMMA UnpreparedKept ==
  ASSUME UNCHANGED <<env, plan, groups>>
  PROVE  Resolution!Unprepared' = Resolution!Unprepared
BY EnvKept DEF Resolution!Unprepared

-----------------------------------------------------------------------------
(* What each step is shown to keep.                                        *)
ResolutionKeeps == ResolutionTyped' /\ ResolutionInvariant'

LEMMA ResolutionInit == Resolution!Init => ResolutionTyped /\ ResolutionInvariant
<1> SUFFICES ASSUME Resolution!Init PROVE ResolutionTyped /\ ResolutionInvariant
  OBVIOUS
<1>1. ResolutionTyped
  BY DEF Resolution!Init, ResolutionTyped, Resolution!Entries, WorkFields
<1>2. Nowhere
  BY DEF Resolution!Init, Nowhere, Resolution!Entries
<1>3. UniverseIsWhole /\ CranIsTrue
  BY <1>2 DEF Resolution!Init, UniverseIsWhole, CranIsTrue, Nowhere, Resolution!CranEntries
<1>4. AskedIsThere
  BY DEF Resolution!Init, AskedIsThere, Asked
<1> QED
  BY <1>1, <1>2, <1>3, <1>4 DEF Resolution!Init, ResolutionInvariant, Preparing

(* A step that leaves the snapshots and what was asked for as they are     *)
(* need only justify where it goes.                                        *)
LEMMA QuietStep ==
  ASSUME ResolutionTyped, ResolutionInvariant, UNCHANGED <<env, snap, cranRoots, groups>>, stage \notin Preparing,
         DOMAIN work' = WorkFields,
         stage' \in {"start", "direct", "seed"} => stage \in {"start", "direct", "seed"},
         stage' \notin Preparing, stage = "done" => stage' = "done",
         stage' = "universe" => Settled',
         stage' \in {"qualified", "solve"} => Undemanded \/ (Settled /\ Resolution!Unprepared = {} /\ plan' = plan)
  PROVE  ResolutionKeeps
<1>1. ResolutionTyped'
  BY EnvKept DEF ResolutionTyped
<1>2. UniverseIsWhole' /\ CranIsTrue'
  BY SnapshotsKept DEF ResolutionInvariant
<1>3. Nowhere' <=> Nowhere
  BY EnvKept DEF Nowhere
<1>4. AskedIsThere' <=> AskedIsThere
  BY EnvKept, AskedKept DEF AskedIsThere
<1>5. stage' \in {"qualified", "solve"} => Undemanded' \/ (Settled' /\ Resolution!Unprepared' = {})
  <2>1. Undemanded => Undemanded'
    BY EnvKept, EligibleKept DEF Undemanded
  <2> QED
    BY <2>1, SettledKept, UnpreparedKept
<1> QED
  BY <1>1, <1>2, <1>3, <1>4, <1>5, EnvKept DEF ResolutionKeeps, ResolutionInvariant, Preparing

(* The call ends.                                                          *)
LEMMA FailStep ==
  ASSUME ResolutionTyped, ResolutionInvariant, UNCHANGED <<env, snap, groups>>,
         DOMAIN work' = WorkFields, stage' = "done"
  PROVE  ResolutionKeeps
<1>1. ResolutionTyped'
  BY EnvKept DEF ResolutionTyped
<1>2. UniverseIsWhole' /\ CranIsTrue'
  BY SnapshotsKept DEF ResolutionInvariant
<1> QED
  BY <1>1, <1>2 DEF ResolutionKeeps, ResolutionInvariant, Preparing

LEMMA StartStep ==
  ASSUME ResolutionTyped, ResolutionInvariant, Resolution!Start
  PROVE  ResolutionKeeps
BY QuietStep DEF Resolution!Start, Resolution!Fail, Preparing, ResolutionTyped

LEMMA DirectStep ==
  ASSUME ResolutionTyped, ResolutionInvariant, Resolution!AcquireDirect \/ Resolution!AcquireDirectFails
  PROVE  ResolutionKeeps
BY QuietStep DEF Resolution!AcquireDirect, Resolution!AcquireDirectFails, Resolution!Fail, Preparing,
   ResolutionTyped

(* A request to prepare CRAN.                                              *)
LEMMA RequestStep ==
  ASSUME ResolutionTyped, ResolutionInvariant, UNCHANGED <<env, snap, groups>>, stage' = "prepare",
         Resolution!CranEntries # {}, DOMAIN work' = WorkFields, work'.then \in {"plan", "universe again"}
  PROVE  ResolutionKeeps
<1>1. ResolutionTyped'
  BY EnvKept DEF ResolutionTyped
<1>2. UniverseIsWhole' /\ CranIsTrue'
  BY SnapshotsKept DEF ResolutionInvariant
<1> QED
  BY <1>1, <1>2, EnvKept DEF ResolutionKeeps, ResolutionInvariant, Preparing

LEMMA SeedStep ==
  ASSUME ResolutionTyped, ResolutionInvariant, Resolution!Seed
  PROVE  ResolutionKeeps
<1>1. UNCHANGED <<env, snap, groups, plan>> /\ stage = "seed" /\ Nowhere
  BY DEF Resolution!Seed, ResolutionInvariant
<1>2. CASE UNCHANGED <<cranRoots, work>> /\ stage' \in {"done", "plan"}
  BY <1>1, <1>2, QuietStep DEF Preparing, ResolutionTyped
<1>3. CASE /\ stage' = "prepare" /\ Resolution!CranEntries # {}
           /\ DOMAIN work' = WorkFields /\ work'.then = "plan"
  BY <1>1, <1>3, RequestStep
<1>4. CASE /\ UNCHANGED <<cranRoots, work>> /\ stage' = "solve"
           /\ \A e \in Resolution!Entries : Resolution!initial_repository_demands_with_direct[e] = {}
  <2>1. Undemanded
    BY <1>4 DEF Undemanded, Resolution!initial_repository_demands_with_direct, Resolution!Demands,
         Resolution!eligible_dependency_entries
  <2> QED
    BY <1>1, <1>4, <2>1, QuietStep DEF Preparing, ResolutionTyped
<1> QED
  BY <1>2, <1>3, <1>4 DEF Resolution!Seed, Resolution!Fail, Resolution!Request, WorkFields

LEMMA PlanStep ==
  ASSUME ResolutionTyped, ResolutionInvariant, Resolution!Plan
  PROVE  ResolutionKeeps
<1> DEFINE demands == Resolution!resolve_repository_demands_with_direct
           missing == Resolution!MissingCranDemand(demands)
<1>1. UNCHANGED <<env, snap, groups>> /\ stage = "plan"
  BY DEF Resolution!Plan
<1>2. CASE UNCHANGED <<plan, cranRoots, work>> /\ stage' = "done"
  BY <1>1, <1>2, FailStep DEF Preparing, ResolutionTyped
<1>3. CASE missing # {} /\ stage' = "prepare" /\ DOMAIN work' = WorkFields /\ work'.then = "universe again"
  <2>1. Resolution!CranEntries # {}
    BY <1>3 DEF Resolution!MissingCranDemand
  <2> QED
    BY <1>1, <1>3, <2>1, RequestStep
<1>4. CASE /\ ~Resolution!PlanFails /\ Resolution!validate_cran_demand_count(demands)
           /\ plan' = demands /\ missing = {} /\ stage' = "universe" /\ UNCHANGED <<cranRoots, work>>
  <2>1. PICK w : IsWalk(w, Resolution!Load) /\ Resolution!Reach(Resolution!Load) = w[Depth]
    BY ReachWalks
  <2>2. demands = Resolution!Demands(w[Depth])
    BY <2>1 DEF Resolution!resolve_repository_demands_with_direct
  <2>3. \A n \in w[Depth] : \A e \in Resolution!eligible_dependency_entries(n.source, n.name) :
           ~Resolution!LoadFails(e, n.name)
    BY <1>4, <2>1 DEF Resolution!PlanFails
  <2>4. IsWalk(w, Resolution!Load)'
    BY <1>1, <2>1, LoadKept, WalkKept
  <2>5. (plan = Resolution!Demands(w[Depth]))'
    BY <1>1, <1>4, <2>2, DemandsKept DEF Depth
  <2>6. (\A n \in w[Depth] : \A e \in Resolution!eligible_dependency_entries(n.source, n.name) :
           ~Resolution!LoadFails(e, n.name))'
    BY <1>1, <2>3, LoadKept, EligibleKept DEF Depth
  <2> HIDE DEF demands
  <2>7. Resolution!validate_cran_demand_count(plan)'
    BY <1>1, <1>4, EnvKept DEF Resolution!validate_cran_demand_count
  <2>8. (Resolution!MissingCranDemand(plan) = {})'
    BY <1>1, <1>4, EnvKept DEF Resolution!MissingCranDemand, Resolution!raw_package_is_covered,
       Resolution!Lookup
  <2>9. Settled'
    BY <2>4, <2>5, <2>6, <2>7, <2>8 DEF Settled
  <2> QED
    BY <1>1, <1>4, <2>9, QuietStep DEF Preparing, ResolutionTyped
<1> QED
  <2>1. \/ /\ Resolution!Fail("refresh") /\ UNCHANGED <<plan, cranRoots, work>>
        \/ /\ Resolution!Fail("composition") /\ UNCHANGED <<plan, cranRoots, work>>
        \/ /\ ~Resolution!PlanFails /\ Resolution!validate_cran_demand_count(demands)
           /\ plan' = demands
           /\ IF missing # {}
              THEN /\ Resolution!Request(cranRoots \cup missing, Resolution!cran_optional_demands(demands), "universe again")
                   /\ stage' = "prepare"
              ELSE stage' = "universe" /\ UNCHANGED <<cranRoots, work>>
    BY DEF Resolution!Plan
  <2> HIDE DEF demands, missing
  <2>2. CASE stage' = "done" /\ UNCHANGED <<plan, cranRoots, work>>
    BY <1>2, <2>2
  <2>3. CASE /\ missing # {} /\ stage' = "prepare"
             /\ Resolution!Request(cranRoots \cup missing, Resolution!cran_optional_demands(demands), "universe again")
    <3>1. DOMAIN work' = WorkFields /\ work'.then = "universe again"
      BY <2>3 DEF Resolution!Request, WorkFields
    <3> QED
      BY <1>3, <2>3, <3>1
  <2> QED
    BY <1>4, <2>1, <2>2, <2>3 DEF Resolution!Fail

(* The CRAN entry is one.                                                  *)
LEMMA CranIndex ==
  ASSUME Resolution!CranEntries # {}
  PROVE  /\ Resolution!cranIndex \in Resolution!Entries /\ Resolution!cranIndex \in Resolution!CranEntries
         /\ env.repos[Resolution!cranIndex].kind = "cran"
<1>1. Resolution!cranIndex \in Resolution!CranEntries
  BY DEF Resolution!cranIndex
<1> QED
  BY <1>1 DEF Resolution!CranEntries

(* CRAN gets a snapshot that is partial and true.                          *)
LEMMA SnapshotStep ==
  ASSUME ResolutionTyped, ResolutionInvariant, UNCHANGED <<env, groups>>, Resolution!CranEntries # {},
         NEW s, s # None, ~s.complete, \A p \in DOMAIN s.held : s.held[p] = env.cran[p],
         snap' = [snap EXCEPT ![Resolution!cranIndex] = s],
         DOMAIN work' = WorkFields, stage' \in {"plan", "universe again"}
  PROVE  ResolutionKeeps
<1>1. /\ Resolution!cranIndex \in DOMAIN snap /\ snap'[Resolution!cranIndex] = s
      /\ \A e \in Resolution!Entries : e # Resolution!cranIndex => snap'[e] = snap[e]
  BY CranIndex DEF ResolutionTyped
<1>2. ResolutionTyped'
  BY EnvKept DEF ResolutionTyped
<1>3. CranIsTrue'
  <2>1. \A e \in Resolution!CranEntries : e \in Resolution!Entries
    BY DEF Resolution!CranEntries
  <2>2. ASSUME NEW e \in Resolution!CranEntries, snap'[e] # None
        PROVE  ~snap'[e].complete /\ \A p \in DOMAIN snap'[e].held : snap'[e].held[p] = env.cran[p]
    <3>1. CASE e = Resolution!cranIndex
      BY <1>1, <3>1
    <3>2. CASE e # Resolution!cranIndex
      <4>1. snap'[e] = snap[e] /\ snap[e] # None
        BY <1>1, <2>1, <2>2, <3>2
      <4> QED
        BY <4>1 DEF ResolutionInvariant, CranIsTrue
    <3> QED
      BY <3>1, <3>2
  <2>3. env'.cran = env.cran /\ Resolution!CranEntries' = Resolution!CranEntries
    BY EnvKept
  <2>4. ASSUME NEW e \in Resolution!CranEntries', snap'[e] # None
        PROVE  ~snap'[e].complete /\ \A p \in DOMAIN snap'[e].held : snap'[e].held[p] = env'.cran[p]
    <3>1. e \in Resolution!CranEntries
      BY <2>3
    <3>2. ~snap'[e].complete /\ \A p \in DOMAIN snap'[e].held : snap'[e].held[p] = env.cran[p]
      BY <2>2, <2>4, <3>1
    <3> QED
      BY <2>3, <3>2
  <2> QED
    BY <2>4 DEF CranIsTrue
<1>4. UniverseIsWhole'
  <2>1. \A e \in Resolution!Entries : env.repos[e].kind = "r-universe" => snap'[e] = snap[e]
    BY <1>1, CranIndex
  <2> QED
    BY <2>1, EnvKept DEF ResolutionInvariant, UniverseIsWhole, Resolution!Lookup
<1>5. AskedIsThere'
  BY <1>1, EnvKept DEF AskedIsThere
<1> QED
  BY <1>2, <1>3, <1>4, <1>5 DEF ResolutionKeeps, ResolutionInvariant, Preparing

LEMMA PrepareStep ==
  ASSUME ResolutionTyped, ResolutionInvariant, Resolution!Prepare
  PROVE  ResolutionKeeps
<1>1. /\ UNCHANGED <<env, cranRoots, plan, groups>> /\ stage = "prepare" /\ Resolution!CranEntries # {}
      /\ work.then \in {"plan", "universe again"}
  BY DEF Resolution!Prepare, ResolutionInvariant, Preparing
<1>2. CASE stage' = "done" /\ UNCHANGED <<snap, work>>
  BY <1>1, <1>2, FailStep DEF ResolutionTyped
<1>3. CASE /\ Resolution!Reusable /\ snap' = [snap EXCEPT ![Resolution!cranIndex] = env.view]
           /\ stage' = work.then /\ UNCHANGED work
  <2>1. env.view # None /\ ~env.view.complete /\ \A p \in DOMAIN env.view.held : env.view.held[p] = env.cran[p]
    BY <1>3, ResolutionAssumption DEF Resolution!Reusable, ResolutionTyped
  <2> QED
    BY <1>1, <1>3, <2>1, SnapshotStep DEF ResolutionTyped
<1>4. CASE /\ work' = [work EXCEPT !.required = Resolution!Required,
                          !.closure = Resolution!Required \cup
                             {p \in work.optional : Resolution!package_allowed(Resolution!cranIndex, p)}]
           /\ stage' = "collect" /\ UNCHANGED snap
  <2>1. /\ DOMAIN work' = WorkFields /\ work'.then = work.then /\ Resolution!Required \subseteq work'.closure
        /\ work'.closure \subseteq env.repos[Resolution!cranIndex].allow
    BY <1>4 DEF ResolutionTyped, WorkFields, Resolution!Required, Resolution!package_allowed
  <2>2. Asked \subseteq Resolution!Required
    BY DEF Asked, Resolution!Required, Resolution!is_remote_name
  <2>3. AskedIsCollected'
    BY <1>1, <2>1, <2>2, AskedKept DEF AskedIsCollected
  <2>4. ResolutionTyped'
    BY <1>1, <1>4, <2>1, EnvKept DEF ResolutionTyped
  <2>5. UniverseIsWhole' /\ CranIsTrue'
    BY <1>1, <1>4, SnapshotsKept DEF ResolutionInvariant
  <2> QED
    BY <1>1, <1>4, <2>1, <2>3, <2>4, <2>5, EnvKept DEF ResolutionKeeps, ResolutionInvariant, Preparing
<1> QED
  BY <1>2, <1>3, <1>4 DEF Resolution!Prepare, Resolution!Fail

LEMMA CollectStep ==
  ASSUME ResolutionTyped, ResolutionInvariant, Resolution!Collect
  PROVE  ResolutionKeeps
<1>1. /\ UNCHANGED <<env, stage, snap, cranRoots, plan, groups>> /\ stage = "collect" /\ Resolution!CranEntries # {}
      /\ work.then \in {"plan", "universe again"} /\ work.closure \subseteq env.repos[Resolution!cranIndex].allow
      /\ AskedIsCollected /\ work' = Resolution!Visit
  BY DEF Resolution!Collect, ResolutionInvariant, Preparing
<1>2. /\ DOMAIN work' = WorkFields /\ work'.then = work.then
      /\ work'.closure = (work.closure \cup Resolution!DepsOf(Resolution!Batch)) \ Resolution!Dropped
  BY <1>1 DEF Resolution!Visit, ResolutionTyped, WorkFields
<1>3. \A p \in Resolution!Dropped : env.cran[p] = {}
  BY DEF Resolution!Dropped
<1>4. Resolution!DepsOf(Resolution!Batch) \subseteq env.repos[Resolution!cranIndex].allow
  BY DEF Resolution!DepsOf, Resolution!AllowedDeps, Resolution!package_allowed
<1>5. AskedIsCollected'
  BY <1>1, <1>2, <1>3, AskedKept DEF AskedIsCollected
<1>6. ResolutionTyped'
  BY <1>1, <1>2, EnvKept DEF ResolutionTyped
<1>7. UniverseIsWhole' /\ CranIsTrue'
  BY <1>1, SnapshotsKept DEF ResolutionInvariant
<1>8. work'.closure \subseteq env.repos[Resolution!cranIndex].allow
  BY <1>1, <1>2, <1>4
<1> QED
  BY <1>1, <1>2, <1>5, <1>6, <1>7, <1>8, EnvKept DEF ResolutionKeeps, ResolutionInvariant, Preparing

LEMMA PublishStep ==
  ASSUME ResolutionTyped, ResolutionInvariant, Resolution!Publish
  PROVE  ResolutionKeeps
<1> DEFINE present == {p \in work.closure : env.cran[p] # {}}
           published == [held |-> [p \in present |-> env.cran[p]], complete |-> FALSE]
<1>1. /\ UNCHANGED <<env, cranRoots, work, plan, groups>> /\ stage = "collect" /\ Resolution!CranEntries # {}
      /\ work.then \in {"plan", "universe again"} /\ work.closure \subseteq env.repos[Resolution!cranIndex].allow
      /\ AskedIsCollected
  BY DEF Resolution!Publish, ResolutionInvariant, Preparing
<1>2. CASE stage' = "done" /\ UNCHANGED snap
  BY <1>1, <1>2, FailStep DEF ResolutionTyped
<1>3. CASE work.closure = {} /\ UNCHANGED snap /\ stage' = work.then
  <2>1. AskedIsThere'
    BY <1>1, <1>3, EnvKept, AskedKept DEF AskedIsThere, AskedIsCollected
  <2>2. ResolutionTyped'
    BY <1>1, <1>3, EnvKept DEF ResolutionTyped
  <2>3. UniverseIsWhole' /\ CranIsTrue'
    BY <1>1, <1>3, SnapshotsKept DEF ResolutionInvariant
  <2> QED
    BY <1>1, <1>3, <2>1, <2>2, <2>3 DEF ResolutionKeeps, ResolutionInvariant, Preparing
<1>4. CASE snap' = [snap EXCEPT ![Resolution!cranIndex] = published] /\ stage' = work.then
  <2>1. env.repos[Resolution!cranIndex].allow \subseteq PackageNames
    BY <1>1, CranIndex, ResolutionAssumption DEF ResolutionTyped, Resolution!Entries
  <2>2. present \in SUBSET PackageNames
    BY <1>1, <2>1
  <2>3. published # None
    BY <2>2, ResolutionAssumption DEF ResolutionTyped
  <2>4. ~published.complete /\ \A p \in DOMAIN published.held : published.held[p] = env.cran[p]
    OBVIOUS
  <2> HIDE DEF published
  <2> QED
    BY <1>1, <1>4, <2>3, <2>4, SnapshotStep DEF ResolutionTyped
<1> QED
  BY <1>2, <1>3, <1>4 DEF Resolution!Publish, Resolution!Fail

(* An endpoint of r-universe is prepared.                                  *)
LEMMA UniverseStep ==
  ASSUME ResolutionTyped, ResolutionInvariant, Resolution!Universe
  PROVE  ResolutionKeeps
<1>1. UNCHANGED <<env, cranRoots, work, plan>> /\ stage \in {"universe", "universe again"}
  BY DEF Resolution!Universe
<1>2. CASE stage' = "done" /\ UNCHANGED <<snap, groups>>
  BY <1>1, <1>2, FailStep DEF ResolutionTyped
<1>3. ASSUME NEW g \in Resolution!Unprepared,
             snap' = [e \in Resolution!Entries |->
                        IF e \in Resolution!GroupEntries(g)
                        THEN [held |-> [p \in {q \in Resolution!r_universe_group_scope(g) : env.univ[q] # {}} |-> env.univ[p]],
                              complete |-> TRUE]
                        ELSE snap[e]],
             groups' = groups \cup {g}, stage' = "universe again"
      PROVE  ResolutionKeeps
  <2> DEFINE scope == Resolution!r_universe_group_scope(g)
             offered == {q \in scope : env.univ[q] # {}}
             whole == [held |-> [p \in offered |-> env.univ[p]], complete |-> TRUE]
  <2>1. \A e \in Resolution!Entries : snap'[e] = IF e \in Resolution!GroupEntries(g) THEN whole ELSE snap[e]
    BY <1>3
  <2>2. ResolutionTyped'
    BY <1>1, <1>3, EnvKept DEF ResolutionTyped
  <2>3. /\ \A e \in Resolution!Entries : env.repos[e].allow \subseteq PackageNames
        /\ Resolution!GroupEntries(g) = {e \in Resolution!Entries : env.repos[e].kind = "r-universe" /\ env.repos[e].group = g}
    BY ResolutionAssumption DEF ResolutionTyped, Resolution!Entries, Resolution!GroupEntries
  <2>4. scope \subseteq PackageNames /\ \A e \in Resolution!GroupEntries(g) : env.repos[e].allow \subseteq scope
    BY <2>3 DEF Resolution!r_universe_group_scope
  <2>5. offered \in SUBSET PackageNames
    BY <2>4
  <2>6. whole # None /\ whole.complete
    BY <2>5, ResolutionAssumption DEF ResolutionTyped
  <2>7. \A p \in scope : Resolution!Lookup(whole, p) = env.univ[p]
    BY DEF Resolution!Lookup
  <2> HIDE DEF whole, scope
  <2>8. UniverseIsWhole'
    <3> SUFFICES ASSUME NEW e \in Resolution!Entries, env.repos[e].kind = "r-universe", env.repos[e].group \in groups \cup {g}
                 PROVE  /\ snap'[e] # None /\ snap'[e].complete
                        /\ \A p \in env.repos[e].allow : Resolution!Lookup(snap'[e], p) = env.univ[p]
      BY <1>1, <1>3, EnvKept DEF UniverseIsWhole, Resolution!Lookup
    <3>1. CASE e \in Resolution!GroupEntries(g)
      BY <2>1, <2>4, <2>6, <2>7, <3>1
    <3>2. CASE e \notin Resolution!GroupEntries(g)
      <4>1. env.repos[e].group \in groups /\ snap'[e] = snap[e]
        BY <2>1, <2>3, <3>2
      <4> QED
        BY <4>1 DEF ResolutionInvariant, UniverseIsWhole
    <3> QED
      BY <3>1, <3>2
  <2>9. \A e \in Resolution!CranEntries : e \in Resolution!Entries /\ snap'[e] = snap[e]
    BY <2>1, <2>3 DEF Resolution!CranEntries
  <2>10. CranIsTrue'
    <3>1. CranIsTrue
      BY DEF ResolutionInvariant
    <3>2. env' = env /\ Resolution!CranEntries' = Resolution!CranEntries
      BY <1>1, EnvKept
    <3> QED
      BY <2>9, <3>1, <3>2 DEF CranIsTrue
  <2>11. Resolution!CranEntries # {} => AskedIsThere'
    BY <1>1, <2>9, EnvKept, AskedKept, CranIndex DEF ResolutionInvariant, AskedIsThere, Preparing
  <2> QED
    BY <1>1, <1>3, <2>2, <2>8, <2>10, <2>11, EnvKept DEF ResolutionKeeps, ResolutionInvariant, Preparing
<1> QED
  BY <1>2, <1>3 DEF Resolution!Universe, Resolution!Fail

LEMMA EndTurnStep ==
  ASSUME ResolutionTyped, ResolutionInvariant, Resolution!EndTurn
  PROVE  ResolutionKeeps
BY QuietStep DEF Resolution!EndTurn, Preparing, ResolutionTyped, ResolutionInvariant

LEMMA QualifiedStep ==
  ASSUME ResolutionTyped, ResolutionInvariant, Resolution!Qualified
  PROVE  ResolutionKeeps
BY QuietStep DEF Resolution!Qualified, Resolution!Fail, Preparing, ResolutionTyped, ResolutionInvariant

LEMMA FailingStep ==
  ASSUME ResolutionTyped, ResolutionInvariant, Resolution!CollectFails \/ Resolution!UniverseFails \/ Resolution!Solve
  PROVE  ResolutionKeeps
BY FailStep DEF Resolution!CollectFails, Resolution!UniverseFails, Resolution!Solve, Resolution!Fail,
   ResolutionTyped

LEMMA StillStep ==
  ASSUME ResolutionTyped, ResolutionInvariant, UNCHANGED Resolution!vars
  PROVE  ResolutionKeeps
<1>1. UNCHANGED <<env, stage, snap, cranRoots, prepared, work, plan, groups, outcome>>
  BY DEF Resolution!vars
<1>2. CASE stage \notin Preparing
  BY <1>1, <1>2, QuietStep, SettledKept DEF Preparing, ResolutionTyped, ResolutionInvariant
<1>3. CASE stage \in Preparing
  <2>1. ResolutionTyped'
    BY <1>1, EnvKept DEF ResolutionTyped
  <2>2. UniverseIsWhole' /\ CranIsTrue'
    BY <1>1, SnapshotsKept DEF ResolutionInvariant
  <2>3. AskedIsCollected' <=> AskedIsCollected
    BY <1>1, AskedKept DEF AskedIsCollected
  <2> QED
    BY <1>1, <1>3, <2>1, <2>2, <2>3, EnvKept DEF ResolutionKeeps, ResolutionInvariant, Preparing
<1> QED
  BY <1>2, <1>3

LEMMA ResolutionStep ==
  ASSUME ResolutionTyped, ResolutionInvariant, [Resolution!Next]_(Resolution!vars)
  PROVE  ResolutionKeeps
<1>1. CASE Resolution!Done
  BY <1>1, StillStep DEF Resolution!Done
<1> QED
  BY <1>1, StartStep, DirectStep, SeedStep, PrepareStep, CollectStep, PublishStep, PlanStep, UniverseStep,
     EndTurnStep,
     QualifiedStep, FailingStep, StillStep DEF Resolution!Next

(* The other components leave what the resolution uses alone.              *)
LEMMA ResolutionNow ==
  ASSUME [ProjectNext]_projectVars, which = "resolution" \/ which' = "resolution"
  PROVE  which = "resolution" /\ which' = "resolution" /\ [Resolution!Next]_(Resolution!vars)
BY DEF ProjectNext, CopyNext, CopyEnded, CommandNext, PreparationNext, ResolutionNext, UpdateNext, projectVars,
   resolutionOnly,
       Resolution!vars

(***************************************************************************)
(* When the rounds of the resolution end, every package that can be reached *)
(* over the full contents of the registries is in the snapshot of every    *)
(* entry that has it and may answer for it, for any packages, repositories *)
(* and manifests: the last plan asked for nothing that was not prepared,   *)
(* hence each entry answered the walk with what its registry has, and the  *)
(* walk over the snapshots is the walk over the registries.                *)
(***************************************************************************)
THEOREM ClosureCovered == ProjectSpec => []SnapshotsCoverTheClosure
<1>1. ProjectInit => (which = "resolution" => ResolutionTyped /\ ResolutionInvariant)
  BY ResolutionInit DEF ProjectInit
<1>2. [ProjectNext]_projectVars /\ (which = "resolution" => ResolutionTyped /\ ResolutionInvariant)
        => (which = "resolution" => ResolutionTyped /\ ResolutionInvariant)'
  BY ResolutionNow, ResolutionStep DEF ResolutionKeeps
<1>3. ResolutionTyped /\ ResolutionInvariant => Resolution!SnapshotsCoverTheClosure
  <2> SUFFICES ASSUME ResolutionTyped, ResolutionInvariant, stage \in {"qualified", "solve"}
               PROVE  Resolution!SnapshotsCoverTheClosure
    BY DEF Resolution!SnapshotsCoverTheClosure
  <2> QED
    BY SettledCovers, UndemandedCovers DEF ResolutionInvariant, Preparing
<1>4. (which = "resolution" => ResolutionTyped /\ ResolutionInvariant) => SnapshotsCoverTheClosure
  BY <1>3 DEF SnapshotsCoverTheClosure
<1> QED
  BY <1>1, <1>2, <1>4, PTL DEF ProjectSpec
=============================================================================
