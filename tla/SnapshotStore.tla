--------------------------- MODULE SnapshotStore ---------------------------
(***************************************************************************)
(* The persistent snapshot store of rsolve-provider (snapshot/cache.rs):   *)
(* immutable generations named by a digest of their content, mutable view  *)
(* heads that point at them, and one advisory refresh lock.                *)
(*                                                                         *)
(* A process publishes a generation and the head of its view, reads the    *)
(* selected view under the lock, observes the selected revision without    *)
(* the lock, or cleans up.  It may be killed at any step, one of its I/O   *)
(* calls may fail, files may be damaged from outside, and the machine may  *)
(* lose power: a name then shows any of the values it had since its        *)
(* directory was last synchronised (generationImages, headImages).         *)
(***************************************************************************)
EXTENDS Naturals

CONSTANTS
  Processes,
  Generations,    \* contents: [id, coverage]; the generation name is a digest of both
  Endpoints,
  AnyEndpoint,    \* the scope of readers that give no endpoint
  Stamps,         \* values of created_at, in the header but not in the generation name
  Jobs,           \* [op, endpoint, generation]
  MaxSequence,    \* u64::MAX, made small
  Damages,        \* subset of {"unreadable", "foreign", "history", "head"}
  MaxDamage,      \* bound on the number of damaged files
  MayKill, MayFail, MayLosePower,
  Absent, Malformed, Unreadable, Foreign, NoOne, None

ASSUME JobAssumption ==
  /\ Jobs \subseteq [op : {"publish", "read", "probe", "cleanup"},
                     endpoint : Endpoints \cup {AnyEndpoint}, generation : Generations]
  /\ AnyEndpoint \notin Endpoints
  /\ \A j \in Jobs : j.op = "publish" => j.endpoint \in Endpoints
ASSUME BoundAssumption == MaxSequence \in Nat \ {0} /\ MaxDamage \in Nat
ASSUME FlagAssumption == {MayKill, MayFail, MayLosePower} \subseteq BOOLEAN

VARIABLES
  generations,       \* file of each generation name
  generationImages,  \* what a power loss may leave under that name
  heads,             \* file of each view key
  headImages,
  temporaries,       \* processes with a staged file in tmp/
  lock,              \* holder of the refresh lock
  pc, job,
  stamp,             \* created_at of the generation a process stages
  header,            \* the header its head is bound to
  sequence,          \* the refresh sequence of its head
  pending,           \* names a scan or a cleanup has still to visit
  best,              \* the latest head a scan has met
  missed,            \* the valid heads a cleanup could not read
  result, view,      \* what the call returned
  damaged,           \* number of damaged files
  seen               \* history: views selected in a reader's scope during its call

files == <<generations, generationImages, heads, headImages>>
locals == <<stamp, header, sequence, pending, best, missed>>
vars == <<files, temporaries, lock, pc, job, locals, result, view, damaged, seen>>

-----------------------------------------------------------------------------

\* view_key_for_parts: endpoint and coverage, not the content.
Keys == [endpoint : Endpoints, coverage : {g.coverage : g \in Generations}]
Key(p) == [endpoint |-> job[p].endpoint, coverage |-> job[p].generation.coverage]

\* A generation file whose header decodes and that opens; its histories are read
\* lazily, so that it may be intact or not.
Readable == [header : Stamps, intact : BOOLEAN]
GenerationFile == Readable \cup {Absent, Unreadable, Foreign}

Head == [generation : Generations, header : Stamps, sequence : 1 .. MaxSequence]
HeadFile == Head \cup {Absent, Malformed}

\* The marks for files that do not decode are no files.
ASSUME MarkAssumption ==
  /\ NoOne \notin Processes
  /\ Absent \notin {Malformed, Unreadable, Foreign}
  /\ {Absent, Unreadable, Foreign} \cap Readable = {}
  /\ {Absent, Malformed} \cap Head = {}
  /\ Absent \notin Endpoints \X Head

Present(k) == heads[k] # Absent

\* open_generation_locked; Foreign is a well-formed generation of another identity.
Opens(g) == generations[g] \notin {Absent, Unreadable, Foreign}

\* read_view_optional_locked: the head decodes and is bound to the header found.
Valid(k) ==
  /\ heads[k] \notin {Absent, Malformed}
  /\ Opens(heads[k].generation)
  /\ generations[heads[k].generation].header = heads[k].header

InScope(k, e) == e = AnyEndpoint \/ k.endpoint = e

\* read_view_for_endpoint_locked and read_latest_view_head_optional_locked.  A tie of
\* sequences goes by the view key, a digest: either may win.
Selected(e) ==
  {k \in Keys : /\ Valid(k) /\ InScope(k, e)
                /\ \A m \in Keys : Valid(m) /\ InScope(m, e) => heads[m].sequence <= heads[k].sequence}

\* The greatest sequence of a valid head, 0 when there is none.
LatestSequence(n) ==
  /\ \A k \in Keys : Valid(k) => heads[k].sequence <= n
  /\ n = 0 \/ \E k \in Keys : Valid(k) /\ heads[k].sequence = n

InvalidHeads == {k \in Keys : Present(k) /\ ~Valid(k)}

\* A published view, as a caller sees it.
ViewOf(k) == <<k.endpoint, heads[k]>>
SelectedView(e) == IF Selected(e) = {} THEN Absent ELSE ViewOf(CHOOSE k \in Selected(e) : TRUE)

-----------------------------------------------------------------------------

Goto(p, from, to) ==
  /\ pc[p] = from
  /\ pc' = [pc EXCEPT ![p] = to]
  /\ UNCHANGED <<lock, job, result, view, damaged>>

\* The local variables of a call go with it.
DropLocals(ps) ==
  /\ stamp' = [q \in Processes |-> IF q \in ps THEN None ELSE stamp[q]]
  /\ sequence' = [q \in Processes |-> IF q \in ps THEN 0 ELSE sequence[q]]
  /\ pending' = [q \in Processes |-> IF q \in ps THEN {} ELSE pending[q]]
  /\ best' = [q \in Processes |-> IF q \in ps THEN Absent ELSE best[q]]
  /\ missed' = [q \in Processes |-> IF q \in ps THEN {} ELSE missed[q]]
  /\ seen' = [q \in Processes |-> IF q \in ps THEN {} ELSE seen[q]]

\* A call ends: the lock is dropped, the staged file removed by its guard.
Finish(p, outcome, answer) ==
  /\ pc' = [pc EXCEPT ![p] = "done"]
  /\ result' = [result EXCEPT ![p] = outcome]
  /\ view' = [view EXCEPT ![p] = answer]
  /\ lock' = IF lock = p THEN NoOne ELSE lock
  /\ temporaries' = temporaries \ {p}
  /\ DropLocals({p})
  /\ UNCHANGED <<job, header, damaged>>

Return(p, outcome) == Finish(p, outcome, Absent)

PutGeneration(g, file) ==
  /\ generations' = [generations EXCEPT ![g] = file]
  /\ generationImages' = [generationImages EXCEPT ![g] = @ \cup {file}]
  /\ UNCHANGED <<heads, headImages>>

(***************************************************************************)
(* The refresh lock, taken by everything but the unlocked observation      *)
(***************************************************************************)

Start(p) ==
  /\ pc[p] = "idle"
  /\ pc' = [pc EXCEPT ![p] = IF job[p].op = "probe" THEN "scan" ELSE "lock"]
  /\ pending' = [pending EXCEPT ![p] = IF job[p].op = "probe" THEN {k \in Keys : Present(k)} ELSE {}]
  /\ seen' = IF job[p].op \in {"read", "probe"}
             THEN [seen EXCEPT ![p] = {SelectedView(job[p].endpoint)}]
             ELSE seen
  /\ UNCHANGED <<files, temporaries, lock, job, stamp, header, sequence, best, missed, result, view, damaged>>

FirstStep(p) ==
  CASE job[p].op = "publish" -> "stage"
    [] job[p].op = "read" -> "read"
    [] OTHER -> "retain"

\* Mutant: the lock is opened and never waited for.
LockWithoutWaiting(p) ==
  /\ Goto(p, "lock", FirstStep(p))
  /\ UNCHANGED <<files, temporaries, locals, seen>>

\* acquire_refresh_lock(Blocking)
Lock(p) ==
  /\ pc[p] = "lock"
  /\ lock = NoOne
  /\ lock' = p
  /\ pc' = [pc EXCEPT ![p] = FirstStep(p)]
  /\ UNCHANGED <<files, temporaries, job, locals, result, view, damaged, seen>>

(***************************************************************************)
(* build_and_publish_locked                                                *)
(***************************************************************************)

\* prepare_staged and validate_staged_generation.
Stage(p) ==
  /\ Goto(p, "stage", "install")
  /\ \E t \in Stamps : stamp' = [stamp EXCEPT ![p] = t]
  /\ temporaries' = temporaries \cup {p}
  /\ UNCHANGED <<files, header, sequence, pending, best, missed, seen>>

\* An intact file is kept with its own header and the staged one is removed; a damaged
\* file is replaced; a file of another identity is a collision.
Reuse(p, g) ==
  /\ Opens(g) /\ generations[g].intact
  /\ Goto(p, "install", "syncGenerations")
  /\ header' = [header EXCEPT ![p] = generations[g].header]
  /\ temporaries' = temporaries \ {p}
  /\ UNCHANGED <<files, stamp, sequence, pending, best, missed, seen>>

Replace(p, g) ==
  /\ Goto(p, "install", "syncFile")
  /\ PutGeneration(g, [header |-> stamp[p], intact |-> TRUE])
  /\ header' = [header EXCEPT ![p] = stamp[p]]
  /\ temporaries' = temporaries \ {p}
  /\ UNCHANGED <<stamp, sequence, pending, best, missed, seen>>

Collide(p, g) ==
  /\ pc[p] = "install"
  /\ generations[g] = Foreign
  /\ Return(p, "collision")
  /\ UNCHANGED files

\* publish_staged_generation up to the rename.
Install(p) ==
  LET g == job[p].generation IN
  \/ Reuse(p, g)
  \/ generations[g] # Foreign /\ ~(Opens(g) /\ generations[g].intact) /\ Replace(p, g)
  \/ Collide(p, g)

\* sync_file of the final path: its content was already synchronised when staged.
SyncFile(p) ==
  /\ Goto(p, "syncFile", "syncGenerations")
  /\ UNCHANGED <<files, temporaries, locals, seen>>

\* Mutant: the directory of generations is not synchronised.
SyncGenerationsSkipped(p) ==
  /\ Goto(p, "syncGenerations", "previous")
  /\ UNCHANGED <<files, temporaries, locals, seen>>

SyncGenerations(p) ==
  /\ Goto(p, "syncGenerations", "previous")
  /\ generationImages' = [g \in Generations |-> {generations[g]}]
  /\ UNCHANGED <<generations, heads, headImages, temporaries, locals, seen>>

\* read_latest_view_validation_locked and next_refresh_sequence.
Previous(p) ==
  /\ pc[p] = "previous"
  /\ \E latest \in 0 .. MaxSequence :
       /\ LatestSequence(latest)
       /\ \/ /\ latest = 0 => InvalidHeads = {}
             /\ latest < MaxSequence
             /\ Goto(p, "previous", "publishHead")
             /\ sequence' = [sequence EXCEPT ![p] = latest + 1]
             /\ UNCHANGED <<temporaries, stamp, header, pending, best, missed, seen>>
          \/ latest = 0 /\ InvalidHeads # {} /\ Return(p, "headsInvalid")
          \/ latest = MaxSequence /\ Return(p, "overflow")
  /\ UNCHANGED files

\* publish_view_head: a temporary file is written, synchronised and renamed.
PublishHead(p) ==
  LET k == Key(p)
      h == [generation |-> job[p].generation, header |-> header[p], sequence |-> sequence[p]] IN
  /\ Goto(p, "publishHead", "syncViews")
  /\ heads' = [heads EXCEPT ![k] = h]
  /\ headImages' = [headImages EXCEPT ![k] = @ \cup {h}]
  /\ seen' = [q \in Processes |->
                IF seen[q] # {} /\ InScope(k, job[q].endpoint)
                THEN seen[q] \cup {<<k.endpoint, h>>} ELSE seen[q]]
  /\ UNCHANGED <<generations, generationImages, temporaries, locals>>

SyncViews(p) ==
  /\ Goto(p, "syncViews", "pin")
  /\ headImages' = [k \in Keys |-> {heads[k]}]
  /\ UNCHANGED <<generations, generationImages, heads, temporaries, locals, seen>>

\* open_generation_locked: the loader returned is pinned before the lock is dropped.
Pin(p) ==
  /\ pc[p] = "pin"
  /\ LET g == job[p].generation IN
     IF Opens(g) THEN Finish(p, "published", <<g, generations[g].header>>) ELSE Return(p, "reopen")
  /\ UNCHANGED files

(***************************************************************************)
(* Readers and cleanup                                                     *)
(***************************************************************************)

\* read_view_for_endpoint, read_latest_view_optional: an invalid head is an error only
\* when no valid one is in scope.
Read(p) ==
  /\ pc[p] = "read"
  /\ LET e == job[p].endpoint IN
     \/ \E k \in Selected(e) : Finish(p, "found", ViewOf(k))
     \/ Selected(e) = {} /\ InvalidHeads = {} /\ Return(p, "missing")
     \/ Selected(e) = {} /\ InvalidHeads # {} /\ Return(p, "invalid")
  /\ UNCHANGED files

\* read_view_validation_revision_unlocked reads one head after the other and keeps the
\* greatest; it looks at no generation.
Later(v, w) == w = Absent \/ v[2].sequence > w[2].sequence

ScanHead(p, k) ==
  /\ k \in pending[p]
  /\ heads[k] # Malformed
  /\ Goto(p, "scan", "scan")
  /\ pending' = [pending EXCEPT ![p] = @ \ {k}]
  /\ best' = [best EXCEPT ![p] =
                IF InScope(k, job[p].endpoint) /\ Later(ViewOf(k), @) THEN ViewOf(k) ELSE @]
  /\ UNCHANGED <<files, temporaries, stamp, header, sequence, missed, seen>>

ScanMalformed(p, k) ==
  /\ k \in pending[p]
  /\ heads[k] = Malformed
  /\ \/ /\ job[p].endpoint \in Endpoints
        /\ Goto(p, "scan", "scan")
        /\ pending' = [pending EXCEPT ![p] = @ \ {k}]
        /\ UNCHANGED <<temporaries, stamp, header, sequence, best, missed, seen>>
     \/ /\ pc[p] = "scan"
        /\ job[p].endpoint = AnyEndpoint
        /\ Return(p, "invalid")
  /\ UNCHANGED files

ScanEnd(p) ==
  /\ pc[p] = "scan"
  /\ pending[p] = {}
  /\ IF best[p] = Absent THEN Return(p, "missing") ELSE Finish(p, "found", best[p])
  /\ UNCHANGED files

Scan(p) == (\E k \in Keys : ScanHead(p, k) \/ ScanMalformed(p, k)) \/ ScanEnd(p)

\* Mutant: only the generation of the selected view is retained.
RetainOnlySelected(p) ==
  /\ Goto(p, "retain", "remove")
  /\ temporaries' = {}
  /\ missed' = [missed EXCEPT ![p] = {}]
  /\ pending' = [pending EXCEPT ![p] =
                   Generations \ {heads[k].generation : k \in Selected(AnyEndpoint)}]
  /\ UNCHANGED <<files, stamp, header, sequence, best, seen>>

\* cleanup: the generations of the heads it reads are kept, and those the caller
\* retains.  It passes over a head, or all of views/, that it cannot read, and over a
\* file in tmp/ that it cannot remove.
Retain(p) ==
  /\ Goto(p, "retain", "remove")
  /\ \E left \in SUBSET temporaries : (left # {} => MayFail) /\ temporaries' = left
  /\ \E unread \in SUBSET {k \in Keys : Valid(k)}, retained \in SUBSET {job[p].generation} :
       /\ unread # {} => MayFail
       /\ missed' = [missed EXCEPT ![p] = unread]
       /\ pending' = [pending EXCEPT ![p] =
                        Generations \ ({heads[k].generation : k \in {m \in Keys : Valid(m)} \ unread}
                                         \cup retained)]
  /\ UNCHANGED <<files, stamp, header, sequence, best, seen>>

\* remove_regular_file: a file that cannot be removed stays, and nobody is told.
RemoveGeneration(p, g) ==
  /\ g \in pending[p]
  /\ Goto(p, "remove", "remove")
  /\ pending' = [pending EXCEPT ![p] = @ \ {g}]
  /\ \/ generations[g] # Absent /\ PutGeneration(g, Absent)
     \/ (generations[g] = Absent \/ MayFail) /\ UNCHANGED files
  /\ UNCHANGED <<temporaries, stamp, header, sequence, best, missed, seen>>

RemoveEnd(p) ==
  /\ pc[p] = "remove"
  /\ pending[p] = {}
  /\ Return(p, "cleaned")
  /\ UNCHANGED files

Remove(p) == (\E g \in Generations : RemoveGeneration(p, g)) \/ RemoveEnd(p)

(***************************************************************************)
(* Failures                                                                *)
(***************************************************************************)

\* An I/O call fails before its effect and the call returns; its staged file is removed.
Fail(p) ==
  /\ MayFail
  /\ pc[p] \notin {"idle", "done"}
  /\ Return(p, "io")
  /\ UNCHANGED files

\* The process is killed: the lock goes with it, the staged file stays.
Kill(p) ==
  /\ MayKill
  /\ pc[p] \notin {"idle", "done"}
  /\ pc' = [pc EXCEPT ![p] = "done"]
  /\ result' = [result EXCEPT ![p] = "killed"]
  /\ lock' = IF lock = p THEN NoOne ELSE lock
  /\ DropLocals({p})
  /\ UNCHANGED <<files, temporaries, job, header, view, damaged>>

PowerLoss ==
  /\ MayLosePower
  /\ generations' \in {f \in [Generations -> UNION {generationImages[g] : g \in Generations}] :
                          \A g \in Generations : f[g] \in generationImages[g]}
  /\ heads' \in {f \in [Keys -> UNION {headImages[k] : k \in Keys}] :
                    \A k \in Keys : f[k] \in headImages[k]}
  /\ generationImages' = [g \in Generations |-> {generations'[g]}]
  /\ headImages' = [k \in Keys |-> {heads'[k]}]
  /\ lock' = NoOne
  /\ pc' = [p \in Processes |-> IF pc[p] = "idle" THEN "idle" ELSE "done"]
  /\ result' = [p \in Processes |-> IF pc[p] \in {"idle", "done"} THEN result[p] ELSE "killed"]
  /\ DropLocals(Processes)
  /\ UNCHANGED <<temporaries, job, header, view, damaged>>

DamageGeneration(g) ==
  /\ damaged < MaxDamage
  /\ Opens(g) /\ generations[g].intact
  /\ \E f \in {Unreadable, Foreign, [generations[g] EXCEPT !.intact = FALSE]} :
       /\ f = Unreadable => "unreadable" \in Damages
       /\ f = Foreign => "foreign" \in Damages
       /\ f \notin {Unreadable, Foreign} => "history" \in Damages
       /\ generations' = [generations EXCEPT ![g] = f]
       /\ generationImages' = [generationImages EXCEPT ![g] = {f}]
  /\ damaged' = damaged + 1
  /\ UNCHANGED <<heads, headImages, temporaries, lock, pc, job, locals, result, view, seen>>

DamageHead(k) ==
  /\ "head" \in Damages
  /\ damaged < MaxDamage
  /\ heads[k] \notin {Absent, Malformed}
  /\ heads' = [heads EXCEPT ![k] = Malformed]
  /\ headImages' = [headImages EXCEPT ![k] = {Malformed}]
  /\ damaged' = damaged + 1
  /\ UNCHANGED <<generations, generationImages, temporaries, lock, pc, job, locals, result, view, seen>>

-----------------------------------------------------------------------------

Init ==
  /\ generations = [g \in Generations |-> Absent]
  /\ generationImages = [g \in Generations |-> {Absent}]
  /\ heads = [k \in Keys |-> Absent]
  /\ headImages = [k \in Keys |-> {Absent}]
  /\ temporaries = {}
  /\ lock = NoOne
  /\ pc = [p \in Processes |-> "idle"]
  /\ job \in [Processes -> Jobs]
  /\ stamp = [p \in Processes |-> None]
  /\ header = [p \in Processes |-> None]
  /\ sequence = [p \in Processes |-> 0]
  /\ pending = [p \in Processes |-> {}]
  /\ best = [p \in Processes |-> Absent]
  /\ missed = [p \in Processes |-> {}]
  /\ result = [p \in Processes |-> "none"]
  /\ view = [p \in Processes |-> Absent]
  /\ damaged = 0
  /\ seen = [p \in Processes |-> {}]

PublishSteps(p) ==
  \/ Stage(p) \/ Install(p) \/ SyncFile(p) \/ SyncGenerations(p) \/ Previous(p)
  \/ PublishHead(p) \/ SyncViews(p) \/ Pin(p)

Step(p) == Start(p) \/ Lock(p) \/ PublishSteps(p) \/ Read(p) \/ Scan(p) \/ Retain(p) \/ Remove(p)

Next ==
  \/ \E p \in Processes : Step(p) \/ Fail(p) \/ Kill(p)
  \/ PowerLoss
  \/ \E g \in Generations : DamageGeneration(g)
  \/ \E k \in Keys : DamageHead(k)

Spec == Init /\ [][Next]_vars

\* A call that has started goes on, and the operating system hands a free lock to one
\* of those that wait.
FairSpec == Spec /\ \A p \in Processes : WF_vars(Step(p) /\ pc[p] # "idle")

-----------------------------------------------------------------------------

Steps ==
  {"idle", "lock", "stage", "install", "syncFile", "syncGenerations", "previous",
   "publishHead", "syncViews", "pin", "read", "scan", "retain", "remove", "done"}

Results ==
  {"none", "published", "found", "missing", "invalid", "cleaned", "headsInvalid", "overflow",
   "collision", "reopen", "io", "killed"}

View == (Endpoints \X Head) \cup (Generations \X Stamps) \cup {Absent}

\* Every variable has its type.
TypeOK ==
  /\ generations \in [Generations -> GenerationFile]
  /\ generationImages \in [Generations -> SUBSET GenerationFile]
  /\ heads \in [Keys -> HeadFile]
  /\ headImages \in [Keys -> SUBSET HeadFile]
  /\ temporaries \subseteq Processes
  /\ lock \in Processes \cup {NoOne}
  /\ pc \in [Processes -> Steps]
  /\ job \in [Processes -> Jobs]
  /\ stamp \in [Processes -> Stamps \cup {None}]
  /\ header \in [Processes -> Stamps \cup {None}]
  /\ sequence \in [Processes -> 0 .. MaxSequence]
  /\ pending \in [Processes -> (SUBSET Keys) \cup (SUBSET Generations)]
  /\ best \in [Processes -> (Endpoints \X Head) \cup {Absent}]
  /\ missed \in [Processes -> SUBSET Keys]
  /\ result \in [Processes -> Results]
  /\ view \in [Processes -> View]
  /\ damaged \in 0 .. MaxDamage
  /\ seen \in [Processes -> SUBSET ((Endpoints \X Head) \cup {Absent})]

\* Whatever a power loss brings back, a head it leaves names a generation it leaves, and
\* is bound to that generation's header.  publish_staged_generation synchronises the
\* generation and its directory before it renames the head.
HeadsNameDurableGenerations ==
  damaged = 0 =>
    \A k \in Keys : \A h \in headImages[k] \ {Absent} :
      generationImages[h.generation] = {[header |-> h.header, intact |-> TRUE]}

\* As long as no file is damaged from outside, no kill, I/O error or power loss leaves a
\* store in which publish_staged_generation, open_generation_locked or a reader fails.
CrashesNeverWedgeTheStore ==
  damaged = 0 => \A p \in Processes :
    result[p] \notin {"invalid", "headsInvalid", "collision", "reopen"}

\* Two views never carry the same refresh sequence, after any crash, so that readers
\* and the unlocked observation agree on which was published last.
SequencesAreDistinct ==
  damaged = 0 =>
    \A k, m \in Keys :
      k # m => \A h \in headImages[k] \ {Absent}, n \in headImages[m] \ {Absent} :
                  h.sequence # n.sequence

\* The loader that build_and_publish returns is pinned to the header its own head is
\* bound to, although later publishers may replace the head and the file.
PinnedIsPublished ==
  \A p \in Processes :
    result[p] = "published" => view[p] = <<job[p].generation, header[p]>>

\* A valid head whose generation is intact.
Whole(k) == Valid(k) /\ generations[heads[k].generation].intact

\* No step of the program takes an intact generation from a head that stays: neither a
\* publication, which replaces damaged files only, nor a cleanup, unless the cleanup
\* could not read that very head.
ValidHeadsStayValid ==
  [][\A k \in Keys : Whole(k) /\ damaged' = damaged /\ heads'[k] = heads[k] =>
       Whole(k)' \/ PowerLoss \/ \E p \in Processes : k \in missed[p]]_vars

\* A corrupt generation is replaced by the next publication of its content, which then
\* republishes the head: damage to generations alone never makes a publication fail on
\* the heads.
PublicationRepairs == \A p \in Processes : result[p] # "headsInvalid"

\* Every call that starts returns.
EveryCallReturns == \A p \in Processes : pc[p] # "idle" ~> pc[p] = "done"

-----------------------------------------------------------------------------

\* Readers as callers of the register.
IsReader(p) == job[p].op \in {"read", "probe"}

Reply(p) ==
  IF ~IsReader(p) THEN <<"pending">>
  ELSE CASE result[p] = "none" -> <<"pending">>
         [] result[p] = "found" -> view[p]
         [] result[p] = "missing" -> Absent
         [] OTHER -> <<"failed">>

\* The scopes, the selection in each of them, and the callers.
Scopes == Endpoints \cup {AnyEndpoint}
ScopesOf(v) == {v[1], AnyEndpoint}
Selection == [e \in Scopes |-> SelectedView(e)]
ScopeOf == [p \in Processes |-> job[p].endpoint]
Replies == [p \in Processes |-> Reply(p)]

Register == INSTANCE ViewRegister WITH
  Callers <- Processes, Views <- Endpoints \X Head, Nothing <- Absent, Pending <- <<"pending">>,
  Failed <- <<"failed">>, MayRevert <- MayLosePower,
  selected <- Selection, scope <- ScopeOf, answer <- Replies

\* The store implements a register per scope: the view published last is the selected
\* one, and what a reader returns, with the lock or without it, was selected at some
\* moment of its call.
ImplementsViewRegister == Register!Spec
=============================================================================
