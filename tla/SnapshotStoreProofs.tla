------------------------ MODULE SnapshotStoreProofs ------------------------
(***************************************************************************)
(* The snapshot store survives kills, I/O errors and power losses, for any *)
(* number of processes, contents, endpoints and any bound on the refresh   *)
(* sequence.  That heads and readers keep what they name needs that nobody *)
(* cleans up; that valid heads stay valid does not; the refinement of      *)
(* ViewRegister needs that and that nothing is damaged.                    *)
(***************************************************************************)
EXTENDS SnapshotStoreInvariant, TLAPS, WellFoundedInduction

\* The names of the steps and of the outcomes.
LEMMA StepNames ==
  /\ {"idle", "lock", "stage", "install", "syncFile", "syncGenerations", "previous",
      "publishHead", "syncViews", "pin", "read", "scan", "retain", "remove", "done"} = Steps
  /\ {"none", "published", "found", "missing", "invalid", "cleaned", "headsInvalid", "overflow",
      "collision", "reopen", "io", "killed"} = Results
BY DEF Steps, Results

\* What a job is.
LEMMA JobTypes ==
  ASSUME TypeOK, NEW p \in Processes
  PROVE  /\ job[p].op \in {"publish", "read", "probe", "cleanup"}
         /\ job[p].endpoint \in Endpoints \cup {AnyEndpoint}
         /\ job[p].generation \in Generations
         /\ job[p].op = "publish" => job[p].endpoint \in Endpoints /\ Key(p) \in Keys
<1>1. job[p] \in Jobs
  BY DEF TypeOK
<1>2. job[p] \in [op : {"publish", "read", "probe", "cleanup"},
                  endpoint : Endpoints \cup {AnyEndpoint}, generation : Generations]
  BY <1>1, JobAssumption
<1>3. job[p].op = "publish" => job[p].endpoint \in Endpoints
  BY <1>1, JobAssumption
<1> QED
  BY <1>2, <1>3 DEF Key, Keys

\* A valid head is a head, and what it shows is a view.
LEMMA ValidHead ==
  ASSUME TypeOK, NEW k \in Keys, Present(k), heads[k] # Malformed
  PROVE  heads[k] \in Head /\ ViewOf(k) \in Endpoints \X Head
BY DEF TypeOK, Present, HeadFile, ViewOf, Keys

\* What is selected is a view, or nothing.
LEMMA SelectedViewType ==
  ASSUME TypeOK, NEW e
  PROVE  SelectedView(e) \in (Endpoints \X Head) \cup {Absent}
<1>1. CASE Selected(e) = {}
  BY <1>1 DEF SelectedView
<1>2. CASE Selected(e) # {}
  <2>1. PICK k \in Selected(e) : k = CHOOSE m \in Selected(e) : TRUE
    BY <1>2
  <2>2. k \in Keys /\ Present(k) /\ heads[k] # Malformed
    BY <2>1 DEF Selected, Valid, Present
  <2> QED
    BY <1>2, <2>1, <2>2, ValidHead DEF SelectedView
<1> QED
  BY <1>1, <1>2

\* Every call that ends keeps the types.
LEMMA FinishTypes ==
  ASSUME Typed, NEW p \in Processes, NEW outcome \in Results, NEW answer \in View,
         Finish(p, outcome, answer), UNCHANGED files
  PROVE  Typed'
<1>1. TypeOK'
  <2>1. /\ stamp' \in [Processes -> Stamps \cup {None}]
        /\ sequence' \in [Processes -> 0 .. MaxSequence]
        /\ best' \in [Processes -> (Endpoints \X Head) \cup {Absent}]
        /\ missed' \in [Processes -> SUBSET Keys]
        /\ seen' \in [Processes -> SUBSET ((Endpoints \X Head) \cup {Absent})]
    BY BoundAssumption DEF Typed, TypeOK, Finish, DropLocals
  <2>2. pending' \in [Processes -> (SUBSET Keys) \cup (SUBSET Generations)]
    BY DEF Typed, TypeOK, Finish, DropLocals
  <2> QED
    BY <2>1, <2>2, StepNames DEF Typed, TypeOK, Finish, files
<1>2. ASSUME NEW q \in Processes PROVE LocalsKnown(q)'
  <2>1. CASE q = p
    BY <2>1 DEF Typed, TypeOK, Finish, LocalsKnown, PublicationSteps, InstallSteps, FlushSteps, BindSteps
  <2>2. CASE q # p
    <3>1. LocalsKnown(q)
      BY DEF Typed
    <3>2. /\ pc'[q] = pc[q] /\ job'[q] = job[q] /\ pending'[q] = pending[q] /\ stamp'[q] = stamp[q]
          /\ header'[q] = header[q] /\ sequence'[q] = sequence[q] /\ heads' = heads
      BY <2>2 DEF Typed, TypeOK, Finish, DropLocals, files
    <3> QED
      BY <3>1, <3>2 DEF LocalsKnown, Present
  <2> QED
    BY <2>1, <2>2
<1> QED
  BY <1>1, <1>2 DEF Typed

\* The types survive a return.
LEMMA ReturnTypes ==
  ASSUME Typed, NEW p \in Processes, NEW outcome \in Results, Return(p, outcome), UNCHANGED files
  PROVE  Typed'
BY FinishTypes DEF Return, View

\* A step of one process leaves what the others know of their locals.
LEMMA OthersKnown ==
  ASSUME Typed, NEW p \in Processes, LocalsKnown(p)',
         \A q \in Processes \ {p} :
           /\ pc'[q] = pc[q] /\ job'[q] = job[q] /\ pending'[q] = pending[q] /\ stamp'[q] = stamp[q]
           /\ header'[q] = header[q] /\ sequence'[q] = sequence[q],
         \A k \in Keys : Present(k) => Present(k)'
  PROVE  \A q \in Processes : LocalsKnown(q)'
<1> SUFFICES ASSUME NEW q \in Processes, q # p PROVE LocalsKnown(q)'
  OBVIOUS
<1>1. LocalsKnown(q)
  BY DEF Typed
<1>2. /\ pc'[q] = pc[q] /\ job'[q] = job[q] /\ pending'[q] = pending[q] /\ stamp'[q] = stamp[q]
      /\ header'[q] = header[q] /\ sequence'[q] = sequence[q]
  OBVIOUS
<1> QED
  BY <1>1, <1>2 DEF LocalsKnown

\* The same for a step that goes on and keeps the locals.
LEMMA GotoKnown ==
  ASSUME Typed, NEW p \in Processes, NEW from, NEW to \in Steps, Goto(p, from, to),
         LocalsKnown(p)', UNCHANGED locals, \A k \in Keys : Present(k) => Present(k)'
  PROVE  \A q \in Processes : LocalsKnown(q)'
<1>1. \A q \in Processes \ {p} :
        /\ pc'[q] = pc[q] /\ job'[q] = job[q] /\ pending'[q] = pending[q] /\ stamp'[q] = stamp[q]
        /\ header'[q] = header[q] /\ sequence'[q] = sequence[q]
  BY DEF Goto, locals, Typed, TypeOK
<1> QED
  BY <1>1, OthersKnown

\* Types are preserved by entering a call.
LEMMA EntryTypes ==
  ASSUME Typed, NEW p \in Processes, Start(p) \/ Lock(p)
  PROVE  Typed'
<1> USE StepNames
<1> USE DEF InstallSteps, FlushSteps, BindSteps, PublicationSteps
<1>1. CASE Start(p)
  <2>1. SelectedView(job[p].endpoint) \in (Endpoints \X Head) \cup {Absent}
    BY SelectedViewType DEF Typed
  <2>2. seen' \in [Processes -> SUBSET ((Endpoints \X Head) \cup {Absent})]
    BY <1>1, <2>1 DEF Start, Typed, TypeOK
  <2>3. pending' \in [Processes -> (SUBSET Keys) \cup (SUBSET Generations)]
    BY <1>1 DEF Start, Typed, TypeOK
  <2>4. TypeOK'
    BY <1>1, <2>2, <2>3 DEF Start, Typed, TypeOK, files
  <2>5. LocalsKnown(p)'
    BY <1>1, JobTypes DEF Start, LocalsKnown, Typed, TypeOK, files, Present
  <2>6. \A q \in Processes : LocalsKnown(q)'
    BY <1>1, <2>5, OthersKnown DEF Start, Typed, TypeOK, files, Present
  <2> QED
    BY <2>4, <2>6 DEF Typed
<1>2. CASE Lock(p)
  <2>1. TypeOK'
    BY <1>2 DEF Lock, FirstStep, Typed, TypeOK, files, locals
  <2>2. LocalsKnown(p) /\ job[p].op # "probe"
    BY <1>2 DEF Typed, Lock, LocalsKnown
  <2>3. LocalsKnown(p)'
    BY <1>2, <2>2, JobTypes DEF Lock, FirstStep, LocalsKnown, Typed, TypeOK, files, locals, Present
  <2>4. \A q \in Processes : LocalsKnown(q)'
    BY <1>2, <2>3, OthersKnown DEF Lock, Typed, TypeOK, files, locals, Present
  <2> QED
    BY <2>1, <2>4 DEF Typed
<1> QED
  BY <1>1, <1>2

\* Types are preserved by a publication.
LEMMA PublicationTypes ==
  ASSUME Typed, NEW p \in Processes, PublishSteps(p)
  PROVE  Typed'
<1> USE StepNames
<1> USE DEF InstallSteps, FlushSteps, BindSteps, PublicationSteps
<1>0. TypeOK /\ LocalsKnown(p) /\ job[p].generation \in Generations
  BY JobTypes DEF Typed
<1>1. CASE Stage(p)
  <2>1. PICK t \in Stamps : stamp' = [stamp EXCEPT ![p] = t]
    BY <1>1 DEF Stage
  <2>2. TypeOK'
    BY <1>0, <1>1, <2>1 DEF Stage, Goto, TypeOK, files
  <2>3. LocalsKnown(p)'
    BY <1>0, <1>1, <2>1 DEF Stage, Goto, TypeOK, LocalsKnown
  <2>4. \A q \in Processes : LocalsKnown(q)'
    BY <1>0, <1>1, <2>1, <2>3, OthersKnown DEF Stage, Goto, TypeOK, files, Present
  <2> QED
    BY <2>2, <2>4 DEF Typed
<1>2. ASSUME NEW g \in Generations, Reuse(p, g) PROVE Typed'
  <2>1. generations[g] \in Readable
    BY <1>0, <1>2 DEF Reuse, Opens, TypeOK, GenerationFile
  <2>2. generations[g].header \in Stamps
    BY <2>1 DEF Readable
  <2>3. TypeOK'
    BY <1>0, <1>2, <2>2 DEF Reuse, Goto, TypeOK, files
  <2>4. LocalsKnown(p)'
    BY <1>0, <1>2, <2>2 DEF Reuse, Goto, TypeOK, LocalsKnown
  <2>5. \A q \in Processes : LocalsKnown(q)'
    BY <1>0, <1>2, <2>4, OthersKnown DEF Reuse, Goto, TypeOK, files, Present
  <2> QED
    BY <2>3, <2>5 DEF Typed
<1>3. ASSUME NEW g \in Generations, Replace(p, g) PROVE Typed'
  <2>1. stamp[p] \in Stamps
    BY <1>0, <1>3 DEF Replace, Goto, LocalsKnown
  <2>2. [header |-> stamp[p], intact |-> TRUE] \in GenerationFile
    BY <2>1 DEF GenerationFile, Readable
  <2>3. /\ generations' \in [Generations -> GenerationFile]
        /\ generationImages' \in [Generations -> SUBSET GenerationFile]
        /\ UNCHANGED <<heads, headImages>>
    BY <1>0, <1>3, <2>2 DEF Replace, PutGeneration, TypeOK
  <2>4. TypeOK'
    BY <1>0, <1>3, <2>1, <2>3 DEF Replace, Goto, TypeOK
  <2>5. LocalsKnown(p)'
    BY <1>0, <1>3, <2>1 DEF Replace, Goto, TypeOK, LocalsKnown
  <2>6. \A q \in Processes : LocalsKnown(q)'
    BY <1>0, <1>3, <2>3, <2>5, OthersKnown DEF Replace, Goto, TypeOK, Present
  <2> QED
    BY <2>4, <2>6 DEF Typed
<1>4. CASE Install(p)
  <2>1. CASE Collide(p, job[p].generation)
    BY <2>1, ReturnTypes DEF Collide
  <2> QED
    BY <1>0, <1>2, <1>3, <1>4, <2>1 DEF Install
<1>5. CASE SyncFile(p)
  <2>1. TypeOK'
    BY <1>0, <1>5 DEF SyncFile, Goto, TypeOK, files, locals
  <2>2. LocalsKnown(p)'
    BY <1>0, <1>5 DEF SyncFile, Goto, TypeOK, LocalsKnown, locals
  <2> QED
    BY <1>5, <2>1, <2>2, GotoKnown DEF SyncFile, Typed, files, Present
<1>6. CASE SyncGenerations(p)
  <2>1. TypeOK'
    BY <1>0, <1>6 DEF SyncGenerations, Goto, TypeOK, locals
  <2>2. LocalsKnown(p)'
    BY <1>0, <1>6 DEF SyncGenerations, Goto, TypeOK, LocalsKnown, locals
  <2> QED
    BY <1>6, <2>1, <2>2, GotoKnown DEF SyncGenerations, Typed, Present
<1>7. CASE Previous(p)
  <2>1. CASE \E outcome \in Results : Return(p, outcome)
    BY <1>7, <2>1, ReturnTypes DEF Previous
  <2>2. CASE ~ \E outcome \in Results : Return(p, outcome)
    <3>1. PICK latest \in 0 .. MaxSequence :
            /\ latest < MaxSequence
            /\ Goto(p, "previous", "publishHead")
            /\ sequence' = [sequence EXCEPT ![p] = latest + 1]
            /\ UNCHANGED <<temporaries, stamp, header, pending, best, missed, seen>>
      BY <1>7, <2>2 DEF Previous
    <3>2. latest + 1 \in 1 .. MaxSequence
      BY <3>1, BoundAssumption
    <3>3. UNCHANGED files
      BY <1>7 DEF Previous
    <3>4. TypeOK'
      BY <1>0, <3>1, <3>2, <3>3, BoundAssumption DEF Goto, TypeOK, files
    <3>5. LocalsKnown(p)'
      BY <1>0, <3>1, <3>2, <3>3 DEF Goto, TypeOK, LocalsKnown
    <3>6. \A q \in Processes : LocalsKnown(q)'
      BY <1>0, <3>1, <3>3, <3>5, OthersKnown DEF Goto, TypeOK, files, Present
    <3> QED
      BY <3>4, <3>6 DEF Typed
  <2> QED
    BY <2>1, <2>2
<1>8. CASE PublishHead(p)
  <2> DEFINE k == Key(p)
             h == [generation |-> job[p].generation, header |-> header[p], sequence |-> sequence[p]]
  <2>1. job[p].op = "publish" /\ header[p] \in Stamps /\ sequence[p] \in 1 .. MaxSequence
    BY <1>0, <1>8 DEF PublishHead, Goto, LocalsKnown
  <2>2. k \in Keys /\ k.endpoint \in Endpoints
    BY <1>0, <2>1, JobTypes DEF Keys
  <2>3. h \in Head
    BY <1>0, <2>1 DEF Head
  <2>4. /\ heads' = [heads EXCEPT ![k] = h]
        /\ headImages' = [headImages EXCEPT ![k] = @ \cup {h}]
        /\ seen' = [q \in Processes |->
                      IF seen[q] # {} /\ InScope(k, job[q].endpoint)
                      THEN seen[q] \cup {<<k.endpoint, h>>} ELSE seen[q]]
        /\ Goto(p, "publishHead", "syncViews")
        /\ UNCHANGED <<generations, generationImages, temporaries, locals>>
    BY <1>8 DEF PublishHead
  <2>5. h # Absent
    BY <2>3, MarkAssumption
  <2> HIDE DEF k, h
  <2>6. heads' \in [Keys -> HeadFile] /\ headImages' \in [Keys -> SUBSET HeadFile]
    BY <1>0, <2>2, <2>3, <2>4 DEF TypeOK, HeadFile
  <2>7. seen' \in [Processes -> SUBSET ((Endpoints \X Head) \cup {Absent})]
    BY <1>0, <2>2, <2>3, <2>4 DEF TypeOK
  <2>8. TypeOK'
    BY <1>0, <2>4, <2>6, <2>7 DEF Goto, TypeOK, locals
  <2>9. LocalsKnown(p)'
    BY <1>0, <2>4 DEF Goto, TypeOK, LocalsKnown, locals
  <2>10. \A m \in Keys : Present(m) => Present(m)'
    BY <1>0, <2>2, <2>4, <2>5 DEF Present, TypeOK
  <2> QED
    BY <2>4, <2>8, <2>9, <2>10, GotoKnown DEF Typed
<1>9. CASE SyncViews(p)
  <2>1. TypeOK'
    BY <1>0, <1>9 DEF SyncViews, Goto, TypeOK, locals
  <2>2. LocalsKnown(p)'
    BY <1>0, <1>9 DEF SyncViews, Goto, TypeOK, LocalsKnown, locals
  <2> QED
    BY <1>9, <2>1, <2>2, GotoKnown DEF SyncViews, Typed, Present
<1>10. CASE Pin(p)
  <2>1. Opens(job[p].generation) =>
          <<job[p].generation, generations[job[p].generation].header>> \in View
    BY <1>0 DEF Opens, TypeOK, GenerationFile, Readable, View
  <2> QED
    BY <1>10, <2>1, FinishTypes, ReturnTypes DEF Pin
<1> QED
  BY <1>1, <1>4, <1>5, <1>6, <1>7, <1>8, <1>9, <1>10 DEF PublishSteps

\* Types are preserved by readers, observers and cleanups.
LEMMA ReaderTypes ==
  ASSUME Typed, NEW p \in Processes, Read(p) \/ Scan(p) \/ Retain(p) \/ Remove(p)
  PROVE  Typed'
<1> USE StepNames
<1> USE DEF InstallSteps, FlushSteps, BindSteps, PublicationSteps
<1>0. TypeOK /\ LocalsKnown(p) /\ job[p].generation \in Generations
  BY JobTypes DEF Typed
<1>1. CASE Read(p)
  <2>1. ASSUME NEW k \in Selected(job[p].endpoint) PROVE ViewOf(k) \in View
    <3>1. k \in Keys /\ Present(k) /\ heads[k] # Malformed
      BY <2>1 DEF Selected, Valid, Present
    <3> QED
      BY <1>0, <3>1, ValidHead DEF View
  <2>2. UNCHANGED files
    BY <1>1 DEF Read
  <2>3. \/ \E k \in Selected(job[p].endpoint) : Finish(p, "found", ViewOf(k))
        \/ Return(p, "missing") \/ Return(p, "invalid")
    BY <1>1 DEF Read
  <2> QED
    BY <2>1, <2>2, <2>3, FinishTypes, ReturnTypes
<1>2. ASSUME NEW k \in Keys, ScanHead(p, k) PROVE Typed'
  <2>1. pc[p] = "scan" /\ k \in pending[p] /\ heads[k] # Malformed /\ Present(k)
    BY <1>0, <1>2 DEF ScanHead, Goto, LocalsKnown
  <2>2. ViewOf(k) \in Endpoints \X Head
    BY <1>0, <2>1, ValidHead
  <2>3. best' \in [Processes -> (Endpoints \X Head) \cup {Absent}]
    BY <1>0, <1>2, <2>2 DEF ScanHead, TypeOK
  <2>4. pending' \in [Processes -> (SUBSET Keys) \cup (SUBSET Generations)]
    BY <1>0, <1>2, <2>1 DEF ScanHead, TypeOK, LocalsKnown
  <2>5. TypeOK'
    BY <1>0, <1>2, <2>3, <2>4 DEF ScanHead, Goto, TypeOK, files
  <2>6. LocalsKnown(p)'
    BY <1>0, <1>2, <2>1 DEF ScanHead, Goto, TypeOK, LocalsKnown, files, Present
  <2>7. \A q \in Processes : LocalsKnown(q)'
    BY <1>0, <1>2, <2>6, OthersKnown DEF ScanHead, Goto, TypeOK, files, Present
  <2> QED
    BY <2>5, <2>7 DEF Typed
<1>3. ASSUME NEW k \in Keys, ScanMalformed(p, k) PROVE Typed'
  <2>1. CASE Return(p, "invalid")
    BY <1>3, <2>1, ReturnTypes DEF ScanMalformed
  <2>2. CASE Goto(p, "scan", "scan") /\ pending' = [pending EXCEPT ![p] = @ \ {k}]
             /\ UNCHANGED <<temporaries, stamp, header, sequence, best, missed, seen>>
    <3>1. UNCHANGED files
      BY <1>3 DEF ScanMalformed
    <3>2. pc[p] = "scan"
      BY <2>2 DEF Goto
    <3>3. pending' \in [Processes -> (SUBSET Keys) \cup (SUBSET Generations)]
      BY <1>0, <2>2, <3>2 DEF TypeOK, LocalsKnown
    <3>4. TypeOK'
      BY <1>0, <2>2, <3>1, <3>3 DEF Goto, TypeOK, files
    <3>5. LocalsKnown(p)'
      BY <1>0, <2>2, <3>1, <3>2 DEF Goto, TypeOK, LocalsKnown, files, Present
    <3>6. \A q \in Processes : LocalsKnown(q)'
      BY <1>0, <2>2, <3>1, <3>5, OthersKnown DEF Goto, TypeOK, files, Present
    <3> QED
      BY <3>4, <3>6 DEF Typed
  <2> QED
    BY <1>3, <2>1, <2>2 DEF ScanMalformed
<1>4. CASE ScanEnd(p)
  <2>1. best[p] # Absent => best[p] \in View
    BY <1>0 DEF TypeOK, View
  <2> QED
    BY <1>4, <2>1, FinishTypes, ReturnTypes DEF ScanEnd
<1>5. CASE Retain(p)
  <2>1. PICK gs : gs \subseteq Generations /\ pending' = [pending EXCEPT ![p] = gs]
    <3>1. PICK unread, retained : pending' = [pending EXCEPT ![p] =
                     Generations \ ({heads[k].generation : k \in {m \in Keys : Valid(m)} \ unread}
                                      \cup retained)]
      BY <1>5 DEF Retain
    <3> QED
      BY <3>1
  <2>0. pending' \in [Processes -> (SUBSET Keys) \cup (SUBSET Generations)]
    BY <1>0, <2>1 DEF TypeOK
  <2>2. TypeOK'
    <3>1. /\ temporaries' \subseteq Processes /\ pc' \in [Processes -> Steps]
          /\ missed' \in [Processes -> SUBSET Keys]
      BY <1>0, <1>5 DEF Retain, Goto, TypeOK
    <3>2. UNCHANGED <<files, lock, job, result, view, damaged, stamp, header, sequence, best, seen>>
      BY <1>5 DEF Retain, Goto
    <3> QED
      BY <1>0, <2>0, <3>1, <3>2 DEF TypeOK, files
  <2>3. LocalsKnown(p)'
    BY <1>0, <1>5, <2>1 DEF Retain, Goto, TypeOK, LocalsKnown
  <2>4. \A q \in Processes : LocalsKnown(q)'
    BY <1>0, <1>5, <2>3, OthersKnown DEF Retain, Goto, TypeOK, files, Present
  <2> QED
    BY <2>2, <2>4 DEF Typed
<1>6. ASSUME NEW g \in Generations, RemoveGeneration(p, g) PROVE Typed'
  <2>1. pc[p] = "remove" /\ UNCHANGED <<heads, headImages>>
    BY <1>6 DEF RemoveGeneration, Goto, files, PutGeneration
  <2>2. /\ generations' \in [Generations -> GenerationFile]
        /\ generationImages' \in [Generations -> SUBSET GenerationFile]
    <3>1. CASE UNCHANGED files
      BY <1>0, <3>1 DEF TypeOK, files
    <3>2. CASE PutGeneration(g, Absent)
      BY <1>0, <3>2 DEF TypeOK, PutGeneration, GenerationFile
    <3> QED
      BY <1>6, <3>1, <3>2 DEF RemoveGeneration
  <2>3. pending' \in [Processes -> (SUBSET Keys) \cup (SUBSET Generations)]
    BY <1>0, <1>6, <2>1 DEF RemoveGeneration, TypeOK, LocalsKnown
  <2>4. TypeOK'
    BY <1>0, <1>6, <2>1, <2>2, <2>3 DEF RemoveGeneration, Goto, TypeOK
  <2>5. LocalsKnown(p)'
    BY <1>0, <1>6, <2>1 DEF RemoveGeneration, Goto, TypeOK, LocalsKnown
  <2>6. \A q \in Processes : LocalsKnown(q)'
    BY <1>0, <1>6, <2>1, <2>5, OthersKnown DEF RemoveGeneration, Goto, TypeOK, Present
  <2> QED
    BY <2>4, <2>6 DEF Typed
<1>7. CASE RemoveEnd(p)
  BY <1>7, ReturnTypes DEF RemoveEnd
<1> QED
  BY <1>1, <1>2, <1>3, <1>4, <1>5, <1>6, <1>7 DEF Scan, Remove

\* A kill and an I/O error, seen from the others.
LEMMA KillTypes ==
  ASSUME Typed, NEW p \in Processes, Kill(p) \/ Fail(p)
  PROVE  Typed'
<1> USE StepNames
<1>1. CASE Fail(p)
  BY <1>1, ReturnTypes DEF Fail
<1>2. CASE Kill(p)
  <2>1. /\ stamp' \in [Processes -> Stamps \cup {None}]
        /\ sequence' \in [Processes -> 0 .. MaxSequence]
        /\ best' \in [Processes -> (Endpoints \X Head) \cup {Absent}]
        /\ missed' \in [Processes -> SUBSET Keys]
        /\ seen' \in [Processes -> SUBSET ((Endpoints \X Head) \cup {Absent})]
    BY <1>2, BoundAssumption DEF Typed, TypeOK, Kill, DropLocals
  <2>2. pending' \in [Processes -> (SUBSET Keys) \cup (SUBSET Generations)]
    BY <1>2 DEF Typed, TypeOK, Kill, DropLocals
  <2>3. TypeOK'
    BY <1>2, <2>1, <2>2 DEF Typed, TypeOK, Kill, files
  <2>4. LocalsKnown(p)'
    BY <1>2 DEF Typed, TypeOK, Kill, LocalsKnown, InstallSteps, FlushSteps, BindSteps, PublicationSteps
  <2>5. \A q \in Processes \ {p} :
          /\ pc'[q] = pc[q] /\ job'[q] = job[q] /\ pending'[q] = pending[q] /\ stamp'[q] = stamp[q]
          /\ header'[q] = header[q] /\ sequence'[q] = sequence[q]
    BY <1>2 DEF Typed, TypeOK, Kill, DropLocals
  <2>6. \A q \in Processes : LocalsKnown(q)'
    BY <1>2, <2>4, <2>5, OthersKnown DEF Kill, files, Present
  <2> QED
    BY <2>3, <2>6 DEF Typed
<1> QED
  BY <1>1, <1>2

\* After a power loss nobody is under way.
LEMMA PowerLossTypes ==
  ASSUME Typed, PowerLoss
  PROVE  Typed'
<1> USE StepNames
<1>1. /\ stamp' \in [Processes -> Stamps \cup {None}]
      /\ sequence' \in [Processes -> 0 .. MaxSequence]
      /\ best' \in [Processes -> (Endpoints \X Head) \cup {Absent}]
      /\ missed' \in [Processes -> SUBSET Keys]
      /\ seen' \in [Processes -> SUBSET ((Endpoints \X Head) \cup {Absent})]
      /\ pending' \in [Processes -> (SUBSET Keys) \cup (SUBSET Generations)]
  BY BoundAssumption DEF PowerLoss, DropLocals, Typed, TypeOK
<1>2. /\ generations' \in [Generations -> GenerationFile]
      /\ heads' \in [Keys -> HeadFile]
  BY DEF PowerLoss, Typed, TypeOK
<1>3. /\ generationImages' \in [Generations -> SUBSET GenerationFile]
      /\ headImages' \in [Keys -> SUBSET HeadFile]
  BY <1>2 DEF PowerLoss
<1>4. TypeOK'
  BY <1>1, <1>2, <1>3 DEF PowerLoss, Typed, TypeOK
<1>5. \A q \in Processes : pc'[q] \in {"idle", "done"}
  BY DEF PowerLoss
<1>6. \A q \in Processes : LocalsKnown(q)'
  BY <1>5 DEF LocalsKnown, InstallSteps, FlushSteps, BindSteps, PublicationSteps
<1> QED
  BY <1>4, <1>6 DEF Typed

\* Damage to a file.
LEMMA DamageTypes ==
  ASSUME Typed, \/ \E g \in Generations : DamageGeneration(g)
                \/ \E k \in Keys : DamageHead(k)
  PROVE  Typed'
<1>0. TypeOK
  BY DEF Typed
<1>1. ASSUME NEW g \in Generations, DamageGeneration(g) PROVE Typed'
  <2>1. PICK f \in {Unreadable, Foreign, [generations[g] EXCEPT !.intact = FALSE]} :
          /\ generations' = [generations EXCEPT ![g] = f]
          /\ generationImages' = [generationImages EXCEPT ![g] = {f}]
    BY <1>1 DEF DamageGeneration
  <2>2. generations[g] \in Readable
    BY <1>0, <1>1 DEF DamageGeneration, Opens, TypeOK, GenerationFile
  <2>3. f \in GenerationFile
    BY <2>1, <2>2 DEF GenerationFile, Readable
  <2>4. damaged' \in 0 .. MaxDamage
    BY <1>0, <1>1, BoundAssumption DEF DamageGeneration, TypeOK
  <2>5. TypeOK'
    BY <1>0, <1>1, <2>1, <2>3, <2>4 DEF DamageGeneration, TypeOK, locals
  <2>6. \A q \in Processes : LocalsKnown(q)'
    BY <1>1 DEF DamageGeneration, locals, Typed, LocalsKnown, Present
  <2> QED
    BY <2>5, <2>6 DEF Typed
<1>2. ASSUME NEW k \in Keys, DamageHead(k) PROVE Typed'
  <2>1. damaged' \in 0 .. MaxDamage
    BY <1>0, <1>2, BoundAssumption DEF DamageHead, TypeOK
  <2>2. TypeOK'
    BY <1>0, <1>2, <2>1 DEF DamageHead, TypeOK, locals, HeadFile
  <2>3. \A m \in Keys : Present(m) => Present(m)'
    BY <1>0, <1>2, MarkAssumption DEF DamageHead, TypeOK, Present
  <2>4. \A q \in Processes : LocalsKnown(q)'
    BY <1>2, <2>3 DEF DamageHead, locals, Typed, LocalsKnown
  <2> QED
    BY <2>2, <2>4 DEF Typed
<1> QED
  BY <1>1, <1>2

\* Types are inductive.
LEMMA TypedIsInvariant == Spec => []Typed
<1>1. Init => Typed
  <2> SUFFICES ASSUME Init PROVE Typed
    OBVIOUS
  <2>1. TypeOK
    BY StepNames, BoundAssumption DEF Init, TypeOK, GenerationFile, HeadFile, View
  <2>2. \A p \in Processes : LocalsKnown(p)
    BY DEF Init, LocalsKnown, InstallSteps, FlushSteps, BindSteps, PublicationSteps
  <2> QED
    BY <2>1, <2>2 DEF Typed
<1>2. Typed /\ [Next]_vars => Typed'
  <2> SUFFICES ASSUME Typed, [Next]_vars PROVE Typed'
    OBVIOUS
  <2>1. ASSUME NEW p \in Processes, Step(p) PROVE Typed'
    BY <2>1, EntryTypes, PublicationTypes, ReaderTypes DEF Step
  <2>2. ASSUME NEW p \in Processes, Kill(p) \/ Fail(p) PROVE Typed'
    BY <2>2, KillTypes
  <2>3. CASE UNCHANGED vars
    BY <2>3 DEF vars, files, locals, Typed, TypeOK, LocalsKnown, Present
  <2> QED
    BY <2>1, <2>2, <2>3, PowerLossTypes, DamageTypes DEF Next
<1> QED
  BY <1>1, <1>2, PTL DEF Spec

\* Every variable keeps its type; in particular next_refresh_sequence never passes the
\* greatest sequence.
THEOREM TypeCorrect == Spec => []TypeOK
BY TypedIsInvariant, PTL DEF Typed

(***************************************************************************)
(* The refresh lock                                                        *)
(***************************************************************************)

\* A process that is past acquire_refresh_lock holds the lock until its call ends.
LEMMA LockStep ==
  ASSUME Typed, LockHeld, [Next]_vars
  PROVE  LockHeld'
<1> USE DEF LockedSteps, PublicationSteps, InstallSteps, FlushSteps, BindSteps
<1>0. TypeOK
  BY DEF Typed
<1>1. ASSUME NEW p \in Processes, NEW outcome, NEW answer, Finish(p, outcome, answer)
      PROVE  LockHeld'
  BY <1>0, <1>1 DEF Finish, LockHeld, TypeOK
<1>2. ASSUME NEW p \in Processes, NEW outcome, Return(p, outcome) PROVE LockHeld'
  BY <1>1, <1>2 DEF Return
<1>3. ASSUME NEW p \in Processes, NEW from, NEW to, Goto(p, from, to),
             to \in LockedSteps => from \in LockedSteps
      PROVE  LockHeld'
  BY <1>0, <1>3 DEF Goto, LockHeld, TypeOK
<1>4. ASSUME NEW p \in Processes, Start(p) \/ Lock(p) PROVE LockHeld'
  <2>1. CASE Start(p)
    BY <1>0, <2>1 DEF Start, LockHeld, TypeOK
  <2>2. CASE Lock(p)
    BY <1>0, <2>2, MarkAssumption DEF Lock, LockHeld, TypeOK
  <2> QED
    BY <1>4, <2>1, <2>2
<1>5. ASSUME NEW p \in Processes, PublishSteps(p) PROVE LockHeld'
  <2>1. CASE Install(p)
    <3>1. CASE \E g \in {job[p].generation} : Reuse(p, g)
      BY <1>3, <3>1 DEF Reuse
    <3>2. CASE \E g \in {job[p].generation} : Replace(p, g)
      BY <1>3, <3>2 DEF Replace
    <3>3. CASE \E g \in {job[p].generation} : Collide(p, g)
      BY <1>2, <3>3 DEF Collide
    <3> QED
      BY <2>1, <3>1, <3>2, <3>3 DEF Install
  <2>2. CASE Previous(p)
    BY <1>2, <1>3, <2>2 DEF Previous
  <2>3. CASE Pin(p)
    BY <1>1, <1>2, <2>3 DEF Pin
  <2>4. CASE Stage(p)
    BY <1>3, <2>4 DEF Stage
  <2>5. CASE SyncFile(p) \/ SyncGenerations(p)
    BY <1>3, <2>5 DEF SyncFile, SyncGenerations
  <2>6. CASE PublishHead(p)
    BY <1>3, <2>6 DEF PublishHead
  <2>7. CASE SyncViews(p)
    BY <1>3, <2>7 DEF SyncViews
  <2> QED
    BY <1>5, <2>1, <2>2, <2>3, <2>4, <2>5, <2>6, <2>7 DEF PublishSteps
<1>6. ASSUME NEW p \in Processes, Read(p) \/ Scan(p) \/ Retain(p) \/ Remove(p) PROVE LockHeld'
  <2>1. CASE Read(p)
    BY <1>1, <1>2, <2>1 DEF Read
  <2>2. CASE Scan(p)
    <3>1. CASE \E k \in Keys : ScanHead(p, k)
      BY <1>3, <3>1 DEF ScanHead
    <3>2. CASE \E k \in Keys : ScanMalformed(p, k)
      BY <1>2, <1>3, <3>2 DEF ScanMalformed
    <3>3. CASE ScanEnd(p)
      BY <1>1, <1>2, <3>3 DEF ScanEnd
    <3> QED
      BY <2>2, <3>1, <3>2, <3>3 DEF Scan
  <2>3. CASE Retain(p)
    BY <1>3, <2>3 DEF Retain
  <2>4. CASE Remove(p)
    BY <1>2, <1>3, <2>4 DEF Remove, RemoveGeneration, RemoveEnd
  <2> QED
    BY <1>6, <2>1, <2>2, <2>3, <2>4
<1>7. ASSUME NEW p \in Processes, Fail(p) \/ Kill(p) PROVE LockHeld'
  <2>1. CASE Fail(p)
    BY <1>2, <2>1 DEF Fail
  <2>2. CASE Kill(p)
    BY <1>0, <2>2 DEF Kill, LockHeld, TypeOK
  <2> QED
    BY <1>7, <2>1, <2>2
<1>8. CASE PowerLoss
  <2>1. \A q \in Processes : pc'[q] \in {"idle", "done"}
    BY <1>8 DEF PowerLoss
  <2> QED
    BY <2>1 DEF LockHeld
<1>9. CASE (\E g \in Generations : DamageGeneration(g)) \/ (\E k \in Keys : DamageHead(k))
  BY <1>9 DEF DamageGeneration, DamageHead, LockHeld
<1>10. CASE UNCHANGED vars
  BY <1>10 DEF vars, LockHeld
<1> QED
  BY <1>4, <1>5, <1>6, <1>7, <1>8, <1>9, <1>10 DEF Next, Step

\* Whoever is past the lock holds it.
LEMMA LockIsHeld == Spec => []LockHeld
<1>1. Init => LockHeld
  BY DEF Init, LockHeld, LockedSteps, PublicationSteps, InstallSteps, FlushSteps, BindSteps
<1> QED
  BY <1>1, LockStep, TypedIsInvariant, PTL DEF Spec

(***************************************************************************)
(* The store after a crash                                                 *)
(***************************************************************************)

\* While nothing is damaged every generation is absent or intact, and every head that is
\* there is valid.
LEMMA Undamaged ==
  ASSUME Typed, damaged = 0, ImagesSound, HeadsNameDurableGenerations
  PROVE  /\ \A g \in Generations :
              /\ generations[g] # Foreign
              /\ generations[g] # Absent =>
                   Opens(g) /\ generations[g] = [header |-> generations[g].header, intact |-> TRUE]
         /\ \A k \in Keys : Present(k) => Valid(k) /\ heads[k] \in Head
         /\ InvalidHeads = {}
<1>1. ASSUME NEW g \in Generations
      PROVE  /\ generations[g] # Foreign
             /\ generations[g] # Absent =>
                  Opens(g) /\ generations[g] = [header |-> generations[g].header, intact |-> TRUE]
  <2>1. generations[g] \in {Absent} \cup [header : Stamps, intact : {TRUE}]
    BY DEF ImagesSound
  <2>2. CASE generations[g] = Absent
    BY <2>2, MarkAssumption
  <2>3. CASE generations[g] \in [header : Stamps, intact : {TRUE}]
    <3>1. generations[g] \in Readable
      BY <2>3 DEF Readable
    <3> QED
      BY <2>3, <3>1, MarkAssumption DEF Opens
  <2> QED
    BY <2>1, <2>2, <2>3
<1>2. ASSUME NEW k \in Keys, Present(k) PROVE Valid(k) /\ heads[k] \in Head
  <2>1. heads[k] \in headImages[k] /\ heads[k] # Absent /\ heads[k] \in Head
    BY <1>2 DEF ImagesSound, Present
  <2>2. PICK g \in Generations : g = heads[k].generation
    BY <2>1 DEF Head
  <2>3. generationImages[g] = {[header |-> heads[k].header, intact |-> TRUE]}
    BY <2>1, <2>2 DEF HeadsNameDurableGenerations
  <2>4. generations[g] = [header |-> heads[k].header, intact |-> TRUE]
    BY <2>3 DEF ImagesSound
  <2>5. generations[g] \in Readable
    BY <2>1, <2>4 DEF Readable, Head
  <2>6. Opens(g)
    BY <2>5, MarkAssumption DEF Opens
  <2>8. generations[g].header = heads[k].header
    BY <2>4
  <2>7. heads[k] # Malformed
    BY <2>1, MarkAssumption
  <2> QED
    BY <2>1, <2>2, <2>6, <2>7, <2>8 DEF Valid
<1> QED
  BY <1>1, <1>2 DEF InvalidHeads

\* A step that touches no file and brings nobody further in a publication.
LEMMA CrashFrame ==
  ASSUME Typed, CrashInvariant, UNCHANGED files, damaged' = damaged,
         \A q \in Processes :
           /\ pc'[q] \in FlushSteps => pc[q] \in FlushSteps
           /\ pc'[q] \in BindSteps => pc[q] \in BindSteps
           /\ pc'[q] \in FlushSteps \cup BindSteps => header'[q] = header[q] /\ job'[q] = job[q]
           /\ pc'[q] = "publishHead" => pc[q] = "publishHead" /\ sequence'[q] = sequence[q]
  PROVE  CrashInvariant'
<1> SUFFICES ASSUME damaged = 0
             PROVE  /\ ImagesSound'
                    /\ \A p \in Processes : PublicationKnown(p)'
                    /\ HeadsNameDurableGenerations'
                    /\ SequencesOrdered'
                    /\ SequencesAreDistinct'
  BY DEF CrashInvariant
<1>1. ImagesSound' /\ HeadsNameDurableGenerations' /\ SequencesAreDistinct'
  BY DEF CrashInvariant, ImagesSound, HeadsNameDurableGenerations, SequencesAreDistinct, files
<1>2. SequencesOrdered'
  BY DEF CrashInvariant, SequencesOrdered, files
<1>3. ASSUME NEW q \in Processes PROVE PublicationKnown(q)'
  <2>1. PublicationKnown(q)
    BY DEF CrashInvariant
  <2> QED
    BY <2>1 DEF PublicationKnown, files
<1> QED
  BY <1>1, <1>2, <1>3

\* The steps of a call that publishes nothing yet, and its end.
LEMMA CrashQuietSteps ==
  ASSUME Typed, CrashInvariant, NEW p \in Processes, UNCHANGED files,
         \/ \E outcome, answer : Finish(p, outcome, answer)
         \/ Kill(p) \/ Start(p) \/ Lock(p)
         \/ \E from : \E to \in Steps \ (FlushSteps \cup BindSteps) :
               Goto(p, from, to) /\ UNCHANGED <<header, sequence>>
         \/ SyncFile(p)
  PROVE  CrashInvariant'
<1> USE DEF FlushSteps, BindSteps
<1>0. TypeOK
  BY DEF Typed
<1>1. CASE \E outcome, answer : Finish(p, outcome, answer)
  BY <1>0, <1>1, CrashFrame DEF Finish, DropLocals, TypeOK
<1>2. CASE Kill(p)
  BY <1>0, <1>2, CrashFrame DEF Kill, DropLocals, TypeOK
<1>3. CASE Start(p)
  BY <1>0, <1>3, CrashFrame DEF Start, TypeOK
<1>4. CASE Lock(p)
  <2>1. FirstStep(p) \in {"stage", "read", "retain"}
    BY Zenon DEF FirstStep
  <2> QED
    BY <1>0, <1>4, <2>1, CrashFrame DEF Lock, TypeOK, locals
<1>5. CASE \E from : \E to \in Steps \ (FlushSteps \cup BindSteps) :
               Goto(p, from, to) /\ UNCHANGED <<header, sequence>>
  BY <1>0, <1>5, CrashFrame DEF Goto, TypeOK
<1>6. CASE SyncFile(p)
  BY <1>0, <1>6, CrashFrame DEF SyncFile, Goto, TypeOK, locals
<1> QED
  BY <1>1, <1>2, <1>3, <1>4, <1>5, <1>6

\* Only the process at work is past the lock.
LEMMA Alone ==
  ASSUME LockHeld, NEW p \in Processes, pc[p] \in LockedSteps, NEW q \in Processes, q # p
  PROVE  pc[q] \notin LockedSteps
BY DEF LockHeld

\* A generation is put in place: nothing that a power loss may bring back names it,
\* unless the file is kept.
LEMMA CrashInstall ==
  ASSUME Typed, LockHeld, CrashInvariant, NEW p \in Processes, Install(p)
  PROVE  CrashInvariant'
<1> USE DEF LockedSteps, PublicationSteps, InstallSteps, FlushSteps, BindSteps
<1> DEFINE g == job[p].generation
<1>0. TypeOK /\ LocalsKnown(p) /\ g \in Generations
  BY JobTypes DEF Typed
<1> HIDE DEF g
<1>1. CASE Collide(p, g)
  BY <1>1, CrashQuietSteps DEF Collide, Return
<1>2. CASE damaged # 0 /\ ~Collide(p, g)
  <2>1. damaged' = damaged
    BY <1>2 DEF Install, Reuse, Replace, Goto, g
  <2> QED
    BY <1>2, <2>1 DEF CrashInvariant
<1>3. ASSUME damaged = 0, ~Collide(p, g) PROVE CrashInvariant'
  <2>1. /\ ImagesSound /\ HeadsNameDurableGenerations /\ SequencesOrdered /\ SequencesAreDistinct
        /\ \A q \in Processes : PublicationKnown(q)
    BY <1>3 DEF CrashInvariant
  <2>2. /\ pc[p] = "install" /\ pc' = [pc EXCEPT ![p] = pc'[p]] /\ UNCHANGED <<job, damaged, sequence>>
        /\ pc'[p] \in FlushSteps /\ \A q \in Processes \ {p} : header'[q] = header[q]
        /\ UNCHANGED <<heads, headImages>>
    BY <1>0, <1>3 DEF Install, Reuse, Replace, Goto, TypeOK, files, PutGeneration, g
  <2>3. \A q \in Processes \ {p} : pc'[q] \notin FlushSteps \cup BindSteps
    BY <1>0, <2>2, Alone DEF TypeOK
  <2>4. CASE Reuse(p, g)
    <3>1. Opens(g) /\ UNCHANGED files /\ header'[p] = generations[g].header
      BY <1>0, <2>4 DEF Reuse, TypeOK
    <3>2. generations[g] # Absent
      BY <3>1 DEF Opens
    <3>3. generations[g] = [header |-> generations[g].header, intact |-> TRUE]
      BY <1>0, <1>3, <2>1, <3>2, Undamaged
    <3>4. PublicationKnown(p)'
      BY <2>2, <3>1, <3>3 DEF PublicationKnown, files, g
    <3>5. \A q \in Processes : PublicationKnown(q)'
      BY <2>3, <3>4 DEF PublicationKnown
    <3>6. ImagesSound' /\ HeadsNameDurableGenerations' /\ SequencesAreDistinct'
      BY <1>3, <2>1, <2>2, <3>1 DEF ImagesSound, HeadsNameDurableGenerations, SequencesAreDistinct, files
    <3>7. SequencesOrdered'
      BY <2>1, <2>2, <2>3, <3>1 DEF SequencesOrdered, files
    <3> QED
      BY <3>5, <3>6, <3>7 DEF CrashInvariant
  <2>5. CASE ~Reuse(p, g)
    <3> DEFINE f == [header |-> stamp[p], intact |-> TRUE]
    <3>1. Replace(p, g) /\ ~(Opens(g) /\ generations[g].intact)
      BY <1>3, <2>5 DEF Install, g
    <3>2. generations[g] = Absent
      <4> SUFFICES ASSUME generations[g] # Absent PROVE FALSE
        OBVIOUS
      <4>1. Opens(g) /\ generations[g] = [header |-> generations[g].header, intact |-> TRUE]
        BY <1>0, <1>3, <2>1, Undamaged
      <4>2. generations[g].intact
        BY <4>1
      <4> QED
        BY <3>1, <4>1, <4>2
    <3>3. /\ generations' = [generations EXCEPT ![g] = f]
          /\ generationImages' = [generationImages EXCEPT ![g] = @ \cup {f}]
          /\ header'[p] = stamp[p]
      BY <1>0, <3>1 DEF Replace, PutGeneration, TypeOK
    <3>4. stamp[p] \in Stamps
      BY <1>0, <2>2 DEF LocalsKnown
    <3>5. PublicationKnown(p)'
      BY <1>0, <2>2, <3>3 DEF PublicationKnown, TypeOK, g
    <3>6. \A q \in Processes : PublicationKnown(q)'
      BY <2>3, <3>5 DEF PublicationKnown
    <3>7. f \in [header : Stamps, intact : {TRUE}]
      BY <3>4
    <3> HIDE DEF f
    <3>8. ImagesSound'
      BY <1>0, <2>1, <2>2, <3>3, <3>7 DEF ImagesSound, TypeOK
    <3>9. HeadsNameDurableGenerations'
      <4> SUFFICES ASSUME NEW k \in Keys, NEW h \in headImages[k] \ {Absent}
                   PROVE  generationImages'[h.generation] = {[header |-> h.header, intact |-> TRUE]}
        BY <2>2 DEF HeadsNameDurableGenerations
      <4>1. generationImages[h.generation] = {[header |-> h.header, intact |-> TRUE]}
        BY <1>3, <2>1 DEF HeadsNameDurableGenerations
      <4>2. h \in Head
        BY <2>1 DEF ImagesSound
      <4>3. [header |-> h.header, intact |-> TRUE] # Absent
        <5>1. [header |-> h.header, intact |-> TRUE] \in Readable
          BY <4>2 DEF Head, Readable
        <5> QED
          BY <5>1, MarkAssumption
      <4>4. Absent \in generationImages[g]
        BY <1>0, <2>1, <3>2 DEF ImagesSound
      <4>5. h.generation # g
        BY <4>1, <4>3, <4>4
      <4> QED
        BY <1>0, <3>3, <4>1, <4>2, <4>5 DEF TypeOK, Head
    <3>10. SequencesAreDistinct'
      BY <1>3, <2>1, <2>2 DEF SequencesAreDistinct
    <3>11. SequencesOrdered'
      BY <2>1, <2>2, <2>3 DEF SequencesOrdered
    <3> QED
      BY <3>6, <3>8, <3>9, <3>10, <3>11 DEF CrashInvariant
  <2> QED
    BY <2>4, <2>5
<1> QED
  BY <1>1, <1>2, <1>3

\* A directory is synchronised: the images shrink to what is visible.
LEMMA CrashSync ==
  ASSUME Typed, LockHeld, CrashInvariant, NEW p \in Processes, SyncGenerations(p) \/ SyncViews(p)
  PROVE  CrashInvariant'
<1> USE DEF LockedSteps, PublicationSteps, InstallSteps, FlushSteps, BindSteps
<1>0. TypeOK /\ job[p].generation \in Generations
  BY JobTypes DEF Typed
<1>1. /\ pc[p] \in {"syncGenerations", "syncViews"} /\ pc' = [pc EXCEPT ![p] = pc'[p]]
      /\ pc'[p] \in {"previous", "pin"}
      /\ UNCHANGED <<job, damaged, header, sequence, generations, heads>>
  BY <1>0 DEF SyncGenerations, SyncViews, Goto, TypeOK, locals
<1> SUFFICES ASSUME damaged = 0
             PROVE  /\ ImagesSound'
                    /\ \A q \in Processes : PublicationKnown(q)'
                    /\ HeadsNameDurableGenerations'
                    /\ SequencesOrdered'
                    /\ SequencesAreDistinct'
  BY <1>1 DEF CrashInvariant
<1>2. /\ ImagesSound /\ HeadsNameDurableGenerations /\ SequencesOrdered /\ SequencesAreDistinct
      /\ \A q \in Processes : PublicationKnown(q)
  BY DEF CrashInvariant
<1>3. \A q \in Processes \ {p} : pc'[q] \notin FlushSteps \cup BindSteps
  BY <1>0, <1>1, Alone DEF TypeOK
<1>4. \A g \in Generations : generationImages'[g] \in {{generations[g]}, generationImages[g]}
  BY <1>0 DEF SyncGenerations, SyncViews, TypeOK
<1>5. \A k \in Keys : headImages'[k] \in {{heads[k]}, headImages[k]}
  BY <1>0 DEF SyncGenerations, SyncViews, TypeOK
<1>6. \A g \in Generations : generationImages'[g] \subseteq generationImages[g] /\ generations'[g] \in generationImages'[g]
  BY <1>1, <1>2, <1>4 DEF ImagesSound
<1>7. \A k \in Keys : headImages'[k] \subseteq headImages[k] /\ heads'[k] \in headImages'[k]
  BY <1>1, <1>2, <1>5 DEF ImagesSound
<1>8. ImagesSound'
  BY <1>2, <1>6, <1>7 DEF ImagesSound
<1>9. HeadsNameDurableGenerations'
  <2> SUFFICES ASSUME NEW k \in Keys, NEW h \in headImages'[k] \ {Absent}
               PROVE  generationImages'[h.generation] = {[header |-> h.header, intact |-> TRUE]}
    BY DEF HeadsNameDurableGenerations
  <2>1. h \in headImages[k] \ {Absent} /\ h \in Head
    BY <1>2, <1>7 DEF ImagesSound
  <2>2. generationImages[h.generation] = {[header |-> h.header, intact |-> TRUE]}
    BY <1>2, <2>1 DEF HeadsNameDurableGenerations
  <2>3. PICK g \in Generations : g = h.generation
    BY <2>1 DEF Head
  <2> QED
    BY <1>6, <2>2, <2>3
<1>10. SequencesAreDistinct'
  BY <1>2, <1>7 DEF SequencesAreDistinct
<1>11. SequencesOrdered'
  BY <1>1, <1>2, <1>3, <1>7 DEF SequencesOrdered
<1>12. PublicationKnown(p)'
  <2>1. PICK g \in Generations : g = job[p].generation
    BY <1>0
  <2>2. PublicationKnown(p)
    BY <1>2
  <2>3. CASE SyncGenerations(p)
    BY <1>0, <1>1, <2>1, <2>2, <2>3 DEF SyncGenerations, Goto, PublicationKnown
  <2>4. CASE SyncViews(p)
    BY <1>0, <1>1, <2>1, <2>2, <2>4 DEF SyncViews, Goto, PublicationKnown
  <2> QED
    BY <2>3, <2>4
<1>13. \A q \in Processes : PublicationKnown(q)'
  BY <1>3, <1>12 DEF PublicationKnown
<1> QED
  BY <1>8, <1>9, <1>10, <1>11, <1>13

\* The next sequence is above every head that a power loss may bring back.
LEMMA CrashPrevious ==
  ASSUME Typed, LockHeld, CrashInvariant, NEW p \in Processes, Previous(p)
  PROVE  CrashInvariant'
<1> USE DEF LockedSteps, PublicationSteps, InstallSteps, FlushSteps, BindSteps
<1>0. TypeOK
  BY DEF Typed
<1>1. UNCHANGED files
  BY DEF Previous
<1>2. CASE \E outcome : Return(p, outcome)
  BY <1>1, <1>2, CrashQuietSteps DEF Return
<1>3. CASE ~ \E outcome : Return(p, outcome)
  <2>1. PICK latest \in 0 .. MaxSequence :
          /\ LatestSequence(latest)
          /\ Goto(p, "previous", "publishHead")
          /\ sequence' = [sequence EXCEPT ![p] = latest + 1]
          /\ UNCHANGED <<temporaries, stamp, header, pending, best, missed, seen>>
    BY <1>3 DEF Previous
  <2>2. /\ pc[p] = "previous" /\ pc' = [pc EXCEPT ![p] = "publishHead"]
        /\ UNCHANGED <<job, damaged, header>>
    BY <2>1 DEF Goto
  <2> SUFFICES ASSUME damaged = 0
               PROVE  /\ ImagesSound'
                      /\ \A q \in Processes : PublicationKnown(q)'
                      /\ HeadsNameDurableGenerations'
                      /\ SequencesOrdered'
                      /\ SequencesAreDistinct'
    BY <2>2 DEF CrashInvariant
  <2>3. /\ ImagesSound /\ HeadsNameDurableGenerations /\ SequencesOrdered /\ SequencesAreDistinct
        /\ \A q \in Processes : PublicationKnown(q)
    BY DEF CrashInvariant
  <2>4. ImagesSound' /\ HeadsNameDurableGenerations' /\ SequencesAreDistinct'
    BY <1>1, <2>3 DEF ImagesSound, HeadsNameDurableGenerations, SequencesAreDistinct, files
  <2>5. ASSUME NEW q \in Processes PROVE PublicationKnown(q)'
    <3>1. PublicationKnown(q)
      BY <2>3
    <3> QED
      BY <1>0, <1>1, <2>2, <3>1 DEF PublicationKnown, TypeOK, files
  <2>6. SequencesOrdered'
    <3> SUFFICES ASSUME NEW k \in Keys, NEW h \in headImages[k] \ {Absent}
                 PROVE  /\ heads[k] # Absent
                        /\ h.sequence <= heads[k].sequence
                        /\ \A q \in Processes : pc'[q] = "publishHead" => h.sequence < sequence'[q]
      BY <1>1 DEF SequencesOrdered, files
    <3>1. heads[k] # Absent /\ h.sequence <= heads[k].sequence
      BY <2>3 DEF SequencesOrdered
    <3>2. Valid(k) /\ heads[k] \in Head
      BY <2>3, <3>1, Undamaged DEF Present
    <3>3. heads[k].sequence <= latest
      BY <2>1, <3>2 DEF LatestSequence
    <3>4. h \in Head
      BY <2>3 DEF ImagesSound
    <3>5. h.sequence \in Nat /\ heads[k].sequence \in Nat /\ latest \in Nat
      BY <2>1, <3>2, <3>4 DEF Head
    <3>6. h.sequence < sequence'[p]
      BY <1>0, <2>1, <3>1, <3>3, <3>5 DEF TypeOK
    <3>7. \A q \in Processes \ {p} : pc'[q] # "publishHead"
      BY <1>0, <2>2, Alone DEF TypeOK
    <3> QED
      BY <3>1, <3>6, <3>7
  <2> QED
    BY <2>4, <2>5, <2>6
<1> QED
  BY <1>2, <1>3

\* A head is published: its generation is durable and its sequence is new.
LEMMA CrashPublishHead ==
  ASSUME Typed, LockHeld, CrashInvariant, NEW p \in Processes, PublishHead(p)
  PROVE  CrashInvariant'
<1> USE DEF LockedSteps, PublicationSteps, InstallSteps, FlushSteps, BindSteps
<1> DEFINE k == Key(p)
           h == [generation |-> job[p].generation, header |-> header[p], sequence |-> sequence[p]]
<1>0. TypeOK /\ LocalsKnown(p) /\ job[p].generation \in Generations
  BY JobTypes DEF Typed
<1>1. /\ pc[p] = "publishHead" /\ pc' = [pc EXCEPT ![p] = "syncViews"]
      /\ UNCHANGED <<job, damaged, header, sequence, generations, generationImages>>
      /\ heads' = [heads EXCEPT ![k] = h]
      /\ headImages' = [headImages EXCEPT ![k] = @ \cup {h}]
  BY DEF PublishHead, Goto, locals
<1>2. job[p].op = "publish" /\ header[p] \in Stamps /\ sequence[p] \in 1 .. MaxSequence
  BY <1>0, <1>1 DEF LocalsKnown
<1>3. k \in Keys
  BY <1>0, <1>2, JobTypes
<1>4. h \in Head /\ h # Absent
  <2>1. h \in Head
    BY <1>0, <1>2 DEF Head
  <2> QED
    BY <2>1, MarkAssumption
<1>5. /\ h.generation = job[p].generation /\ h.header = header[p] /\ h.sequence = sequence[p]
  OBVIOUS
<1> HIDE DEF k, h
<1> SUFFICES ASSUME damaged = 0
             PROVE  /\ ImagesSound'
                    /\ \A q \in Processes : PublicationKnown(q)'
                    /\ HeadsNameDurableGenerations'
                    /\ SequencesOrdered'
                    /\ SequencesAreDistinct'
  BY <1>1 DEF CrashInvariant
<1>6. /\ ImagesSound /\ HeadsNameDurableGenerations /\ SequencesOrdered /\ SequencesAreDistinct
      /\ \A q \in Processes : PublicationKnown(q)
  BY DEF CrashInvariant
<1>7. /\ headImages'[k] = headImages[k] \cup {h} /\ heads'[k] = h
      /\ \A m \in Keys : m # k => headImages'[m] = headImages[m] /\ heads'[m] = heads[m]
  BY <1>0, <1>1, <1>3 DEF TypeOK
<1>15. \A m \in Keys : \A n \in headImages'[m] : n \in headImages[m] \/ (m = k /\ n = h)
  BY <1>7
<1>8. ImagesSound'
  <2>1. ASSUME NEW m \in Keys
        PROVE  heads'[m] \in headImages'[m] /\ headImages'[m] \subseteq {Absent} \cup Head
    <3>1. CASE m = k
      BY <1>3, <1>4, <1>6, <1>7, <3>1 DEF ImagesSound
    <3>2. CASE m # k
      BY <1>6, <1>7, <3>2 DEF ImagesSound
    <3> QED
      BY <3>1, <3>2
  <2> QED
    BY <1>1, <1>6, <2>1 DEF ImagesSound
<1>9. ASSUME NEW q \in Processes PROVE PublicationKnown(q)'
  <2>1. PublicationKnown(q)
    BY <1>6
  <2> QED
    BY <1>0, <1>1, <2>1 DEF PublicationKnown, TypeOK
<1>10. HeadsNameDurableGenerations'
  <2> SUFFICES ASSUME NEW m \in Keys, NEW n \in headImages'[m] \ {Absent}
               PROVE  generationImages[n.generation] = {[header |-> n.header, intact |-> TRUE]}
    BY <1>1 DEF HeadsNameDurableGenerations
  <2>1. CASE n = h
    <3>1. PublicationKnown(p)
      BY <1>6
    <3> QED
      BY <1>1, <1>5, <2>1, <3>1 DEF PublicationKnown
  <2>2. CASE n # h
    BY <1>6, <1>15, <2>2 DEF HeadsNameDurableGenerations
  <2> QED
    BY <2>1, <2>2
<1>11. \A m \in Keys : \A n \in headImages[m] \ {Absent} : n.sequence < h.sequence /\ n.sequence \in Nat
  <2> SUFFICES ASSUME NEW m \in Keys, NEW n \in headImages[m] \ {Absent}
               PROVE  n.sequence < h.sequence /\ n.sequence \in Nat
    OBVIOUS
  <2>1. n.sequence < h.sequence
    BY <1>1, <1>5, <1>6 DEF SequencesOrdered
  <2>2. n \in Head
    BY <1>6 DEF ImagesSound
  <2> QED
    BY <2>1, <2>2 DEF Head
<1>12. h.sequence \in Nat
  BY <1>2, <1>5
<1>13. SequencesOrdered'
  <2>1. \A q \in Processes : pc'[q] # "publishHead"
    BY <1>0, <1>1, Alone DEF TypeOK
  <2> SUFFICES ASSUME NEW m \in Keys, NEW n \in headImages'[m] \ {Absent}
               PROVE  heads'[m] # Absent /\ n.sequence <= heads'[m].sequence
    BY <2>1 DEF SequencesOrdered
  <2>2. CASE m = k
    <3>1. n = h \/ n.sequence < h.sequence
      BY <1>11, <1>15
    <3>2. heads'[m] = h
      BY <1>7, <2>2
    <3>3. n = h \/ n.sequence \in Nat
      BY <1>11, <1>15
    <3> QED
      BY <1>4, <1>12, <3>1, <3>2, <3>3
  <2>3. CASE m # k
    BY <1>6, <1>7, <2>3 DEF SequencesOrdered
  <2> QED
    BY <2>2, <2>3
<1>14. SequencesAreDistinct'
  <2> SUFFICES ASSUME NEW m \in Keys, NEW l \in Keys, m # l,
                      NEW n \in headImages'[m] \ {Absent}, NEW o \in headImages'[l] \ {Absent}
               PROVE  n.sequence # o.sequence
    BY DEF SequencesAreDistinct
  <2>1. CASE m = k /\ n = h
    <3>1. o \in headImages[l] \ {Absent}
      BY <1>15, <2>1
    <3> QED
      BY <1>11, <1>12, <2>1, <3>1
  <2>2. CASE l = k /\ o = h
    <3>1. n \in headImages[m] \ {Absent}
      BY <1>15, <2>2
    <3> QED
      BY <1>11, <1>12, <2>2, <3>1
  <2>3. CASE ~(m = k /\ n = h) /\ ~(l = k /\ o = h)
    BY <1>6, <1>15, <2>3 DEF SequencesAreDistinct
  <2> QED
    BY <2>1, <2>2, <2>3
<1> QED
  BY <1>8, <1>9, <1>10, <1>13, <1>14

\* A power loss picks one of the images.
LEMMA CrashPowerLoss ==
  ASSUME Typed, CrashInvariant, PowerLoss
  PROVE  CrashInvariant'
<1> USE DEF FlushSteps, BindSteps
<1>0. TypeOK
  BY DEF Typed
<1>1. \A q \in Processes : pc'[q] \in {"idle", "done"}
  BY DEF PowerLoss
<1>2. damaged' = damaged
  BY DEF PowerLoss
<1> SUFFICES ASSUME damaged = 0
             PROVE  /\ ImagesSound'
                    /\ \A q \in Processes : PublicationKnown(q)'
                    /\ HeadsNameDurableGenerations'
                    /\ SequencesOrdered'
                    /\ SequencesAreDistinct'
  BY <1>2 DEF CrashInvariant
<1>3. /\ ImagesSound /\ HeadsNameDurableGenerations /\ SequencesOrdered /\ SequencesAreDistinct
  BY DEF CrashInvariant
<1>4. \A g \in Generations : generations'[g] \in generationImages[g] /\ generationImages'[g] = {generations'[g]}
  BY DEF PowerLoss
<1>5. \A k \in Keys : heads'[k] \in headImages[k] /\ headImages'[k] = {heads'[k]}
  BY DEF PowerLoss
<1>6. ImagesSound'
  <2>1. ASSUME NEW g \in Generations
        PROVE  /\ generations'[g] \in generationImages'[g]
               /\ generationImages'[g] \subseteq {Absent} \cup [header : Stamps, intact : {TRUE}]
    <3> DEFINE S == {Absent} \cup [header : Stamps, intact : {TRUE}]
    <3>1. generationImages[g] \subseteq S
      BY <1>3 DEF ImagesSound
    <3> HIDE DEF S
    <3>2. generationImages'[g] \subseteq S /\ generations'[g] \in generationImages'[g]
      BY <1>4, <3>1
    <3> QED
      BY <3>2 DEF S
  <2>2. ASSUME NEW k \in Keys
        PROVE  heads'[k] \in headImages'[k] /\ headImages'[k] \subseteq {Absent} \cup Head
    BY <1>3, <1>5 DEF ImagesSound
  <2> QED
    BY <2>1, <2>2 DEF ImagesSound
<1>7. \A q \in Processes : PublicationKnown(q)'
  BY <1>1 DEF PublicationKnown
<1>8. HeadsNameDurableGenerations'
  <2> SUFFICES ASSUME NEW k \in Keys, NEW h \in headImages'[k] \ {Absent}
               PROVE  generationImages'[h.generation] = {[header |-> h.header, intact |-> TRUE]}
    BY DEF HeadsNameDurableGenerations
  <2>1. h \in headImages[k] \ {Absent} /\ h \in Head
    BY <1>3, <1>5 DEF ImagesSound
  <2>2. generationImages[h.generation] = {[header |-> h.header, intact |-> TRUE]}
    BY <1>3, <2>1 DEF HeadsNameDurableGenerations
  <2>3. PICK g \in Generations : g = h.generation
    BY <2>1 DEF Head
  <2> QED
    BY <1>4, <2>2, <2>3
<1>9. SequencesAreDistinct'
  BY <1>3, <1>5 DEF SequencesAreDistinct
<1>10. SequencesOrdered'
  <2> SUFFICES ASSUME NEW k \in Keys, NEW h \in headImages'[k] \ {Absent}
               PROVE  heads'[k] # Absent /\ h.sequence <= heads'[k].sequence
    BY <1>1 DEF SequencesOrdered
  <2>1. h = heads'[k] /\ h \in Head
    BY <1>3, <1>5 DEF ImagesSound
  <2>2. h.sequence \in Nat
    BY <2>1 DEF Head
  <2> QED
    BY <2>1, <2>2
<1> QED
  BY <1>6, <1>7, <1>8, <1>9, <1>10

\* Nobody cleans up.
NoCleanup == \A j \in Jobs : j.op # "cleanup"

\* Every step keeps the invariant.
LEMMA CrashStep ==
  ASSUME NoCleanup, Typed, LockHeld, CrashInvariant, [Next]_vars
  PROVE  CrashInvariant'
<1> USE StepNames
<1> USE DEF FlushSteps, BindSteps
<1>0. TypeOK
  BY DEF Typed
<1>1. ASSUME NEW p \in Processes, Start(p) \/ Lock(p) \/ SyncFile(p) \/ Kill(p) PROVE CrashInvariant'
  BY <1>1, CrashQuietSteps DEF Start, Lock, SyncFile, Kill
<1>2. ASSUME NEW p \in Processes, Stage(p) PROVE CrashInvariant'
  BY <1>2, CrashQuietSteps DEF Stage
<1>3. ASSUME NEW p \in Processes, Pin(p) \/ Read(p) \/ Fail(p) PROVE CrashInvariant'
  <2>1. UNCHANGED files /\ \E outcome, answer : Finish(p, outcome, answer)
    <3>1. CASE Pin(p)
      BY <3>1 DEF Pin, Return
    <3>2. CASE Read(p)
      BY <3>2 DEF Read, Return
    <3>3. CASE Fail(p)
      BY <3>3 DEF Fail, Return
    <3> QED
      BY <1>3, <3>1, <3>2, <3>3
  <2> QED
    BY <2>1, CrashQuietSteps
<1>4. ASSUME NEW p \in Processes, Scan(p) PROVE CrashInvariant'
  <2>1. CASE ScanEnd(p)
    BY <2>1, CrashQuietSteps DEF ScanEnd, Return
  <2>2. CASE \E k \in Keys : ScanHead(p, k)
    BY <2>2, CrashQuietSteps DEF ScanHead
  <2>3. CASE \E k \in Keys : ScanMalformed(p, k)
    BY <2>3, CrashQuietSteps DEF ScanMalformed, Return
  <2> QED
    BY <1>4, <2>1, <2>2, <2>3 DEF Scan
<1>5. ASSUME NEW p \in Processes, Retain(p) \/ Remove(p) PROVE FALSE
  <2>1. pc[p] \in {"retain", "remove"}
    BY <1>5 DEF Retain, Remove, RemoveGeneration, RemoveEnd, Goto
  <2>2. job[p].op = "cleanup" /\ job[p] \in Jobs
    BY <1>0, <2>1 DEF Typed, LocalsKnown, TypeOK
  <2> QED
    BY <2>2 DEF NoCleanup
<1>6. ASSUME NEW p \in Processes, PublishSteps(p) PROVE CrashInvariant'
  BY <1>1, <1>2, <1>3, <1>6, CrashInstall, CrashSync, CrashPrevious, CrashPublishHead DEF PublishSteps
<1>7. CASE (\E g \in Generations : DamageGeneration(g)) \/ (\E k \in Keys : DamageHead(k))
  <2>1. damaged' = damaged + 1 /\ damaged \in Nat
    BY <1>0, <1>7, BoundAssumption DEF DamageGeneration, DamageHead, TypeOK
  <2> QED
    BY <2>1 DEF CrashInvariant
<1>8. CASE UNCHANGED vars
  BY <1>8, CrashFrame DEF vars, locals
<1> QED
  BY <1>1, <1>3, <1>4, <1>5, <1>6, <1>7, <1>8, CrashPowerLoss DEF Next, Step

\* The invariant of the store holds under every crash, kill and I/O error.
THEOREM InvariantHolds == ASSUME NoCleanup PROVE Spec => []CrashInvariant
<1>1. Init => CrashInvariant
  <2> SUFFICES ASSUME Init PROVE CrashInvariant
    OBVIOUS
  <2>1. ImagesSound
    BY DEF Init, ImagesSound
  <2>2. \A p \in Processes : PublicationKnown(p)
    BY DEF Init, PublicationKnown, FlushSteps, BindSteps
  <2>3. HeadsNameDurableGenerations /\ SequencesOrdered /\ SequencesAreDistinct
    BY DEF Init, HeadsNameDurableGenerations, SequencesOrdered, SequencesAreDistinct
  <2> QED
    BY <2>1, <2>2, <2>3 DEF CrashInvariant
<1>2. Typed /\ LockHeld /\ CrashInvariant /\ [Next]_vars => CrashInvariant'
  BY CrashStep
<1> QED
  BY <1>1, <1>2, TypedIsInvariant, LockIsHeld, PTL DEF Spec

\* A head that a power loss may leave names a generation that it leaves too:
\* publish_staged_generation synchronises generations/ before it renames a head.
THEOREM HeadsAreDurable == ASSUME NoCleanup PROVE Spec => []HeadsNameDurableGenerations
<1>1. CrashInvariant => HeadsNameDurableGenerations
  BY DEF CrashInvariant, HeadsNameDurableGenerations
<1> QED
  BY <1>1, InvariantHolds, PTL

\* next_refresh_sequence gives no two views the same sequence, whatever heads a power
\* loss brings back.
THEOREM SequencesDistinct == ASSUME NoCleanup PROVE Spec => []SequencesAreDistinct
<1>1. CrashInvariant => SequencesAreDistinct
  BY DEF CrashInvariant, SequencesAreDistinct
<1> QED
  BY <1>1, InvariantHolds, PTL

\* A step that gives p a result gives none to the others.
LEMMA OnlyOneReturns ==
  ASSUME Typed, CrashesNeverWedgeTheStore, damaged' = damaged, NEW p \in Processes,
         NEW outcome, result' = [result EXCEPT ![p] = outcome],
         damaged = 0 => outcome \notin {"invalid", "headsInvalid", "collision", "reopen"}
  PROVE  CrashesNeverWedgeTheStore'
BY DEF CrashesNeverWedgeTheStore, Typed, TypeOK

\* The steps of a publication or a reader that may report a damaged store.
LEMMA NoDamageReported ==
  ASSUME Typed, CrashInvariant, CrashesNeverWedgeTheStore, NEW p \in Processes, Step(p)
  PROVE  CrashesNeverWedgeTheStore'
<1> USE DEF FlushSteps, BindSteps, PublicationSteps, InstallSteps
<1>0. TypeOK
  BY DEF Typed
<1>1. ASSUME UNCHANGED <<result, damaged>> PROVE CrashesNeverWedgeTheStore'
  BY <1>1 DEF CrashesNeverWedgeTheStore
<1>2. ASSUME NEW outcome, NEW answer, Finish(p, outcome, answer),
             damaged = 0 => outcome \notin {"invalid", "headsInvalid", "collision", "reopen"}
      PROVE  CrashesNeverWedgeTheStore'
  BY <1>2, OnlyOneReturns DEF Finish
<1>3. damaged = 0 =>
        /\ InvalidHeads = {}
        /\ \A g \in Generations : generations[g] # Foreign /\ (generations[g] # Absent => Opens(g))
        /\ \A k \in Keys : heads[k] # Malformed
  <2> SUFFICES ASSUME damaged = 0
               PROVE  /\ InvalidHeads = {}
                      /\ \A g \in Generations :
                           generations[g] # Foreign /\ (generations[g] # Absent => Opens(g))
                      /\ \A k \in Keys : heads[k] # Malformed
    OBVIOUS
  <2>1. ImagesSound /\ HeadsNameDurableGenerations
    BY DEF CrashInvariant
  <2>2. ASSUME NEW k \in Keys PROVE heads[k] # Malformed
    <3>1. heads[k] \in {Absent} \cup Head
      BY <2>1 DEF ImagesSound
    <3> QED
      BY <3>1, MarkAssumption
  <2> QED
    BY <2>1, <2>2, Undamaged
<1>4. CASE Start(p) \/ Lock(p) \/ Stage(p) \/ SyncFile(p) \/ SyncGenerations(p) \/ PublishHead(p)
             \/ SyncViews(p) \/ Retain(p)
  BY <1>1, <1>4 DEF Start, Lock, Stage, SyncFile, SyncGenerations, PublishHead, SyncViews, Retain, Goto
<1>5. CASE Install(p)
  <2> DEFINE g == job[p].generation
  <2>0. g \in Generations
    BY <1>0, JobTypes
  <2>1. CASE Reuse(p, g) \/ Replace(p, g)
    BY <1>1, <2>1 DEF Reuse, Replace, Goto
  <2>2. CASE Collide(p, g)
    BY <1>2, <1>3, <2>0, <2>2 DEF Collide, Return
  <2> QED
    BY <1>5, <2>1, <2>2 DEF Install
<1>6. CASE Previous(p)
  <2>1. CASE Goto(p, "previous", "publishHead")
    BY <1>1, <2>1 DEF Goto
  <2>2. CASE InvalidHeads # {} /\ Return(p, "headsInvalid")
    BY <1>2, <1>3, <2>2 DEF Return
  <2>3. CASE Return(p, "overflow")
    BY <1>2, <2>3 DEF Return
  <2> QED
    BY <1>6, <2>1, <2>2, <2>3 DEF Previous
<1>7. CASE Pin(p)
  <2> DEFINE g == job[p].generation
  <2>1. CASE Opens(g)
    BY <1>2, <1>7, <2>1 DEF Pin
  <2>2. CASE ~Opens(g) /\ Return(p, "reopen")
    <3>1. ASSUME damaged = 0 PROVE FALSE
      <4>1. g \in Generations
        BY <1>0, JobTypes
      <4> HIDE DEF g
      <4>2. ImagesSound /\ PublicationKnown(p)
        BY <3>1 DEF CrashInvariant
      <4>3. generationImages[g] = {[header |-> header[p], intact |-> TRUE]}
        BY <1>7, <4>2 DEF Pin, PublicationKnown, g
      <4>4. generations[g] = [header |-> header[p], intact |-> TRUE]
        BY <4>1, <4>2, <4>3 DEF ImagesSound
      <4>5. header[p] \in Stamps
        BY <1>7 DEF Pin, Typed, LocalsKnown
      <4>6. generations[g] \in Readable
        BY <4>4, <4>5 DEF Readable
      <4> QED
        BY <2>2, <4>6, MarkAssumption DEF Opens, g
    <3> QED
      BY <1>2, <2>2, <3>1 DEF Return
  <2> QED
    BY <1>7, <2>1, <2>2 DEF Pin
<1>8. CASE Read(p)
  <2>1. CASE \E k \in Selected(job[p].endpoint) : Finish(p, "found", ViewOf(k))
    BY <1>2, <2>1
  <2>2. CASE Return(p, "missing")
    BY <1>2, <2>2 DEF Return
  <2>3. CASE InvalidHeads # {} /\ Return(p, "invalid")
    BY <1>2, <1>3, <2>3 DEF Return
  <2> QED
    BY <1>8, <2>1, <2>2, <2>3 DEF Read
<1>9. CASE Scan(p)
  <2>1. CASE ScanEnd(p)
    BY <1>2, <2>1 DEF ScanEnd, Return
  <2>2. ASSUME NEW k \in Keys, ScanHead(p, k) PROVE CrashesNeverWedgeTheStore'
    BY <1>1, <2>2 DEF ScanHead, Goto
  <2>3. ASSUME NEW k \in Keys, ScanMalformed(p, k) PROVE CrashesNeverWedgeTheStore'
    <3>1. CASE Goto(p, "scan", "scan")
      BY <1>1, <3>1 DEF Goto
    <3>2. CASE Return(p, "invalid")
      BY <1>2, <1>3, <2>3, <3>2 DEF ScanMalformed, Return
    <3> QED
      BY <2>3, <3>1, <3>2 DEF ScanMalformed
  <2> QED
    BY <1>9, <2>1, <2>2, <2>3 DEF Scan
<1>10. CASE Remove(p)
  <2>1. CASE \E g \in Generations : RemoveGeneration(p, g)
    BY <1>1, <2>1 DEF RemoveGeneration, Goto
  <2>2. CASE RemoveEnd(p)
    BY <1>2, <2>2 DEF RemoveEnd, Return
  <2> QED
    BY <1>10, <2>1, <2>2 DEF Remove
<1> QED
  BY <1>4, <1>5, <1>6, <1>7, <1>8, <1>9, <1>10 DEF Step, PublishSteps

\* As long as nothing is damaged from outside, no publisher of publish_staged_generation
\* and no reader is ever told that the store is damaged, after any crash.
THEOREM NeverWedged == ASSUME NoCleanup PROVE Spec => []CrashesNeverWedgeTheStore
<1>1. Init => CrashesNeverWedgeTheStore
  BY DEF Init, CrashesNeverWedgeTheStore
<1>2. Typed /\ CrashInvariant /\ CrashesNeverWedgeTheStore /\ [Next]_vars => CrashesNeverWedgeTheStore'
  <2> SUFFICES ASSUME Typed, CrashInvariant, CrashesNeverWedgeTheStore, [Next]_vars
               PROVE  CrashesNeverWedgeTheStore'
    OBVIOUS
  <2>1. ASSUME NEW p \in Processes, Fail(p) \/ Kill(p) PROVE CrashesNeverWedgeTheStore'
    BY <2>1, OnlyOneReturns DEF Fail, Kill, Return, Finish
  <2>2. CASE PowerLoss
    BY <2>2 DEF PowerLoss, CrashesNeverWedgeTheStore
  <2>3. CASE (\E g \in Generations : DamageGeneration(g)) \/ (\E k \in Keys : DamageHead(k))
    <3>1. damaged' = damaged + 1 /\ damaged \in Nat
      BY <2>3, BoundAssumption DEF DamageGeneration, DamageHead, Typed, TypeOK
    <3> QED
      BY <3>1 DEF CrashesNeverWedgeTheStore
  <2>4. CASE UNCHANGED vars
    BY <2>4 DEF vars, CrashesNeverWedgeTheStore
  <2> QED
    BY <2>1, <2>2, <2>3, <2>4, NoDamageReported DEF Next
<1> QED
  BY <1>1, <1>2, TypedIsInvariant, InvariantHolds, PTL DEF Spec

(***************************************************************************)
(* The loader that a publication returns                                   *)
(***************************************************************************)

\* A call that ends with the files as they were.
LEMMA PinFinish ==
  ASSUME Typed, PinInvariant, NEW p \in Processes, NEW outcome, NEW answer,
         UNCHANGED <<generations, job, header>>,
         pc' = [pc EXCEPT ![p] = "done"], result' = [result EXCEPT ![p] = outcome],
         view' = [view EXCEPT ![p] = answer],
         outcome = "published" => answer = <<job[p].generation, header[p]>>
  PROVE  PinInvariant'
<1>0. TypeOK
  BY DEF Typed
<1>1. PinnedIsPublished'
  BY <1>0 DEF PinInvariant, PinnedIsPublished, TypeOK
<1>2. ASSUME NEW q \in Processes PROVE HeaderKnown(q)'
  BY <1>0 DEF PinInvariant, HeaderKnown, TypeOK, Opens, FlushSteps, BindSteps
<1> QED
  BY <1>1, <1>2 DEF PinInvariant

\* A step of a call that goes on and leaves generations and headers alone.
LEMMA PinQuiet ==
  ASSUME Typed, PinInvariant, UNCHANGED <<generations, job, header, result, view>>,
         \A q \in Processes :
           /\ pc'[q] \in FlushSteps \cup BindSteps => pc[q] \in FlushSteps \cup BindSteps
           /\ pc'[q] # "done" => pc[q] # "done"
  PROVE  PinInvariant'
<1>1. PinnedIsPublished'
  BY DEF PinInvariant, PinnedIsPublished
<1>2. ASSUME NEW q \in Processes PROVE HeaderKnown(q)'
  BY DEF PinInvariant, HeaderKnown, Opens
<1> QED
  BY <1>1, <1>2 DEF PinInvariant

\* Install reads the header of the file it keeps, or writes its own.
LEMMA PinInstall ==
  ASSUME Typed, LockHeld, PinInvariant, NEW p \in Processes, Install(p)
  PROVE  PinInvariant'
<1> USE DEF FlushSteps, BindSteps
<1> DEFINE g == job[p].generation
<1>0. TypeOK /\ g \in Generations
  BY JobTypes DEF Typed
<1>1. CASE Collide(p, g)
  BY <1>1, PinFinish DEF Collide, Return, Finish, files
<1>2. CASE Reuse(p, g) \/ Replace(p, g)
  <2>1. /\ pc[p] = "install" /\ UNCHANGED <<job, result, view>>
        /\ \A q \in Processes : q # p => pc'[q] = pc[q] /\ header'[q] = header[q]
        /\ pc'[p] # "done"
    BY <1>0, <1>2 DEF Reuse, Replace, Goto, TypeOK
  <2>2. PinnedIsPublished'
    <3> SUFFICES ASSUME NEW q \in Processes, result'[q] = "published"
                 PROVE  view'[q] = <<job'[q].generation, header'[q]>>
      BY DEF PinnedIsPublished
    <3>1. q # p
      BY <2>1 DEF PinInvariant, HeaderKnown
    <3> QED
      BY <2>1, <3>1 DEF PinInvariant, PinnedIsPublished
  <2>3. header'[p] = generations'[g].header
    <3>1. CASE Reuse(p, g)
      BY <1>0, <3>1 DEF Reuse, files, TypeOK
    <3>2. CASE Replace(p, g)
      <4>1. header'[p] = stamp[p] /\ generations'[g] = [header |-> stamp[p], intact |-> TRUE]
        BY <1>0, <3>2 DEF Replace, PutGeneration, TypeOK
      <4> QED
        BY <4>1
    <3> QED
      BY <1>2, <3>1, <3>2
  <2>4. ASSUME NEW q \in Processes PROVE HeaderKnown(q)'
    <3>1. CASE q = p
      BY <2>1, <2>3, <3>1 DEF PinInvariant, HeaderKnown
    <3>2. CASE q # p
      <4>1. pc[q] \notin LockedSteps
        BY <2>1, <3>2, Alone DEF LockedSteps, PublicationSteps, InstallSteps
      <4> QED
        BY <2>1, <3>2, <4>1 DEF PinInvariant, HeaderKnown, LockedSteps, PublicationSteps
    <3> QED
      BY <3>1, <3>2
  <2> QED
    BY <2>2, <2>4 DEF PinInvariant
<1> QED
  BY <1>1, <1>2 DEF Install

\* A file that is removed or damaged does not open, or keeps its header.
LEMMA PinFileChanges ==
  ASSUME Typed, PinInvariant, NEW g \in Generations, NEW f, UNCHANGED <<job, header, result, view, pc>>,
         generations' = [generations EXCEPT ![g] = f],
         f \in {Absent, Unreadable, Foreign} \/ (Opens(g) /\ f.header = generations[g].header)
  PROVE  PinInvariant'
<1>0. TypeOK
  BY DEF Typed
<1>1. PinnedIsPublished'
  BY DEF PinInvariant, PinnedIsPublished
<1>2. ASSUME NEW q \in Processes PROVE HeaderKnown(q)'
  <2>1. PICK h \in Generations : h = job[q].generation
    BY <1>0, JobTypes
  <2>2. CASE h = g
    BY <1>0, <2>1, <2>2 DEF PinInvariant, HeaderKnown, Opens, TypeOK
  <2>3. CASE h # g
    <3>1. generations'[h] = generations[h]
      BY <1>0, <2>3 DEF TypeOK
    <3> QED
      BY <2>1, <3>1 DEF PinInvariant, HeaderKnown, Opens
  <2> QED
    BY <2>2, <2>3
<1> QED
  BY <1>1, <1>2 DEF PinInvariant

\* Every step keeps what the publishers know of their header.
LEMMA PinStep ==
  ASSUME Typed, LockHeld, PinInvariant, [Next]_vars
  PROVE  PinInvariant'
<1> USE DEF FlushSteps, BindSteps
<1>0. TypeOK
  BY DEF Typed
<1>1. ASSUME NEW p \in Processes, Start(p) \/ Lock(p) PROVE PinInvariant'
  <2>1. FirstStep(p) \in {"stage", "read", "retain"}
    BY ZenonT(20) DEF FirstStep
  <2>2. /\ UNCHANGED <<generations, job, header, result, view>>
        /\ pc[p] # "done" /\ pc' = [pc EXCEPT ![p] = pc'[p]]
        /\ pc'[p] \in {"scan", "lock", "stage", "read", "retain"}
    <3>1. CASE Start(p)
      BY <1>0, <3>1 DEF Start, files, TypeOK
    <3>2. CASE Lock(p)
      BY <1>0, <2>1, <3>2 DEF Lock, files, locals, TypeOK
    <3> QED
      BY <1>1, <3>1, <3>2
  <2> QED
    BY <1>0, <2>2, PinQuiet DEF TypeOK
<1>2. ASSUME NEW p \in Processes, NEW from, NEW to, Goto(p, from, to), UNCHANGED <<generations, header>>,
             from # "done", to \in FlushSteps \cup BindSteps => from \in FlushSteps \cup BindSteps
      PROVE  PinInvariant'
  BY <1>0, <1>2, PinQuiet DEF Goto, TypeOK
<1>3. ASSUME NEW p \in Processes, NEW outcome, NEW answer, Finish(p, outcome, answer), UNCHANGED files,
             outcome = "published" => answer = <<job[p].generation, header[p]>>
      PROVE  PinInvariant'
  BY <1>3, PinFinish DEF Finish, files
<1>4. ASSUME NEW p \in Processes, PublishSteps(p) PROVE PinInvariant'
  <2>1. CASE Stage(p) \/ SyncFile(p) \/ SyncGenerations(p) \/ PublishHead(p) \/ SyncViews(p)
    BY <1>2, <2>1 DEF Stage, SyncFile, SyncGenerations, PublishHead, SyncViews, files, locals
  <2>2. CASE Previous(p)
    <3>1. CASE Goto(p, "previous", "publishHead") /\ UNCHANGED header
      BY <1>2, <2>2, <3>1 DEF Previous, files
    <3>2. CASE Return(p, "headsInvalid") \/ Return(p, "overflow")
      BY <1>3, <2>2, <3>2 DEF Previous, Return
    <3> QED
      BY <2>2, <3>1, <3>2 DEF Previous
  <2>3. CASE Pin(p)
    <3>1. CASE Opens(job[p].generation)
      <4>1. generations[job[p].generation].header = header[p]
        BY <2>3, <3>1 DEF Pin, PinInvariant, HeaderKnown
      <4> QED
        BY <1>3, <2>3, <3>1, <4>1 DEF Pin
    <3>2. CASE ~Opens(job[p].generation)
      BY <1>3, <2>3, <3>2 DEF Pin, Return
    <3> QED
      BY <3>1, <3>2
  <2> QED
    BY <1>4, <2>1, <2>2, <2>3, PinInstall DEF PublishSteps
<1>5. ASSUME NEW p \in Processes, Read(p) \/ Scan(p) \/ Fail(p) PROVE PinInvariant'
  <2>1. CASE \E k \in Keys : ScanHead(p, k)
    BY <1>2, <2>1 DEF ScanHead, files
  <2>2. CASE \E k \in Keys : ScanMalformed(p, k)
    <3>1. CASE Goto(p, "scan", "scan") /\ UNCHANGED header
      BY <1>2, <2>2, <3>1 DEF ScanMalformed, files
    <3>2. CASE Return(p, "invalid")
      BY <1>3, <2>2, <3>2 DEF ScanMalformed, Return
    <3> QED
      BY <2>2, <3>1, <3>2 DEF ScanMalformed
  <2>3. CASE ScanEnd(p)
    BY <1>3, <2>3 DEF ScanEnd, Return
  <2>4. CASE Read(p) \/ Fail(p)
    BY <1>3, <2>4 DEF Read, Fail, Return
  <2> QED
    BY <1>5, <2>1, <2>2, <2>3, <2>4 DEF Scan
<1>6. ASSUME NEW p \in Processes, Retain(p) \/ Remove(p) PROVE PinInvariant'
  <2>1. CASE Retain(p)
    BY <1>2, <2>1 DEF Retain, files
  <2>2. CASE RemoveEnd(p)
    BY <1>3, <2>2 DEF RemoveEnd, Return
  <2>3. ASSUME NEW g \in Generations, RemoveGeneration(p, g) PROVE PinInvariant'
    <3>1. Goto(p, "remove", "remove") /\ UNCHANGED header
      BY <2>3 DEF RemoveGeneration
    <3>2. CASE UNCHANGED files
      BY <1>2, <3>1, <3>2 DEF files
    <3>3. CASE PutGeneration(g, Absent)
      <4>1. pc' = pc
        BY <1>0, <3>1 DEF Goto, TypeOK
      <4> QED
        BY <3>1, <3>3, <4>1, PinFileChanges DEF PutGeneration, Goto
    <3> QED
      BY <2>3, <3>2, <3>3 DEF RemoveGeneration
  <2> QED
    BY <1>6, <2>1, <2>2, <2>3 DEF Remove
<1>7. ASSUME NEW p \in Processes, Kill(p) PROVE PinInvariant'
  <2>1. view' = [view EXCEPT ![p] = view[p]]
    BY <1>0, <1>7 DEF Kill, TypeOK
  <2> QED
    BY <1>7, <2>1, PinFinish DEF Kill, files
<1>8. CASE PowerLoss
  <2>1. PinnedIsPublished'
    BY <1>8 DEF PowerLoss, PinInvariant, PinnedIsPublished
  <2>2. \A q \in Processes : HeaderKnown(q)'
    BY <1>8 DEF PowerLoss, PinInvariant, HeaderKnown
  <2> QED
    BY <2>1, <2>2 DEF PinInvariant
<1>9. ASSUME NEW g \in Generations, DamageGeneration(g) PROVE PinInvariant'
  <2>1. PICK f \in {Unreadable, Foreign, [generations[g] EXCEPT !.intact = FALSE]} :
          generations' = [generations EXCEPT ![g] = f]
    BY <1>9 DEF DamageGeneration
  <2>2. Opens(g) /\ generations[g] \in Readable
    BY <1>0, <1>9 DEF DamageGeneration, Opens, TypeOK, GenerationFile
  <2>3. [generations[g] EXCEPT !.intact = FALSE].header = generations[g].header
    BY <2>2 DEF Readable
  <2>4. f \in {Absent, Unreadable, Foreign} \/ (Opens(g) /\ f.header = generations[g].header)
    BY <2>1, <2>2, <2>3
  <2>5. UNCHANGED <<job, header, result, view, pc>>
    BY <1>9 DEF DamageGeneration, locals
  <2> QED
    BY <2>1, <2>4, <2>5, PinFileChanges
<1>10. ASSUME NEW k \in Keys, DamageHead(k) PROVE PinInvariant'
  BY <1>10, PinQuiet DEF DamageHead, locals
<1>11. CASE UNCHANGED vars
  BY <1>11, PinQuiet DEF vars, files, locals
<1> QED
  BY <1>1, <1>4, <1>5, <1>6, <1>7, <1>8, <1>9, <1>10, <1>11 DEF Next, Step

\* build_and_publish returns a loader of the generation that its head names, under the
\* header that the head is bound to, with damage, cleanups and crashes at any step.
THEOREM PinnedPublished == Spec => []PinnedIsPublished
<1>1. Init => PinInvariant
  BY DEF Init, PinInvariant, PinnedIsPublished, HeaderKnown, FlushSteps, BindSteps
<1>2. Typed /\ LockHeld /\ PinInvariant /\ [Next]_vars => PinInvariant'
  BY PinStep
<1>3. PinInvariant => PinnedIsPublished
  BY DEF PinInvariant
<1> QED
  BY <1>1, <1>2, <1>3, TypedIsInvariant, LockIsHeld, PTL DEF Spec

(***************************************************************************)
(* Cleanups and valid heads                                                *)
(***************************************************************************)

\* The step of ValidHeadsStayValid.
HeadsStay ==
  \A k \in Keys : Whole(k) /\ damaged' = damaged /\ heads'[k] = heads[k] =>
    Whole(k)' \/ PowerLoss \/ \E p \in Processes : k \in missed[p]

\* A step that changes no file, but perhaps what is durable of it.
LEMMA CleanupFrame ==
  ASSUME CleanupInvariant, UNCHANGED <<generations, heads>>,
         \A q \in Processes : pc'[q] = "remove" =>
           pc[q] = "remove" /\ pending'[q] \subseteq pending[q] /\ missed'[q] = missed[q]
  PROVE  CleanupInvariant' /\ HeadsStay
<1>1. \A k \in Keys : (Valid(k)' <=> Valid(k)) /\ (Whole(k)' <=> Whole(k))
  BY DEF Valid, Opens, Whole
<1> QED
  BY <1>1 DEF CleanupInvariant, HeadsStay

\* A call that returns, waits or goes on without touching a file.
LEMMA CleanupQuiet ==
  ASSUME Typed, CleanupInvariant, NEW p \in Processes, UNCHANGED files,
         \/ \E outcome, answer : Finish(p, outcome, answer)
         \/ Kill(p) \/ Start(p) \/ Lock(p)
         \/ \E from : \E to \in Steps \ {"remove"} : Goto(p, from, to) /\ UNCHANGED <<pending, missed>>
         \/ /\ Goto(p, "scan", "scan") /\ UNCHANGED missed
            /\ \A q \in Processes \ {p} : pending'[q] = pending[q]
  PROVE  CleanupInvariant' /\ HeadsStay
<1>0. TypeOK
  BY DEF Typed
<1>1. UNCHANGED <<generations, heads>>
  BY DEF files
<1>2. \A q \in Processes : pc'[q] = "remove" =>
        pc[q] = "remove" /\ pending'[q] \subseteq pending[q] /\ missed'[q] = missed[q]
  BY <1>0, JobTypes DEF Finish, DropLocals, Kill, Start, Lock, FirstStep, Goto, TypeOK, locals
<1> QED
  BY <1>1, <1>2, CleanupFrame

\* publish_staged_generation replaces no intact file, and no cleanup is under way then.
LEMMA CleanupInstall ==
  ASSUME Typed, LockHeld, CleanupInvariant, NEW p \in Processes, Install(p)
  PROVE  CleanupInvariant' /\ HeadsStay
<1> DEFINE g == job[p].generation
           file == [header |-> stamp[p], intact |-> TRUE]
<1>0. TypeOK /\ g \in Generations
  BY JobTypes DEF Typed
<1>1. CASE Reuse(p, g)
  BY <1>1, StepNames, CleanupQuiet DEF Reuse, locals
<1>2. CASE Collide(p, g)
  BY <1>2, CleanupQuiet DEF Collide, Return
<1>3. CASE ~(Opens(g) /\ generations[g].intact) /\ Replace(p, g)
  <2>1. /\ generations' = [generations EXCEPT ![g] = file]
        /\ heads' = heads /\ pc[p] = "install"
        /\ \A q \in Processes : pc'[q] = "remove" => pc[q] = "remove" /\ q # p
    BY <1>0, <1>3 DEF Replace, PutGeneration, Goto, TypeOK
  <2>2. \A k \in Keys : Whole(k) => heads[k].generation # g
    BY <1>3 DEF Whole, Valid
  <2>3. HeadsStay
    BY <1>0, <2>1, <2>2 DEF HeadsStay, Whole, Valid, Opens, TypeOK
  <2>4. \A q \in Processes : pc'[q] # "remove"
    BY <2>1, Alone DEF LockedSteps, PublicationSteps, InstallSteps
  <2> QED
    BY <2>3, <2>4 DEF CleanupInvariant
<1> QED
  BY <1>1, <1>2, <1>3 DEF Install

\* The other steps of a publication.
LEMMA CleanupPublish ==
  ASSUME Typed, LockHeld, CleanupInvariant, NEW p \in Processes, PublishSteps(p)
  PROVE  CleanupInvariant' /\ HeadsStay
<1> USE StepNames
<1>0. TypeOK
  BY DEF Typed
<1>1. CASE Stage(p)
  BY <1>1, CleanupQuiet DEF Stage
<1>2. CASE SyncFile(p)
  BY <1>2, CleanupQuiet DEF SyncFile, locals
<1>3. CASE SyncGenerations(p)
  BY <1>0, <1>3, CleanupFrame DEF SyncGenerations, Goto, TypeOK, locals
<1>4. CASE Previous(p)
  BY <1>4, CleanupQuiet DEF Previous, Return
<1>5. CASE PublishHead(p)
  <2>1. /\ UNCHANGED <<generations, generationImages, pending>> /\ pc[p] = "publishHead"
        /\ \A q \in Processes : pc'[q] = "remove" => pc[q] = "remove" /\ q # p
    BY <1>0, <1>5 DEF PublishHead, Goto, locals, TypeOK
  <2>2. \A q \in Processes : pc'[q] # "remove"
    BY <2>1, Alone DEF LockedSteps, PublicationSteps, BindSteps
  <2>3. HeadsStay
    BY <2>1 DEF HeadsStay, Whole, Valid, Opens
  <2> QED
    BY <2>1, <2>2, <2>3 DEF CleanupInvariant
<1>6. CASE SyncViews(p)
  BY <1>0, <1>6, CleanupFrame DEF SyncViews, Goto, TypeOK, locals
<1>7. CASE Pin(p)
  BY <1>7, CleanupQuiet DEF Pin, Return
<1> QED
  BY <1>1, <1>2, <1>3, <1>4, <1>5, <1>6, <1>7, CleanupInstall DEF PublishSteps

\* cleanup removes what no valid head names, but those it could not read.
LEMMA CleanupRemove ==
  ASSUME Typed, LockHeld, CleanupInvariant, NEW p \in Processes, Retain(p) \/ Remove(p)
  PROVE  CleanupInvariant' /\ HeadsStay
<1>0. TypeOK
  BY DEF Typed
<1>1. CASE Retain(p)
  <2>1. /\ UNCHANGED <<generations, heads>> /\ pc[p] = "retain"
        /\ \A q \in Processes \ {p} : pc'[q] = pc[q] /\ pending'[q] = pending[q] /\ missed'[q] = missed[q]
    BY <1>0, <1>1 DEF Retain, Goto, files, TypeOK
  <2>2. PICK unread, retained :
          /\ missed' = [missed EXCEPT ![p] = unread]
          /\ pending' = [pending EXCEPT ![p] =
               Generations \ ({heads[k].generation : k \in {m \in Keys : Valid(m)} \ unread} \cup retained)]
    BY <1>1 DEF Retain
  <2>3. \A k \in Keys : Valid(k) => heads[k].generation \notin pending'[p] \/ k \in missed'[p]
    BY <1>0, <2>2 DEF TypeOK
  <2>4. \A k \in Keys : (Valid(k)' <=> Valid(k)) /\ (Whole(k)' <=> Whole(k))
    BY <2>1 DEF Valid, Opens, Whole
  <2> QED
    BY <2>1, <2>3, <2>4 DEF CleanupInvariant, HeadsStay
<1>2. ASSUME NEW g \in Generations, RemoveGeneration(p, g) PROVE CleanupInvariant' /\ HeadsStay
  <2>1. /\ pc[p] = "remove" /\ g \in pending[p] /\ heads' = heads /\ missed' = missed
        /\ \A q \in Processes : pc'[q] = pc[q] /\ pending'[q] \subseteq pending[q]
    BY <1>0, <1>2 DEF RemoveGeneration, Goto, PutGeneration, files, TypeOK
  <2>2. \A k \in Keys : Valid(k) => heads[k].generation # g \/ k \in missed[p]
    BY <2>1 DEF CleanupInvariant
  <2>3. CASE UNCHANGED files
    BY <2>1, <2>3, CleanupFrame DEF files
  <2>4. CASE PutGeneration(g, Absent)
    <3>1. generations' = [generations EXCEPT ![g] = Absent]
      BY <2>4 DEF PutGeneration
    <3>2. \A k \in Keys : Valid(k)' => Valid(k)
      BY <1>0, <2>1, <3>1 DEF Valid, Opens, TypeOK
    <3>3. CleanupInvariant'
      BY <2>1, <3>2 DEF CleanupInvariant
    <3>4. \A k \in Keys : Whole(k) /\ heads[k].generation # g => Whole(k)'
      BY <1>0, <2>1, <3>1 DEF Whole, Valid, Opens, TypeOK
    <3>5. \A k \in Keys : Whole(k) => Valid(k)
      BY DEF Whole
    <3> QED
      BY <2>2, <3>3, <3>4, <3>5 DEF HeadsStay
  <2> QED
    BY <1>2, <2>3, <2>4 DEF RemoveGeneration
<1>3. CASE RemoveEnd(p)
  BY <1>3, CleanupQuiet DEF RemoveEnd, Return
<1> QED
  BY <1>1, <1>2, <1>3 DEF Remove

\* Readers, failures and crashes.
LEMMA CleanupOthers ==
  ASSUME Typed, CleanupInvariant, NEW p \in Processes,
         Start(p) \/ Lock(p) \/ Read(p) \/ Scan(p) \/ Fail(p) \/ Kill(p)
  PROVE  CleanupInvariant' /\ HeadsStay
<1>0. TypeOK
  BY DEF Typed
<1>1. CASE Start(p) \/ Lock(p) \/ Kill(p)
  BY <1>1, CleanupQuiet DEF Start, Lock, Kill
<1>2. CASE Read(p) \/ Fail(p)
  BY <1>2, CleanupQuiet DEF Read, Fail, Return
<1>3. CASE Scan(p)
  <2>1. ASSUME NEW k \in Keys, ScanHead(p, k) PROVE CleanupInvariant' /\ HeadsStay
    <3>1. /\ Goto(p, "scan", "scan") /\ UNCHANGED <<files, missed>>
          /\ \A q \in Processes \ {p} : pending'[q] = pending[q]
      BY <1>0, <2>1 DEF ScanHead, TypeOK
    <3> QED
      BY <3>1, CleanupQuiet
  <2>2. ASSUME NEW k \in Keys, ScanMalformed(p, k) PROVE CleanupInvariant' /\ HeadsStay
    <3>1. UNCHANGED files
          /\ \/ Return(p, "invalid")
             \/ /\ Goto(p, "scan", "scan") /\ UNCHANGED missed
                /\ \A q \in Processes \ {p} : pending'[q] = pending[q]
      BY <1>0, <2>2 DEF ScanMalformed, TypeOK
    <3> QED
      BY <3>1, CleanupQuiet DEF Return
  <2>3. CASE ScanEnd(p)
    BY <2>3, CleanupQuiet DEF ScanEnd, Return
  <2> QED
    BY <1>3, <2>1, <2>2, <2>3 DEF Scan
<1> QED
  BY <1>1, <1>2, <1>3

\* A power loss ends every cleanup; damage makes no head valid.
LEMMA CleanupDisaster ==
  ASSUME Typed, CleanupInvariant,
         \/ PowerLoss
         \/ \E g \in Generations : DamageGeneration(g)
         \/ \E k \in Keys : DamageHead(k)
  PROVE  CleanupInvariant' /\ HeadsStay
<1>0. TypeOK
  BY DEF Typed
<1>1. CASE PowerLoss
  <2>1. \A q \in Processes : pc'[q] # "remove"
    BY <1>1 DEF PowerLoss
  <2> QED
    BY <1>1, <2>1 DEF CleanupInvariant, HeadsStay
<1>2. ASSUME NEW g \in Generations, DamageGeneration(g) PROVE CleanupInvariant' /\ HeadsStay
  <2>1. PICK f \in {Unreadable, Foreign, [generations[g] EXCEPT !.intact = FALSE]} :
          generations' = [generations EXCEPT ![g] = f]
    BY <1>2 DEF DamageGeneration
  <2>2. UNCHANGED <<heads, pc, pending, missed>> /\ damaged' # damaged /\ Opens(g)
    BY <1>0, <1>2, BoundAssumption DEF DamageGeneration, locals, TypeOK
  <2>3. generations[g] \in Readable
    BY <1>0, <2>2 DEF TypeOK, GenerationFile, Opens
  <2>4. f \in {Unreadable, Foreign} \/ f.header = generations[g].header
    BY <2>3 DEF Readable
  <2>5. \A k \in Keys : Valid(k)' => Valid(k)
    BY <1>0, <2>1, <2>2, <2>4 DEF Valid, Opens, TypeOK
  <2> QED
    BY <2>2, <2>5 DEF CleanupInvariant, HeadsStay
<1>3. ASSUME NEW k \in Keys, DamageHead(k) PROVE CleanupInvariant' /\ HeadsStay
  <2>1. UNCHANGED <<generations, pc, pending, missed>> /\ damaged' # damaged
        /\ heads' = [heads EXCEPT ![k] = Malformed]
    BY <1>0, <1>3, BoundAssumption DEF DamageHead, locals, TypeOK
  <2>2. \A m \in Keys : Valid(m)' => Valid(m) /\ heads'[m] = heads[m]
    BY <1>0, <2>1 DEF Valid, Opens, TypeOK
  <2> QED
    BY <2>1, <2>2 DEF CleanupInvariant, HeadsStay
<1> QED
  BY <1>1, <1>2, <1>3

\* No publication takes an intact generation from a head that stays, and no cleanup does
\* but from heads it could not read: with any kills, I/O errors, power losses and damage,
\* to histories too, that a publication then repairs.
THEOREM ValidStaysValid == Spec => ValidHeadsStayValid
<1>1. Init => CleanupInvariant
  BY DEF Init, CleanupInvariant
<1>2. Typed /\ LockHeld /\ CleanupInvariant /\ [Next]_vars => CleanupInvariant' /\ HeadsStay
  <2> SUFFICES ASSUME Typed, LockHeld, CleanupInvariant, [Next]_vars PROVE CleanupInvariant' /\ HeadsStay
    OBVIOUS
  <2>1. ASSUME NEW p \in Processes, Step(p) \/ Fail(p) \/ Kill(p) PROVE CleanupInvariant' /\ HeadsStay
    BY <2>1, CleanupPublish, CleanupRemove, CleanupOthers DEF Step
  <2>2. CASE UNCHANGED vars
    BY <2>2, CleanupFrame DEF vars, files, locals
  <2> QED
    BY <2>1, <2>2, CleanupDisaster DEF Next
<1> QED
  BY <1>1, <1>2, TypedIsInvariant, LockIsHeld, PTL DEF Spec, ValidHeadsStayValid, HeadsStay

(***************************************************************************)
(* Readers: the store implements the register                              *)
(***************************************************************************)

\* A set of numbers up to n has a greatest member.
LEMMA BoundedHasGreatest ==
  ASSUME NEW n \in Nat, NEW S \in SUBSET (0 .. n), S # {}
  PROVE  \E m \in S : \A s \in S : s <= m
<1> DEFINE T == {n - s : s \in S}
<1>1. T \subseteq Nat /\ T # {}
  <2>1. \A s \in S : n - s \in Nat
    OBVIOUS
  <2>2. PICK s \in S : TRUE
    OBVIOUS
  <2>3. n - s \in T
    BY <2>2
  <2> QED
    BY <2>1, <2>3
<1> HIDE DEF T
<1> DEFINE R == OpToRel(<, Nat)
<1>2. IsWellFoundedOn(R, Nat)
  BY NatLessThanWellFounded
<1> HIDE DEF R
<1>3. \E x \in T : \A y \in T : ~(<<y, x>> \in R)
  BY <1>1, <1>2, WFMin
<1>4. PICK x \in T : \A y \in T : ~(<<y, x>> \in R)
  BY <1>3
<1>5. \A y \in T : ~(y < x)
  BY <1>1, <1>4 DEF OpToRel, R
<1>6. PICK m \in S : x = n - m
  BY DEF T
<1>7. \A s \in S : n - s \in T
  BY DEF T
<1> QED
  BY <1>1, <1>5, <1>6, <1>7

\* What is selected, said of the heads alone.
Candidate(k, e) == Present(k) /\ InScope(k, e)

Newest(k, e) ==
  Candidate(k, e) /\ \A m \in Keys : Candidate(m, e) => heads[m].sequence <= heads[k].sequence

\* The selection in every scope is its one newest head.
SelectionIs ==
  /\ \A k \in Keys : Present(k) => heads[k] \in Head
  /\ \A e \in Scopes :
       /\ \A k \in Keys : Newest(k, e) => SelectedView(e) = ViewOf(k)
       /\ \A k \in Selected(e) : Newest(k, e)
       /\ (\E k \in Keys : Candidate(k, e)) => \E k \in Keys : Newest(k, e)
       /\ (\A k \in Keys : ~Candidate(k, e)) => SelectedView(e) = Absent
       /\ \A k, m \in Keys :
            Newest(k, e) /\ Candidate(m, e) => m = k \/ heads[m].sequence < heads[k].sequence

\* While nothing is damaged, every head is valid, and sequences tell heads apart.
LEMMA SelectionKnown == Typed /\ damaged = 0 /\ CrashInvariant => SelectionIs
<1> SUFFICES ASSUME Typed, damaged = 0, CrashInvariant PROVE SelectionIs
  OBVIOUS
<1>1. \A k \in Keys : (Present(k) <=> Valid(k)) /\ (Present(k) => heads[k] \in Head)
  BY Undamaged DEF CrashInvariant, Valid, Present
<1>2. \A k, m \in Keys : Present(k) /\ Present(m) /\ k # m => heads[k].sequence # heads[m].sequence
  BY DEF CrashInvariant, ImagesSound, SequencesAreDistinct, Present
<1>3. \A k \in Keys : Present(k) => heads[k].sequence \in 1 .. MaxSequence
  BY <1>1 DEF Head
<1>4. ASSUME NEW e \in Scopes
      PROVE  /\ \A k \in Keys : Newest(k, e) => SelectedView(e) = ViewOf(k)
             /\ \A k \in Selected(e) : Newest(k, e)
             /\ (\E k \in Keys : Candidate(k, e)) => \E k \in Keys : Newest(k, e)
             /\ (\A k \in Keys : ~Candidate(k, e)) => SelectedView(e) = Absent
             /\ \A k, m \in Keys :
                  Newest(k, e) /\ Candidate(m, e) => m = k \/ heads[m].sequence < heads[k].sequence
  <2>1. \A k \in Keys : k \in Selected(e) <=> Newest(k, e)
    BY <1>1 DEF Selected, Newest, Candidate
  <2>2. \A k \in Selected(e) : k \in Keys
    BY DEF Selected
  <2>3. \A k, m \in Keys :
          Newest(k, e) /\ Candidate(m, e) => m = k \/ heads[m].sequence < heads[k].sequence
    BY <1>2, <1>3, BoundAssumption DEF Newest, Candidate
  <2>4. \A k, m \in Keys : Newest(k, e) /\ Newest(m, e) => m = k
    <3> SUFFICES ASSUME NEW k \in Keys, NEW m \in Keys, Newest(k, e), Newest(m, e), m # k PROVE FALSE
      OBVIOUS
    <3>1. heads[m].sequence < heads[k].sequence /\ heads[k].sequence <= heads[m].sequence
      BY <2>3 DEF Newest
    <3>2. heads[m].sequence \in Nat /\ heads[k].sequence \in Nat
      BY <1>3 DEF Newest, Candidate
    <3> QED
      BY <3>1, <3>2
  <2>5. ASSUME NEW k \in Keys, Newest(k, e) PROVE SelectedView(e) = ViewOf(k)
    <3>1. k \in Selected(e)
      BY <2>1, <2>5
    <3>2. (CHOOSE m \in Selected(e) : TRUE) \in Selected(e)
      BY <3>1
    <3>3. (CHOOSE m \in Selected(e) : TRUE) = k
      BY <2>1, <2>2, <2>4, <2>5, <3>2
    <3> QED
      BY <3>1, <3>3 DEF SelectedView
  <2>6. ASSUME NEW c \in Keys, Candidate(c, e) PROVE \E k \in Keys : Newest(k, e)
    <3> DEFINE S == {heads[k].sequence : k \in {m \in Keys : Candidate(m, e)}}
    <3>1. S \in SUBSET (0 .. MaxSequence) /\ S # {}
      <4>1. heads[c].sequence \in S
        BY <2>6
      <4>2. \A k \in Keys : Candidate(k, e) => heads[k].sequence \in 0 .. MaxSequence
        BY <1>3, BoundAssumption DEF Candidate
      <4> QED
        BY <4>1, <4>2
    <3>2. PICK n \in S : \A s \in S : s <= n
      <4> HIDE DEF S
      <4> QED
        BY <3>1, BoundAssumption, BoundedHasGreatest
    <3>3. PICK k \in Keys : Candidate(k, e) /\ n = heads[k].sequence
      OBVIOUS
    <3>4. \A m \in Keys : Candidate(m, e) => heads[m].sequence \in S
      OBVIOUS
    <3> QED
      BY <3>2, <3>3, <3>4 DEF Newest
  <2>7. ASSUME \A k \in Keys : ~Candidate(k, e) PROVE SelectedView(e) = Absent
    <3>1. Selected(e) = {}
      BY <2>1, <2>2, <2>7 DEF Newest
    <3> QED
      BY <3>1 DEF SelectedView
  <2> QED
    BY <2>1, <2>2, <2>3, <2>5, <2>6, <2>7
<1> QED
  BY <1>1, <1>4 DEF SelectionIs

\* The same after a step.
LEMMA SelectionKnownNext == Typed' /\ damaged' = 0 /\ CrashInvariant' => SelectionIs'
<1>1. (Typed /\ damaged = 0 /\ CrashInvariant => SelectionIs)'
  BY SelectionKnown, PTL
<1> QED
  BY <1>1

\* The selection depends on the heads only.
LEMMA SelectionKept ==
  ASSUME heads' = heads, SelectionIs, SelectionIs'
  PROVE  Selection' = Selection /\ \A e \in Scopes : SelectedView(e)' = SelectedView(e)
<1>1. \A k \in Keys : \A e \in Scopes :
        /\ Candidate(k, e)' <=> Candidate(k, e)
        /\ Newest(k, e)' <=> Newest(k, e)
        /\ ViewOf(k)' = ViewOf(k)
  BY DEF Candidate, Newest, Present, ViewOf
<1>2. ASSUME NEW e \in Scopes PROVE SelectedView(e)' = SelectedView(e)
  <2>1. CASE \A k \in Keys : ~Candidate(k, e)
    BY <1>1, <2>1 DEF SelectionIs
  <2>2. CASE \E k \in Keys : Candidate(k, e)
    <3>1. PICK k \in Keys : Newest(k, e)
      BY <2>2 DEF SelectionIs
    <3>2. SelectedView(e) = ViewOf(k) /\ SelectedView(e)' = ViewOf(k)'
      BY <1>1, <3>1 DEF SelectionIs
    <3> QED
      BY <1>1, <3>2
  <2> QED
    BY <2>1, <2>2
<1> QED
  BY <1>2 DEF Selection

\* Processes that do not move know what they knew while the heads stay.
LEMMA ReadersKept ==
  ASSUME RegisterInvariant, heads' = heads, job' = job, NEW q \in Processes, job[q].endpoint \in Scopes,
         \A e \in Scopes : SelectedView(e)' = SelectedView(e),
         pc'[q] = pc[q], result'[q] = result[q], seen'[q] = seen[q], best'[q] = best[q],
         pending'[q] = pending[q]
  PROVE  CallKnown(q)' /\ ScanKnown(q)'
<1>1. CallKnown(q)'
  BY DEF RegisterInvariant, CallKnown, IsReader
<1>2. ScanKnown(q)'
  BY DEF RegisterInvariant, ScanKnown, HeadsSeen, Present, ViewOf, Later
<1> QED
  BY <1>1, <1>2

\* The callers' side of a step of one process.
LEMMA RepliesOfOne ==
  ASSUME Typed, NEW p \in Processes, job' = job,
         \A q \in Processes \ {p} : result'[q] = result[q] /\ view'[q] = view[q]
  PROVE  /\ ScopeOf' = ScopeOf
         /\ Replies' = [Replies EXCEPT ![p] = Reply(p)']
<1>1. \A q \in Processes \ {p} : Reply(q)' = Reply(q)
  BY DEF Reply, IsReader
<1> QED
  BY <1>1 DEF Replies, ScopeOf

\* The scope of a job.
LEMMA ScopeTypes ==
  ASSUME Typed, NEW p \in Processes
  PROVE  job[p].endpoint \in Scopes /\ ScopeOf[p] = job[p].endpoint
BY JobTypes DEF Typed, Scopes, ScopeOf

\* Steps that neither begin nor end a call and leave the heads alone.
LEMMA StepUnseen ==
  ASSUME Typed, RegisterInvariant, SelectionIs, SelectionIs', NEW p \in Processes,
         UNCHANGED <<heads, job, result, view, seen>>,
         \A q \in Processes \ {p} : pc'[q] = pc[q] /\ best'[q] = best[q] /\ pending'[q] = pending[q],
         CallKnown(p)', ScanKnown(p)'
  PROVE  RegisterInvariant' /\ [Register!Next]_Register!vars
<1>1. Selection' = Selection /\ \A e \in Scopes : SelectedView(e)' = SelectedView(e)
  BY SelectionKept
<1>2. \A q \in Processes \ {p} : CallKnown(q)' /\ ScanKnown(q)'
  BY <1>1, ReadersKept, ScopeTypes
<1>3. ScopeOf' = ScopeOf /\ Replies' = Replies
  BY DEF ScopeOf, Replies, Reply, IsReader
<1> QED
  BY <1>1, <1>2, <1>3 DEF RegisterInvariant, Register!vars

\* A call ends: the register answers it with what it has seen, or fails it.
LEMMA CallEnds ==
  ASSUME Typed, RegisterInvariant, SelectionIs, SelectionIs', NEW p \in Processes,
         NEW outcome \in Results \ {"none"}, pc[p] # "done", UNCHANGED <<heads, job>>,
         pc' = [pc EXCEPT ![p] = "done"], result' = [result EXCEPT ![p] = outcome],
         DropLocals({p}), \A q \in Processes \ {p} : view'[q] = view[q],
         IsReader(p) => /\ outcome = "found" => view'[p] \in seen[p]
                        /\ outcome = "missing" => Absent \in seen[p]
  PROVE  RegisterInvariant' /\ [Register!Next]_Register!vars
<1>0. TypeOK
  BY DEF Typed
<1>1. Selection' = Selection /\ \A e \in Scopes : SelectedView(e)' = SelectedView(e)
  BY SelectionKept
<1>2. /\ pc'[p] = "done" /\ result'[p] = outcome
      /\ seen' = [seen EXCEPT ![p] = {}]
      /\ \A q \in Processes \ {p} :
           /\ pc'[q] = pc[q] /\ result'[q] = result[q] /\ seen'[q] = seen[q]
           /\ best'[q] = best[q] /\ pending'[q] = pending[q]
  BY <1>0 DEF DropLocals, TypeOK
<1>3. \A q \in Processes \ {p} : CallKnown(q)' /\ ScanKnown(q)'
  BY <1>1, <1>2, ReadersKept, ScopeTypes
<1>4. CallKnown(p)' /\ ScanKnown(p)'
  BY <1>0, <1>2 DEF CallKnown, ScanKnown, TypeOK
<1>5. RegisterInvariant'
  BY <1>3, <1>4 DEF RegisterInvariant
<1>6. ScopeOf' = ScopeOf /\ Replies' = [Replies EXCEPT ![p] = Reply(p)']
  BY <1>2, RepliesOfOne
<1>7. result[p] = "none" /\ Replies[p] = <<"pending">>
  BY DEF RegisterInvariant, CallKnown, Replies, Reply
<1>8. CASE ~IsReader(p)
  <2>1. seen[p] = {}
    BY <1>8 DEF RegisterInvariant, CallKnown
  <2>2. ~IsReader(p)'
    BY <1>8 DEF IsReader
  <2>3. Reply(p)' = <<"pending">>
    BY <2>2 DEF Reply
  <2>4. seen' = seen
    BY <1>0, <1>2, <2>1 DEF TypeOK
  <2>5. Replies' = Replies
    BY <1>6, <1>7, <2>3 DEF Replies
  <2> QED
    BY <1>1, <1>5, <1>6, <2>4, <2>5 DEF Register!vars
<1>9. CASE IsReader(p) /\ outcome \in {"found", "missing"}
  <2> DEFINE a == IF outcome = "found" THEN view'[p] ELSE Absent
  <2>1. a \in seen[p] /\ Reply(p)' = a
    BY <1>2, <1>9 DEF Reply, IsReader
  <2>2. Register!Return(p, a)
    BY <1>1, <1>2, <1>6, <1>7, <2>1 DEF Register!Return
  <2>3. Register!Answer(p)
    BY <2>1, <2>2 DEF Register!Answer
  <2> QED
    BY <1>5, <2>3 DEF Register!Next
<1>10. CASE IsReader(p) /\ outcome \notin {"found", "missing"}
  <2>1. Reply(p)' = <<"failed">>
    BY <1>2, <1>10 DEF Reply, IsReader
  <2>2. Register!Fail(p)
    BY <1>1, <1>2, <1>6, <1>7, <2>1 DEF Register!Fail, Register!Return
  <2> QED
    BY <1>5, <2>2 DEF Register!Next
<1> QED
  BY <1>8, <1>9, <1>10

\* read_view and the unlocked observation begin: the register is called.
LEMMA CallBegins ==
  ASSUME Typed, RegisterInvariant, SelectionIs, SelectionIs', NEW p \in Processes, Start(p)
  PROVE  RegisterInvariant' /\ [Register!Next]_Register!vars
<1> DEFINE e == job[p].endpoint
<1>0. TypeOK /\ e \in Scopes
  BY ScopeTypes DEF Typed
<1>1. /\ UNCHANGED <<heads, job, result, view, best>> /\ pc[p] = "idle"
      /\ pc' = [pc EXCEPT ![p] = IF job[p].op = "probe" THEN "scan" ELSE "lock"]
      /\ \A q \in Processes \ {p} : pc'[q] = pc[q] /\ pending'[q] = pending[q]
      /\ pc'[p] = IF job[p].op = "probe" THEN "scan" ELSE "lock"
      /\ pending'[p] = IF job[p].op = "probe" THEN {k \in Keys : Present(k)} ELSE {}
  BY <1>0 DEF Start, files, TypeOK
<1>2. seen[p] = {} /\ best[p] = Absent /\ result[p] = "none"
  BY <1>1 DEF RegisterInvariant, CallKnown
<1>3. Selection' = Selection /\ \A s \in Scopes : SelectedView(s)' = SelectedView(s)
  BY <1>1, SelectionKept
<1>4. CASE ~IsReader(p)
  <2>1. seen' = seen
    BY <1>4 DEF Start, IsReader
  <2>2. CallKnown(p)' /\ ScanKnown(p)'
    BY <1>1, <1>2, <1>4, <2>1 DEF CallKnown, ScanKnown, IsReader
  <2> QED
    BY <1>1, <2>1, <2>2, StepUnseen
<1>5. CASE IsReader(p)
  <2>1. seen' = [seen EXCEPT ![p] = {SelectedView(e)}]
    BY <1>5 DEF Start, IsReader
  <2>2. seen'[p] = {SelectedView(e)} /\ \A q \in Processes \ {p} : seen'[q] = seen[q]
    BY <1>0, <2>1 DEF TypeOK
  <2>3. \A q \in Processes \ {p} : CallKnown(q)' /\ ScanKnown(q)'
    BY <1>1, <1>3, <2>2, ReadersKept, ScopeTypes
  <2>4. CallKnown(p)'
    BY <1>0, <1>1, <1>2, <1>3, <1>5, <2>2 DEF CallKnown, IsReader
  <2>5. ScanKnown(p)'
    <3> SUFFICES ASSUME pc'[p] = "scan" PROVE ScanKnown(p)'
      BY DEF ScanKnown
    <3>1. pending'[p] = {k \in Keys : Present(k)}
      BY <1>1
    <3>2. CASE \A k \in Keys : ~Candidate(k, e)
      <4>1. SelectedView(e) = Absent /\ best'[p] \in seen'[p]
        BY <1>0, <1>1, <1>2, <2>2, <3>2 DEF SelectionIs
      <4> QED
        BY <1>1, <3>2, <4>1 DEF ScanKnown, HeadsSeen, Candidate, Present
    <3>3. CASE \E k \in Keys : Candidate(k, e)
      <4>1. PICK k \in Keys : Newest(k, e)
        BY <1>0, <3>3 DEF SelectionIs
      <4>2. seen'[p] = {ViewOf(k)} /\ k \in pending'[p] /\ InScope(k, e) /\ Present(k)
        BY <1>0, <2>2, <3>1, <4>1 DEF SelectionIs, Newest, Candidate
      <4>3. \A m \in Keys : Candidate(m, e) => m = k \/ heads[m].sequence < heads[k].sequence
        BY <1>0, <4>1 DEF SelectionIs
      <4>4. ViewOf(k) # Absent /\ ViewOf(k)[2] = heads[k]
        <5>1. heads[k] \in Head /\ k.endpoint \in Endpoints
          BY <4>2 DEF SelectionIs, Keys
        <5> QED
          BY <5>1, MarkAssumption DEF ViewOf
      <4>5. HeadsSeen(p)'
        BY <1>1, <4>2, <4>3, <4>4 DEF HeadsSeen, Candidate, Present, ViewOf
      <4>6. InScope(k, job'[p].endpoint) /\ ViewOf(k)' \in seen'[p] /\ Later(ViewOf(k), best[p])'
        BY <1>1, <1>2, <4>2 DEF ViewOf, Later
      <4> QED
        BY <4>2, <4>5, <4>6 DEF ScanKnown
    <3> QED
      BY <3>2, <3>3
  <2>6. RegisterInvariant'
    BY <2>3, <2>4, <2>5 DEF RegisterInvariant
  <2>7. ScopeOf' = ScopeOf /\ Replies' = Replies
    BY <1>1 DEF ScopeOf, Replies, Reply, IsReader
  <2>8. Replies[p] = <<"pending">> /\ Selection[ScopeOf[p]] = SelectedView(e)
    BY <1>0, <1>2 DEF Replies, Reply, Selection, ScopeOf
  <2>9. Register!Call(p)
    BY <1>2, <1>3, <2>1, <2>7, <2>8 DEF Register!Call
  <2> QED
    BY <2>6, <2>9 DEF Register!Next
<1> QED
  BY <1>4, <1>5

\* Going on with a call other than a scan.
LEMMA GotoUnseen ==
  ASSUME Typed, RegisterInvariant, SelectionIs, SelectionIs', NEW p \in Processes, NEW from,
         NEW to \in Steps \ {"idle", "lock", "read", "scan", "done"}, Goto(p, from, to),
         from # "done", UNCHANGED <<heads, seen, best>>,
         \A q \in Processes \ {p} : pending'[q] = pending[q]
  PROVE  RegisterInvariant' /\ [Register!Next]_Register!vars
<1>0. TypeOK
  BY DEF Typed
<1>1. /\ UNCHANGED <<job, result, view>> /\ pc[p] = from /\ pc'[p] = to
      /\ \A q \in Processes \ {p} : pc'[q] = pc[q]
  BY <1>0 DEF Goto, TypeOK
<1>2. CallKnown(p)' /\ ScanKnown(p)'
  BY <1>1 DEF RegisterInvariant, CallKnown, ScanKnown, IsReader
<1> QED
  BY <1>1, <1>2, StepUnseen

\* Finish as the end of a call.
LEMMA FinishEnds ==
  ASSUME Typed, RegisterInvariant, SelectionIs, SelectionIs', NEW p \in Processes,
         NEW outcome \in Results \ {"none"}, NEW answer, Finish(p, outcome, answer), heads' = heads,
         pc[p] # "done",
         IsReader(p) => /\ outcome = "found" => answer \in seen[p]
                        /\ outcome = "missing" => Absent \in seen[p]
  PROVE  RegisterInvariant' /\ [Register!Next]_Register!vars
<1>1. /\ UNCHANGED job /\ pc' = [pc EXCEPT ![p] = "done"] /\ result' = [result EXCEPT ![p] = outcome]
      /\ DropLocals({p}) /\ view'[p] = answer /\ \A q \in Processes \ {p} : view'[q] = view[q]
  BY DEF Finish, Typed, TypeOK
<1> QED
  BY <1>1, CallEnds

\* Every step of a publication but the rename of the head.
LEMMA PublicationUnseen ==
  ASSUME Typed, RegisterInvariant, SelectionIs, SelectionIs', NEW p \in Processes, PublishSteps(p),
         ~PublishHead(p)
  PROVE  RegisterInvariant' /\ [Register!Next]_Register!vars
<1> USE StepNames
<1>0. pc[p] \in PublicationSteps => ~IsReader(p)
  BY DEF Typed, LocalsKnown, IsReader
<1>1. CASE Stage(p)
  BY <1>1, GotoUnseen DEF Stage, files
<1>2. CASE Install(p)
  <2>1. CASE Reuse(p, job[p].generation)
    BY <2>1, GotoUnseen DEF Reuse, files
  <2>2. CASE Replace(p, job[p].generation)
    BY <2>2, GotoUnseen DEF Replace, PutGeneration
  <2>3. CASE Collide(p, job[p].generation)
    BY <1>0, <2>3, FinishEnds DEF Collide, Return, files, PublicationSteps, InstallSteps
  <2> QED
    BY <1>2, <2>1, <2>2, <2>3 DEF Install
<1>3. CASE SyncFile(p)
  BY <1>3, GotoUnseen DEF SyncFile, files, locals
<1>4. CASE SyncGenerations(p)
  BY <1>4, GotoUnseen DEF SyncGenerations, locals
<1>5. CASE Previous(p)
  BY <1>0, <1>5, GotoUnseen, FinishEnds DEF Previous, Return, files, PublicationSteps, BindSteps
<1>6. CASE SyncViews(p)
  BY <1>6, GotoUnseen DEF SyncViews, locals
<1>7. CASE Pin(p)
  BY <1>0, <1>7, FinishEnds DEF Pin, Return, files, PublicationSteps, BindSteps
<1> QED
  BY <1>1, <1>2, <1>3, <1>4, <1>5, <1>6, <1>7 DEF PublishSteps

\* One more head of an unlocked observation.
LEMMA ScanGoesOn ==
  ASSUME Typed, RegisterInvariant, SelectionIs, SelectionIs', NEW p \in Processes, NEW k \in Keys,
         ScanHead(p, k)
  PROVE  RegisterInvariant' /\ [Register!Next]_Register!vars
<1> DEFINE e == job[p].endpoint
<1>0. TypeOK /\ pc[p] = "scan" /\ ScanKnown(p) /\ Present(k) /\ k \in pending[p]
  BY DEF Typed, RegisterInvariant, ScanHead, Goto, LocalsKnown
<1>1. /\ UNCHANGED <<heads, job, result, view, seen>> /\ pc'[p] = "scan"
      /\ \A q \in Processes \ {p} : pc'[q] = pc[q] /\ best'[q] = best[q] /\ pending'[q] = pending[q]
      /\ pending'[p] = pending[p] \ {k}
      /\ best'[p] = IF InScope(k, e) /\ Later(ViewOf(k), best[p]) THEN ViewOf(k) ELSE best[p]
  BY <1>0 DEF ScanHead, Goto, files, TypeOK
<1>2. CallKnown(p)'
  BY <1>0, <1>1 DEF RegisterInvariant, CallKnown, IsReader
<1>3. HeadsSeen(p)'
  BY <1>0, <1>1 DEF ScanKnown, HeadsSeen, Present, ViewOf
<1>4. heads[k] \in Head /\ ViewOf(k)[2] = heads[k] /\ heads[k].sequence \in Nat
  BY <1>0 DEF SelectionIs, ViewOf, Head
<1>5. ASSUME best[p] \in seen[p] PROVE ScanKnown(p)'
  <2>1. best'[p] \in seen[p]
    <3>1. CASE ~(InScope(k, e) /\ Later(ViewOf(k), best[p]))
      BY <1>1, <1>5, <3>1
    <3>2. CASE InScope(k, e) /\ Later(ViewOf(k), best[p])
      <4>1. best'[p] = ViewOf(k)
        BY <1>1, <3>2
      <4>2. ViewOf(k) \in seen[p] \/ (\A v \in seen[p] : v # Absent /\ heads[k].sequence < v[2].sequence)
        BY <1>0, <3>2 DEF ScanKnown, HeadsSeen
      <4>3. CASE \A v \in seen[p] : v # Absent /\ heads[k].sequence < v[2].sequence
        <5>1. best[p] # Absent /\ heads[k].sequence < best[p][2].sequence
          BY <1>5, <4>3
        <5>2. best[p] \in Endpoints \X Head
          BY <1>0, <5>1 DEF TypeOK
        <5>3. best[p][2].sequence \in Nat
          BY <5>2 DEF Head
        <5>4. heads[k].sequence > best[p][2].sequence
          BY <1>4, <3>2, <5>1 DEF Later
        <5> QED
          BY <1>4, <5>1, <5>3, <5>4
      <4> QED
        BY <4>1, <4>2, <4>3
    <3> QED
      BY <3>1, <3>2
  <2> QED
    BY <1>1, <1>3, <2>1 DEF ScanKnown
<1>6. ASSUME \E m \in pending[p] : InScope(m, e) /\ ViewOf(m) \in seen[p] /\ Later(ViewOf(m), best[p])
      PROVE  ScanKnown(p)'
  <2>1. PICK m \in pending[p] : InScope(m, e) /\ ViewOf(m) \in seen[p] /\ Later(ViewOf(m), best[p])
    BY <1>6
  <2>2. m \in Keys /\ Present(m)
    BY <1>0 DEF Typed, LocalsKnown
  <2>3. ViewOf(m)' = ViewOf(m) /\ ViewOf(m)[2] = heads[m] /\ heads[m].sequence \in Nat
    <3>1. heads[m] \in Head
      BY <2>2 DEF SelectionIs
    <3> QED
      BY <1>1, <3>1 DEF ViewOf, Head
  <2>4. CASE m = k
    BY <1>1, <1>3, <2>1, <2>4 DEF ScanKnown
  <2>5. CASE m # k /\ best'[p] = best[p]
    <3>1. m \in pending'[p] /\ InScope(m, job'[p].endpoint) /\ ViewOf(m)' \in seen'[p]
          /\ Later(ViewOf(m), best[p])'
      BY <1>1, <2>1, <2>3, <2>5 DEF Later
    <3> QED
      BY <1>3, <3>1 DEF ScanKnown
  <2>6. CASE m # k /\ best'[p] = ViewOf(k) /\ InScope(k, e)
    <3>1. CASE ViewOf(k) \in seen[p]
      BY <1>1, <1>3, <2>6, <3>1 DEF ScanKnown
    <3>2. CASE ViewOf(k) \notin seen[p]
      <4>1. heads[k].sequence < ViewOf(m)[2].sequence
        BY <1>0, <2>1, <2>6, <3>2 DEF ScanKnown, HeadsSeen
      <4>2. Later(ViewOf(m)', ViewOf(k))
        BY <1>4, <2>3, <4>1 DEF Later
      <4>3. m \in pending'[p] /\ InScope(m, job'[p].endpoint) /\ ViewOf(m)' \in seen'[p]
            /\ Later(ViewOf(m), best[p])'
        BY <1>1, <2>1, <2>3, <2>6, <4>2 DEF Later
      <4> QED
        BY <1>3, <4>3 DEF ScanKnown
    <3> QED
      BY <3>1, <3>2
  <2> QED
    BY <1>1, <2>4, <2>5, <2>6
<1>7. ScanKnown(p)'
  BY <1>0, <1>5, <1>6 DEF ScanKnown
<1> QED
  BY <1>1, <1>2, <1>7, StepUnseen

\* Readers under the lock, and the unlocked observation.
LEMMA ReadersSimulated ==
  ASSUME Typed, RegisterInvariant, SelectionIs, SelectionIs', NEW p \in Processes,
         Lock(p) \/ Read(p) \/ Scan(p) \/ Retain(p) \/ Remove(p)
  PROVE  RegisterInvariant' /\ [Register!Next]_Register!vars
<1> USE StepNames
<1>0. TypeOK /\ CallKnown(p) /\ ScanKnown(p) /\ LocalsKnown(p) /\ job[p].endpoint \in Scopes
  BY ScopeTypes DEF Typed, RegisterInvariant
<1>1. CASE Lock(p)
  <2>1. /\ UNCHANGED <<heads, job, result, view, seen, best, pending>> /\ pc[p] = "lock"
        /\ pc'[p] = FirstStep(p) /\ \A q \in Processes \ {p} : pc'[q] = pc[q]
    BY <1>0, <1>1 DEF Lock, files, locals, TypeOK
  <2>2. /\ FirstStep(p) \in {"stage", "read", "retain"}
        /\ FirstStep(p) = "read" => IsReader(p)
    BY <1>0, JobTypes DEF FirstStep, IsReader
  <2>3. SelectedView(job[p].endpoint)' = SelectedView(job[p].endpoint)
    BY <1>0, <2>1, SelectionKept
  <2>4. CallKnown(p)' /\ ScanKnown(p)'
    BY <1>0, <2>1, <2>2, <2>3 DEF CallKnown, ScanKnown, IsReader
  <2> QED
    BY <2>1, <2>4, StepUnseen
<1>2. CASE Read(p)
  <2>0. SelectedView(job[p].endpoint) \in seen[p] /\ UNCHANGED heads /\ pc[p] = "read"
    BY <1>0, <1>2 DEF Read, CallKnown, files
  <2>1. ASSUME NEW k \in Selected(job[p].endpoint), Finish(p, "found", ViewOf(k))
        PROVE  RegisterInvariant' /\ [Register!Next]_Register!vars
    <3>1. ViewOf(k) \in seen[p]
      BY <1>0, <2>0 DEF SelectionIs, Selected
    <3> QED
      BY <2>0, <2>1, <3>1, FinishEnds
  <2>2. ASSUME Selected(job[p].endpoint) = {}, Return(p, "missing")
        PROVE  RegisterInvariant' /\ [Register!Next]_Register!vars
    <3>1. Absent \in seen[p]
      BY <2>0, <2>2 DEF SelectedView
    <3> QED
      BY <2>0, <2>2, <3>1, FinishEnds DEF Return
  <2>3. ASSUME Return(p, "invalid")
        PROVE  RegisterInvariant' /\ [Register!Next]_Register!vars
    BY <2>0, <2>3, FinishEnds DEF Return
  <2> QED
    BY <1>2, <2>1, <2>2, <2>3 DEF Read
<1>3. CASE Scan(p)
  <2>1. ASSUME NEW k \in Keys, ScanMalformed(p, k) PROVE FALSE
    BY <1>0, <2>1, MarkAssumption DEF ScanMalformed, Goto, Return, LocalsKnown, SelectionIs
  <2>2. CASE ScanEnd(p)
    <3>1. pc[p] = "scan" /\ pending[p] = {} /\ UNCHANGED heads /\ best[p] \in seen[p]
      BY <1>0, <2>2 DEF ScanEnd, ScanKnown, files
    <3> QED
      BY <2>2, <3>1, FinishEnds DEF ScanEnd, Return
  <2> QED
    BY <1>3, <2>1, <2>2, ScanGoesOn DEF Scan
<1>4. CASE Retain(p)
  <2>1. \A q \in Processes \ {p} : pending'[q] = pending[q]
    BY <1>0, <1>4 DEF Retain, TypeOK
  <2> QED
    BY <1>4, <2>1, GotoUnseen DEF Retain, files
<1>5. CASE Remove(p)
  <2>1. ASSUME NEW g \in Generations, RemoveGeneration(p, g)
        PROVE  RegisterInvariant' /\ [Register!Next]_Register!vars
    <3>1. UNCHANGED heads /\ \A q \in Processes \ {p} : pending'[q] = pending[q]
      BY <1>0, <2>1 DEF RemoveGeneration, PutGeneration, files, TypeOK
    <3> QED
      BY <2>1, <3>1, GotoUnseen DEF RemoveGeneration
  <2>2. CASE RemoveEnd(p)
    <3>1. ~IsReader(p) /\ pc[p] = "remove"
      BY <1>0, <2>2 DEF LocalsKnown, IsReader, RemoveEnd
    <3> QED
      BY <2>2, <3>1, FinishEnds DEF RemoveEnd, Return, files
  <2> QED
    BY <1>5, <2>1, <2>2 DEF Remove
<1> QED
  BY <1>1, <1>2, <1>3, <1>4, <1>5

\* The rename of a head publishes its view in all its scopes.
LEMMA HeadPublishes ==
  ASSUME Typed, damaged = 0, CrashInvariant, RegisterInvariant, SelectionIs, SelectionIs',
         NEW p \in Processes, PublishHead(p)
  PROVE  RegisterInvariant' /\ [Register!Next]_Register!vars
<1>0. TypeOK /\ LocalsKnown(p) /\ pc[p] = "publishHead"
  BY DEF Typed, PublishHead, Goto
<1>a. /\ Key(p) \in Keys /\ Key(p).endpoint \in Endpoints /\ sequence[p] \in Nat /\ ~IsReader(p)
      /\ [generation |-> job[p].generation, header |-> header[p], sequence |-> sequence[p]] \in Head
  <2>1. job[p].op = "publish" /\ header[p] \in Stamps /\ sequence[p] \in 1 .. MaxSequence
    BY <1>0 DEF LocalsKnown, PublicationSteps, BindSteps
  <2>2. Key(p) \in Keys /\ job[p].generation \in Generations
    BY <1>0, <2>1, JobTypes
  <2> QED
    BY <2>1, <2>2 DEF Head, Keys, IsReader
<1>b. PICK k \in Keys, h \in Head, n \in Nat :
        /\ k = Key(p) /\ n = sequence[p]
        /\ h = [generation |-> job[p].generation, header |-> header[p], sequence |-> n]
  BY <1>a
<1> DEFINE v == <<k.endpoint, h>>
<1>1. /\ heads' = [heads EXCEPT ![k] = h] /\ UNCHANGED <<job, result, view, best, pending>>
      /\ pc'[p] = "syncViews" /\ \A q \in Processes \ {p} : pc'[q] = pc[q]
      /\ seen' = [q \in Processes |-> IF seen[q] # {} /\ InScope(k, job[q].endpoint)
                                      THEN seen[q] \cup {v} ELSE seen[q]]
  BY <1>0, <1>b DEF PublishHead, Goto, locals, TypeOK
<1>2. k.endpoint \in Endpoints /\ ~IsReader(p) /\ h.sequence = n
  BY <1>a, <1>b
<1>3. v # Absent /\ v \in Endpoints \X Head
  BY <1>2, MarkAssumption
<1>4. \A m \in Keys : Present(m) => heads[m].sequence < n /\ heads[m].sequence \in Nat
  <2> SUFFICES ASSUME NEW m \in Keys, Present(m)
               PROVE  heads[m].sequence < n /\ heads[m].sequence \in Nat
    OBVIOUS
  <2>1. heads[m] \in headImages[m] \ {Absent} /\ heads[m] \in Head
    BY DEF CrashInvariant, ImagesSound, Present, SelectionIs
  <2> QED
    BY <1>0, <1>b, <2>1 DEF CrashInvariant, SequencesOrdered, Head
<1>5. /\ heads'[k] = h /\ \A m \in Keys \ {k} : heads'[m] = heads[m]
      /\ ViewOf(k)' = v /\ \A m \in Keys \ {k} : ViewOf(m)' = ViewOf(m)
  BY <1>0, <1>1, <1>2 DEF TypeOK, ViewOf
<1>6. Present(k)' /\ \A m \in Keys \ {k} : Present(m)' <=> Present(m)
  BY <1>2, <1>5, MarkAssumption DEF Present
<1>7. \A e \in Scopes : InScope(k, e) => SelectedView(e)' = v
  <2> SUFFICES ASSUME NEW e \in Scopes, InScope(k, e) PROVE SelectedView(e)' = v
    OBVIOUS
  <2>1. Newest(k, e)'
    <3>1. Candidate(k, e)'
      BY <1>6 DEF Candidate
    <3>2. ASSUME NEW m \in Keys, Candidate(m, e)' PROVE heads'[m].sequence <= heads'[k].sequence
      <4>1. CASE m = k
        BY <1>2, <1>5, <4>1
      <4>2. CASE m # k
        BY <1>2, <1>4, <1>5, <1>6, <3>2, <4>2 DEF Candidate
      <4> QED
        BY <4>1, <4>2
    <3> QED
      BY <3>1, <3>2 DEF Newest
  <2> QED
    BY <1>2, <1>5, <2>1 DEF SelectionIs
<1>8. \A e \in Scopes : ~InScope(k, e) => SelectedView(e)' = SelectedView(e)
  <2> SUFFICES ASSUME NEW e \in Scopes, ~InScope(k, e) PROVE SelectedView(e)' = SelectedView(e)
    OBVIOUS
  <2>1. \A m \in Keys : Candidate(m, e)' <=> Candidate(m, e)
    BY <1>6 DEF Candidate
  <2>2. \A m \in Keys : Candidate(m, e) => m # k /\ heads'[m] = heads[m] /\ ViewOf(m)' = ViewOf(m)
    BY <1>5 DEF Candidate
  <2>3. \A m \in Keys : Newest(m, e)' <=> Newest(m, e)
    BY <2>1, <2>2 DEF Newest
  <2>4. CASE \A m \in Keys : ~Candidate(m, e)
    BY <2>1, <2>4 DEF SelectionIs
  <2>5. CASE \E m \in Keys : Candidate(m, e)
    <3>1. PICK m \in Keys : Newest(m, e)
      BY <2>5 DEF SelectionIs
    <3>2. SelectedView(e) = ViewOf(m) /\ SelectedView(e)' = ViewOf(m)'
      BY <2>3, <3>1 DEF SelectionIs
    <3> QED
      BY <2>2, <3>1, <3>2 DEF Newest
  <2> QED
    BY <2>4, <2>5
<1>9. ASSUME NEW q \in Processes PROVE CallKnown(q)' /\ ScanKnown(q)'
  <2> DEFINE e == job[q].endpoint
  <2>0. e \in Scopes /\ CallKnown(q) /\ ScanKnown(q) /\ job'[q] = job[q]
    BY <1>1, ScopeTypes DEF RegisterInvariant
  <2>1. seen'[q] = IF seen[q] # {} /\ InScope(k, e) THEN seen[q] \cup {v} ELSE seen[q]
    BY <1>1
  <2>2. pc'[q] = pc[q] \/ (q = p /\ pc'[q] = "syncViews" /\ pc[q] = "publishHead")
    BY <1>0, <1>1
  <2>3. CallKnown(q)'
    <3>1. (pc[q] # "done" <=> result[q] = "none")' /\ (pc[q] = "idle" => best[q] = Absent)'
          /\ (pc[q] \in {"read", "scan"} => IsReader(q))'
      BY <1>1, <2>0, <2>2 DEF CallKnown, IsReader
    <3>2. (pc[q] \in {"idle", "done"} \/ ~IsReader(q) => seen[q] = {})'
      BY <1>1, <2>0, <2>1, <2>2 DEF CallKnown, IsReader
    <3>3. ASSUME pc'[q] \in {"lock", "read"}, IsReader(q) PROVE SelectedView(e)' \in seen'[q]
      <4>1. SelectedView(e) \in seen[q]
        BY <2>0, <2>2, <3>3 DEF CallKnown
      <4> QED
        BY <1>7, <1>8, <2>0, <2>1, <4>1
    <3> QED
      BY <1>1, <3>1, <3>2, <3>3 DEF CallKnown, IsReader
  <2>4. ASSUME pc'[q] = "scan" PROVE ScanKnown(q)'
    <3>0. pc[q] = "scan" /\ seen[q] # {}
      BY <2>0, <2>2, <2>4 DEF ScanKnown
    <3>1. HeadsSeen(q)'
      <4> SUFFICES ASSUME NEW m \in Keys, Present(m)', InScope(m, e)
                   PROVE  \/ ViewOf(m)' \in seen'[q]
                          \/ \A w \in seen'[q] : w # Absent /\ heads'[m].sequence < w[2].sequence
        BY <1>1 DEF HeadsSeen
      <4>1. CASE m = k
        BY <1>5, <2>1, <3>0, <4>1
      <4>2. CASE m # k
        <5>1. Present(m) /\ heads'[m] = heads[m] /\ ViewOf(m)' = ViewOf(m)
          BY <1>5, <1>6, <4>2
        <5>2. \/ ViewOf(m) \in seen[q]
              \/ \A w \in seen[q] : w # Absent /\ heads[m].sequence < w[2].sequence
          BY <2>0, <3>0, <5>1 DEF ScanKnown, HeadsSeen
        <5>3. heads[m].sequence < v[2].sequence
          BY <1>2, <1>4, <5>1
        <5> QED
          BY <1>3, <2>1, <5>1, <5>2, <5>3
      <4> QED
        BY <4>1, <4>2
    <3>2. CASE best[q] \in seen[q]
      <4>1. best'[q] \in seen'[q]
        BY <1>1, <2>1, <3>2
      <4> QED
        BY <3>1, <4>1 DEF ScanKnown
    <3>3. CASE \E m \in pending[q] : InScope(m, e) /\ ViewOf(m) \in seen[q] /\ Later(ViewOf(m), best[q])
      <4>1. PICK m \in pending[q] : InScope(m, e) /\ ViewOf(m) \in seen[q] /\ Later(ViewOf(m), best[q])
        BY <3>3
      <4>2. m \in Keys /\ Present(m)
        BY <3>0 DEF Typed, LocalsKnown
      <4>3. InScope(m, job'[q].endpoint) /\ ViewOf(m)' \in seen'[q] /\ Later(ViewOf(m), best[q])'
        <5>1. CASE m # k
          BY <1>1, <1>5, <2>1, <4>1, <4>2, <5>1 DEF Later
        <5>2. CASE m = k
          <6>1. ViewOf(m)' = v /\ v \in seen'[q] /\ best'[q] = best[q]
            BY <1>1, <1>5, <2>1, <3>0, <4>1, <5>2
          <6>2. best[q] = Absent \/ v[2].sequence > best[q][2].sequence
            <7> SUFFICES ASSUME best[q] # Absent PROVE v[2].sequence > best[q][2].sequence
              OBVIOUS
            <7>1. best[q] \in Endpoints \X Head
              BY <1>0 DEF TypeOK
            <7>2. best[q][2].sequence \in Nat
              BY <7>1 DEF Head
            <7>3. heads[m].sequence > best[q][2].sequence
              BY <4>1 DEF Later, ViewOf
            <7>4. heads[m].sequence < n /\ heads[m].sequence \in Nat
              BY <1>4, <4>2
            <7>5. v[2].sequence = n
              BY <1>2
            <7> QED
              BY <1>2, <7>2, <7>3, <7>4, <7>5
          <6> QED
            BY <1>1, <4>1, <6>1, <6>2 DEF Later
        <5> QED
          BY <5>1, <5>2
      <4>4. m \in pending'[q]
        BY <1>1
      <4> QED
        BY <3>1, <4>3, <4>4 DEF ScanKnown
    <3> QED
      BY <2>0, <3>0, <3>2, <3>3 DEF ScanKnown
  <2> QED
    BY <2>3, <2>4 DEF ScanKnown
<1>10. RegisterInvariant'
  BY <1>9 DEF RegisterInvariant
<1>11. \A e \in Scopes : InScope(k, e) <=> e \in ScopesOf(v)
  BY DEF InScope, ScopesOf
<1>12. Selection' = [e \in Scopes |-> IF e \in ScopesOf(v) THEN v ELSE Selection[e]]
  BY <1>7, <1>8, <1>11 DEF Selection
<1>13. seen' = [q \in Processes |-> IF seen[q] # {} /\ ScopeOf[q] \in ScopesOf(v)
                                    THEN seen[q] \cup {v} ELSE seen[q]]
  <2>1. \A q \in Processes : InScope(k, job[q].endpoint) <=> ScopeOf[q] \in ScopesOf(v)
    BY <1>11, ScopeTypes
  <2> QED
    BY <1>1, <2>1
<1>14. ScopeOf' = ScopeOf /\ Replies' = Replies
  BY <1>1 DEF ScopeOf, Replies, Reply, IsReader
<1>15. Register!Publish(v)
  BY <1>12, <1>13, <1>14 DEF Register!Publish
<1> QED
  BY <1>3, <1>10, <1>15 DEF Register!Next

\* The type of the selection.
LEMMA SelectionTypes == TypeOK => \A e \in Scopes : SelectedView(e) \in (Endpoints \X Head) \cup {Absent}
BY SelectedViewType

\* The same after a step.
LEMMA SelectionTypesNext ==
  TypeOK' => \A e \in Scopes : SelectedView(e)' \in (Endpoints \X Head) \cup {Absent}
<1>1. (TypeOK => \A e \in Scopes : SelectedView(e) \in (Endpoints \X Head) \cup {Absent})'
  BY SelectionTypes, PTL
<1> QED
  BY <1>1

\* A power loss ends every call and may bring an older selection back.
LEMMA PowerLossReverts ==
  ASSUME Typed, Typed', RegisterInvariant, PowerLoss
  PROVE  RegisterInvariant' /\ [Register!Next]_Register!vars
<1>0. TypeOK /\ TypeOK'
  BY DEF Typed
<1>1. /\ MayLosePower /\ UNCHANGED <<job, view>>
      /\ \A q \in Processes :
           /\ pc'[q] = IF pc[q] = "idle" THEN "idle" ELSE "done"
           /\ result'[q] = IF pc[q] \in {"idle", "done"} THEN result[q] ELSE "killed"
           /\ seen'[q] = {} /\ best'[q] = Absent
      /\ seen' = [q \in Processes |-> {}]
  BY DEF PowerLoss, DropLocals
<1>2. RegisterInvariant'
  BY <1>1 DEF RegisterInvariant, CallKnown, ScanKnown
<1>3. ASSUME NEW q \in Processes
      PROVE  Reply(q)' = IF seen[q] # {} THEN <<"failed">> ELSE Reply(q)
  <2>0. CallKnown(q) /\ ScanKnown(q) /\ LocalsKnown(q) /\ job'[q] = job[q] /\ view'[q] = view[q]
    BY <1>1 DEF RegisterInvariant, Typed
  <2>1. CASE seen[q] # {}
    <3>1. result'[q] = "killed" /\ IsReader(q)
      BY <1>1, <2>0, <2>1 DEF CallKnown
    <3> QED
      BY <2>0, <2>1, <3>1 DEF Reply, IsReader
  <2>2. CASE seen[q] = {} /\ IsReader(q)
    <3>1. pc[q] \in {"idle", "done"}
      BY <1>0, <2>0, <2>2 DEF CallKnown, ScanKnown, LocalsKnown, IsReader, TypeOK, Steps,
         PublicationSteps, InstallSteps, FlushSteps, BindSteps
    <3>2. result'[q] = result[q]
      BY <1>1, <3>1
    <3> QED
      BY <2>0, <2>2, <3>2 DEF Reply, IsReader
  <2>3. CASE seen[q] = {} /\ ~IsReader(q)
    BY <2>0, <2>3 DEF Reply, IsReader
  <2> QED
    BY <2>1, <2>2, <2>3
<1>4. Replies' = [q \in Processes |-> IF seen[q] # {} THEN <<"failed">> ELSE Replies[q]]
  BY <1>3 DEF Replies
<1>5. Selection' \in [Scopes -> (Endpoints \X Head) \cup {Absent}]
  BY <1>0, SelectionTypesNext DEF Selection
<1>6. ScopeOf' = ScopeOf
  BY <1>1 DEF ScopeOf
<1>7. Register!Crash
  BY <1>1, <1>4, <1>5, <1>6 DEF Register!Crash
<1> QED
  BY <1>2, <1>7 DEF Register!Next

\* What a reader returns, under the refresh lock or without it, was selected in its scope
\* at some moment of its call: the store implements the register, as long as no file is
\* damaged from outside and nobody cleans up.
THEOREM ImplementsRegister ==
  ASSUME NoCleanup, MaxDamage = 0 PROVE Spec => ImplementsViewRegister
<1>1. Init => RegisterInvariant /\ Register!Init
  <2> SUFFICES ASSUME Init PROVE RegisterInvariant /\ Register!Init
    OBVIOUS
  <2>1. RegisterInvariant
    BY DEF Init, RegisterInvariant, CallKnown, ScanKnown
  <2>2. \A e \in Scopes : SelectedView(e) = Absent
    <3>1. \A e \in Scopes : Selected(e) = {}
      BY DEF Init, Selected, Valid
    <3> QED
      BY <3>1 DEF SelectedView
  <2>3. \A p \in Processes : Reply(p) = <<"pending">>
    BY DEF Init, Reply
  <2>4. \A p \in Processes : job[p].endpoint \in Scopes
    <3>1. \A p \in Processes : job[p] \in Jobs
      BY DEF Init
    <3> QED
      BY <3>1, JobAssumption DEF Scopes
  <2> QED
    BY <2>1, <2>2, <2>3, <2>4 DEF Init, Register!Init, Selection, Replies, ScopeOf
<1>2. Typed /\ Typed' /\ CrashInvariant /\ CrashInvariant' /\ RegisterInvariant /\ [Next]_vars
        => RegisterInvariant' /\ [Register!Next]_Register!vars
  <2> SUFFICES ASSUME Typed, Typed', CrashInvariant, CrashInvariant', RegisterInvariant, [Next]_vars
               PROVE  RegisterInvariant' /\ [Register!Next]_Register!vars
    OBVIOUS
  <2>0. damaged = 0 /\ damaged' = 0
    BY DEF Typed, TypeOK
  <2>1. SelectionIs /\ SelectionIs'
    BY <2>0, SelectionKnown, SelectionKnownNext
  <2>2. ASSUME NEW p \in Processes, Step(p)
        PROVE  RegisterInvariant' /\ [Register!Next]_Register!vars
    BY <2>0, <2>1, <2>2, CallBegins, PublicationUnseen, HeadPublishes, ReadersSimulated DEF Step
  <2>3. ASSUME NEW p \in Processes, Fail(p)
        PROVE  RegisterInvariant' /\ [Register!Next]_Register!vars
    BY <2>1, <2>3, StepNames, FinishEnds DEF Fail, Return, files
  <2>4. ASSUME NEW p \in Processes, Kill(p)
        PROVE  RegisterInvariant' /\ [Register!Next]_Register!vars
    BY <2>1, <2>4, StepNames, CallEnds DEF Kill, files
  <2>5. ASSUME \/ \E g \in Generations : DamageGeneration(g)
               \/ \E k \in Keys : DamageHead(k)
        PROVE  FALSE
    BY <2>0, <2>5 DEF DamageGeneration, DamageHead
  <2>6. CASE UNCHANGED vars
    <3>1. UNCHANGED <<heads, job, result, view, seen, pc, best, pending, generations>>
      BY <2>6 DEF vars, files, locals
    <3>2. Selection' = Selection /\ \A e \in Scopes : SelectedView(e)' = SelectedView(e)
      BY <2>1, <3>1, SelectionKept
    <3>3. \A q \in Processes : CallKnown(q)' /\ ScanKnown(q)'
      BY <3>1, <3>2, ReadersKept, ScopeTypes
    <3>4. ScopeOf' = ScopeOf /\ Replies' = Replies
      BY <3>1 DEF ScopeOf, Replies, Reply, IsReader
    <3> QED
      BY <3>1, <3>2, <3>3, <3>4 DEF RegisterInvariant, Register!vars
  <2> QED
    BY <2>2, <2>3, <2>4, <2>5, <2>6, PowerLossReverts DEF Next
<1> QED
  BY <1>1, <1>2, TypedIsInvariant, InvariantHolds, PTL DEF Spec, ImplementsViewRegister, Register!Spec
=============================================================================
