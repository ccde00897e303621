------------------------ MODULE PersistentRefreshProofs ------------------------
(***************************************************************************)
(* The safety of the persistent refresh, for any number of processes, any  *)
(* requests and any lifetime of the metadata.                              *)
(***************************************************************************)
EXTENDS PersistentRefresh, TLAPS

USE DEF Forced, Preparing

-----------------------------------------------------------------------------
(* The inductive invariant behind the safety properties.                   *)

\* The refresh lock belongs to the one process that is in a step that needs it.
LockIsExclusive ==
  \A c \in Clients : pc[c] \in LockedSteps <=> lock = c

\* Nothing comes from the future: not the selected view, whose revision is the number of
\* publications, and not the cached response.
Past ==
  /\ view = NoView => published = 0
  /\ view # NoView => view.rev = published /\ view.version <= server /\ view.at <= now
  /\ raw # Nothing => raw.version <= server /\ raw.at <= now

\* What a process may rely on in its step.
OnPath(c) ==
  /\ pc[c] \in {"observe", "preflight", "warm", "begin", "inspect", "acquire", "publish"}
       => kind[c] \in {"online", "forced"}
  /\ pc[c] \in {"lookLock", "look", "fetch", "publishLock", "publishFetched"}
       => kind[c] \in Preparing
  /\ pc[c] \in {"readLock", "read"} => kind[c] = "offline"
Remembers(c) ==
  /\ policyNow[c] <= now /\ began[c].server <= server /\ began[c].rev <= published
  /\ pc[c] = "start" => ~probe[c].valid
  /\ probe[c].valid => began[c].rev <= probe[c].revision /\ probe[c].revision <= published
Holds(c) ==
  pc[c] \in {"publish", "publishLock", "publishFetched"} =>
    fetched[c] \in 0 .. server /\ (kind[c] \in Forced => fetched[c] >= began[c].server)
RightAnswer(c) ==
  /\ answer[c] \in Views /\ Need[c] \subseteq answer[c].covers
  /\ kind[c] \in Forced =>
       answer[c].version >= began[c].server \/ answer[c].rev > began[c].rev
  /\ kind[c] \in {"online", "prepare"} => policyNow[c] <= answer[c].at + TTL
Knows(c) ==
  OnPath(c) /\ Remembers(c) /\ Holds(c) /\ (pc[c] \in {"finish", "done"} => RightAnswer(c))

RefreshInvariant ==
  TypeOK /\ LockIsExclusive /\ Past /\ \A c \in Clients : Knows(c)

\* Without preparing calls the selected view is no newer than the cached response it was
\* made of, and the holder of the lock has that response.
CachedIsNewest ==
  (\A c \in Clients : kind[c] \notin Preparing) =>
    /\ view # NoView /\ raw # Nothing => view.version <= raw.version
    /\ \A c \in Clients :
         pc[c] = "publish" => /\ raw # Nothing /\ fetched[c] = raw.version
                              /\ view # NoView => view.version <= raw.version

-----------------------------------------------------------------------------
(* The step of a process changes what is its own, the shared state only    *)
(* grows, and the others keep what they know.                              *)

Grows == now' >= now /\ server' >= server /\ published' >= published

SameOf(d) ==
  /\ pc'[d] = pc[d] /\ kind'[d] = kind[d] /\ policyNow'[d] = policyNow[d]
  /\ probe'[d] = probe[d] /\ fetched'[d] = fetched[d] /\ answer'[d] = answer[d]
  /\ began'[d] = began[d]

\* A process that took no step knows what it knew: the clock, the server and the count of
\* publications only grow.
LEMMA OthersKnow ==
  ASSUME TypeOK, TypeOK', NEW d \in Clients, Knows(d), Grows, SameOf(d)
  PROVE  Knows(d)'
  <1>1. OnPath(d)' BY DEF Knows, OnPath, SameOf
  <1>2. Remembers(d)' BY RefreshAssumption DEF Knows, Remembers, SameOf, Grows, TypeOK, Probes
  <1>3. Holds(d)' BY RefreshAssumption DEF Knows, Holds, SameOf, Grows, TypeOK
  <1>4. pc'[d] \in {"finish", "done"} => RightAnswer(d)' BY DEF Knows, RightAnswer, SameOf
  <1> QED BY <1>1, <1>2, <1>3, <1>4 DEF Knows

\* The lock stays exclusive when one process moves between steps that need it.
LEMMA LockKept ==
  ASSUME TypeOK, LockIsExclusive, NEW c \in Clients, NEW s \in Steps,
         pc' = [pc EXCEPT ![c] = s],
         \/ lock' = lock /\ (pc[c] \in LockedSteps <=> s \in LockedSteps)
         \/ lock = NoClient /\ lock' = c /\ s \in LockedSteps
         \/ lock' = (IF lock = c THEN NoClient ELSE lock) /\ s \notin LockedSteps
  PROVE  LockIsExclusive'
  BY RefreshAssumption DEF TypeOK, LockIsExclusive

\* The values the steps write have their types.
LEMMA NoProbeType == NoProbe \in Probes /\ ~NoProbe.valid
  BY DEF NoProbe, Probes
\* A valid probe.
LEMMA ObservedType ==
  ASSUME NEW r \in Nat
  PROVE  [valid |-> TRUE, revision |-> r] \in Probes
  BY DEF Probes
\* A published view.
LEMMA PublishedType ==
  ASSUME NEW r \in Nat, NEW n \in Nat, NEW t \in Nat, NEW s \in SUBSET Packages
  PROVE  [rev |-> r, version |-> n, at |-> t, covers |-> s, intact |-> TRUE] \in Views
  BY DEF Views
\* A view the store can read is one, and was published in the past.
LEMMA ReadableType ==
  ASSUME TypeOK, Past, Readable
  PROVE  /\ view \in Views /\ view # NoView
         /\ view.rev \in Nat /\ view.version \in Nat /\ view.at \in Nat
         /\ view.rev = published /\ view.version <= server /\ view.at <= now
  BY DEF TypeOK, Past, Readable, Views


\* A step of one process keeps the invariant if it keeps the types, the lock, the past and
\* what that process knows, and leaves the others alone.
LEMMA StepKeeps ==
  ASSUME RefreshInvariant, NEW c \in Clients, TypeOK', LockIsExclusive', Past', Grows,
         Knows(c)', \A d \in Clients \ {c} : SameOf(d)
  PROVE  RefreshInvariant'
  <1>1. ASSUME NEW d \in Clients \ {c} PROVE Knows(d)'
    BY <1>1, OthersKnow DEF RefreshInvariant
  <1> QED BY <1>1 DEF RefreshInvariant

\* Start: the process remembers the present.
LEMMA StartKeeps ==
  ASSUME RefreshInvariant, NEW c \in Clients, Start(c)
  PROVE  RefreshInvariant'
  <1> USE RefreshAssumption
  <1>0. TypeOK /\ LockIsExclusive /\ Past /\ Knows(c) BY DEF RefreshInvariant
  <1>a. kind[c] \in AllKinds /\ pc[c] = "start"
    BY <1>0 DEF Start, TypeOK
  <1>b. \E s \in {"observe", "lookLock", "readLock"} :
          /\ Goto(c, s)
          /\ s = "observe" => kind[c] \in {"online", "forced"}
          /\ s = "lookLock" => kind[c] \in Preparing
          /\ s = "readLock" => kind[c] = "offline"
    BY <1>a DEF Start, AllKinds
  <1>c. PICK s \in {"observe", "lookLock", "readLock"} :
          /\ Goto(c, s)
          /\ s = "observe" => kind[c] \in {"online", "forced"}
          /\ s = "lookLock" => kind[c] \in Preparing
          /\ s = "readLock" => kind[c] = "offline"
    BY <1>b
  <1>d. pc' = [pc EXCEPT ![c] = s] /\ pc'[c] = s
    BY <1>0, <1>c DEF TypeOK, Goto
  <1>1. TypeOK'
    <2>1. pc' \in [Clients -> Steps] BY <1>0, <1>d DEF TypeOK, Steps
    <2>2. now \in Nat /\ server \in Nat /\ published \in Nat BY <1>0 DEF TypeOK
    <2>3. policyNow' \in [Clients -> Nat] BY <1>0, <2>2 DEF Start, TypeOK
    <2>4. began' \in [Clients -> [server : Nat, rev : Nat]] BY <1>0, <2>2 DEF Start, TypeOK
    <2> QED BY <1>0, <2>1, <2>3, <2>4 DEF Start, world, TypeOK
  <1>2. LockIsExclusive'
    BY <1>0, <1>a, <1>d, LockKept DEF Start, Steps, LockedSteps
  <1>3. Past'
    BY <1>0 DEF Start, Goto, world, TypeOK, Past
  <1>4. Grows
    BY <1>0 DEF Start, Goto, world, TypeOK, Grows
  <1>5. \A d \in Clients \ {c} : SameOf(d)
    BY <1>0 DEF Start, Goto, world, TypeOK, SameOf
  <1>6. OnPath(c)'
    BY <1>0, <1>c, <1>d DEF Start, OnPath
  <1>7. Remembers(c)'
    <2>1. policyNow'[c] = now /\ began'[c].server = server /\ began'[c].rev = published
      BY <1>0 DEF Start, TypeOK
    <2>2. ~probe'[c].valid /\ now' = now /\ server' = server /\ published' = published
      BY <1>0, <1>a DEF Start, world, Knows, Remembers
    <2> QED BY <1>0, <2>1, <2>2 DEF TypeOK, Remembers
  <1>8. Holds(c)'
    BY <1>d DEF Holds
  <1>9. pc'[c] \in {"finish", "done"} => RightAnswer(c)'
    BY <1>d
  <1> QED BY <1>1, <1>2, <1>3, <1>4, <1>5, <1>6, <1>7, <1>8, <1>9, StepKeeps DEF Knows

\* Observe: the probe is the present revision.
LEMMA ObserveKeeps ==
  ASSUME RefreshInvariant, NEW c \in Clients, Observe(c)
  PROVE  RefreshInvariant'
  <1> USE RefreshAssumption
  <1>0. TypeOK /\ LockIsExclusive /\ Past /\ Knows(c) BY DEF RefreshInvariant
  <1>a. view \in Views \cup {NoView} BY <1>0 DEF TypeOK
  <1>b. (IF view = NoView THEN 0 ELSE view.rev) \in Nat BY <1>a DEF Views
  <1>1. TypeOK'
    BY <1>0, <1>b, NoProbeType, ObservedType DEF Observe, Goto, world, TypeOK, Steps
  <1>2. LockIsExclusive'
    BY <1>0, LockKept DEF Observe, Goto, world, Steps, LockedSteps, Ended
  <1>3. Past'
    BY <1>0 DEF Observe, Goto, world, TypeOK, Past
  <1>4. Grows
    BY <1>0 DEF Observe, Goto, world, TypeOK, Grows
  <1>5. \A d \in Clients \ {c} : SameOf(d)
    BY <1>0 DEF Observe, Goto, world, TypeOK, SameOf
  <1>6. OnPath(c)'
    BY <1>0 DEF Observe, Goto, world, TypeOK, Knows, OnPath
  <1>7. Remembers(c)'
    BY <1>0, NoProbeType DEF Observe, Goto, world, TypeOK, Knows, Remembers, Past, Probes
  <1>8. Holds(c)'
    BY <1>0 DEF Observe, Goto, world, TypeOK, Knows, Holds
  <1>9. pc'[c] \in {"finish", "done"} => RightAnswer(c)'
    BY <1>0 DEF Observe, Goto, world, TypeOK
  <1> QED BY <1>1, <1>2, <1>3, <1>4, <1>5, <1>6, <1>7, <1>8, <1>9, StepKeeps DEF Knows

\* Preflight: the lock, or no wait.
LEMMA PreflightKeeps ==
  ASSUME RefreshInvariant, NEW c \in Clients, Preflight(c)
  PROVE  RefreshInvariant'
  <1> USE RefreshAssumption
  <1>0. TypeOK /\ LockIsExclusive /\ Past /\ Knows(c) BY DEF RefreshInvariant
  <1>1. TypeOK'
    BY <1>0 DEF Preflight, Goto, Take, world, own, TypeOK, Steps, LockedSteps, Ended
  <1>2. LockIsExclusive'
    BY <1>0, LockKept DEF Preflight, Goto, Take, world, own, Steps, LockedSteps, Ended
  <1>3. Past'
    BY <1>0 DEF Preflight, Goto, Take, world, own, TypeOK, Past
  <1>4. Grows
    BY <1>0 DEF Preflight, Goto, Take, world, own, TypeOK, Grows
  <1>5. \A d \in Clients \ {c} : SameOf(d)
    BY <1>0 DEF Preflight, Goto, Take, world, own, TypeOK, SameOf
  <1>6. OnPath(c)'
    BY <1>0 DEF Preflight, Goto, Take, world, own, TypeOK, Knows, OnPath
  <1>7. Remembers(c)'
    BY <1>0, NoProbeType DEF Preflight, Goto, Take, world, own, TypeOK, Knows, Remembers, Past,
       Probes
  <1>8. Holds(c)'
    BY <1>0 DEF Preflight, Goto, Take, world, own, TypeOK, Knows, Holds
  <1>9. pc'[c] \in {"finish", "done"} => RightAnswer(c)'
    BY <1>0 DEF Preflight, Goto, Take, world, own, TypeOK
  <1> QED BY <1>1, <1>2, <1>3, <1>4, <1>5, <1>6, <1>7, <1>8, <1>9, StepKeeps DEF Knows

\* Warm: a fresh view that covers the request is the right answer of an online call.
LEMMA WarmKeeps ==
  ASSUME RefreshInvariant, NEW c \in Clients, Warm(c)
  PROVE  RefreshInvariant'
  <1> USE RefreshAssumption
  <1>0. TypeOK /\ LockIsExclusive /\ Past /\ Knows(c) BY DEF RefreshInvariant
  <1>a. Readable => /\ view \in Views /\ view.rev \in Nat /\ view.version \in Nat /\ view.at \in Nat
                   /\ view.rev = published
    BY <1>0, ReadableType
  <1>b. Fresh(c) => Readable /\ policyNow[c] <= view.at + TTL
    BY <1>0, <1>a DEF Fresh, TypeOK
  <1>c. \/ Resolve(c, view) /\ view \in Views
        \/ Goto(c, "begin") /\ Drop(c) /\ UNCHANGED <<probe, fetched, answer>>
    BY <1>a, <1>b DEF Warm
  <1>d. UNCHANGED <<now, server, view, published, raw, kind, policyNow, began>>
    BY DEF Warm, world
  <1>1. TypeOK'
    <2>1. CASE Resolve(c, view) /\ view \in Views
      BY <1>0, <1>d, <2>1, NoProbeType DEF Resolve, End, Goto, Drop, TypeOK, Steps,
         LockedSteps, Ended
    <2>2. CASE Goto(c, "begin") /\ Drop(c) /\ UNCHANGED <<probe, fetched, answer>>
      BY <1>0, <1>d, <2>2, NoProbeType DEF Goto, Drop, TypeOK, Steps, LockedSteps, Ended
    <2> QED BY <1>c, <2>1, <2>2
  <1>2. LockIsExclusive'
    BY <1>0, LockKept DEF Warm, Goto, Drop, End, Resolve, world, Steps, LockedSteps, Ended
  <1>3. Past'
    BY <1>0 DEF Warm, Goto, Drop, End, Resolve, world, TypeOK, Past
  <1>4. Grows
    BY <1>0 DEF Warm, Goto, Drop, End, Resolve, world, TypeOK, Grows
  <1>5. \A d \in Clients \ {c} : SameOf(d)
    BY <1>0 DEF Warm, Goto, Drop, End, Resolve, world, TypeOK, SameOf
  <1>6. OnPath(c)'
    BY <1>0 DEF Warm, Goto, Drop, End, Resolve, world, TypeOK, Knows, OnPath
  <1>7. Remembers(c)'
    BY <1>0, NoProbeType DEF Warm, Goto, Drop, End, Resolve, world, TypeOK, Knows, Remembers,
       Past, Probes
  <1>8. Holds(c)'
    BY <1>0 DEF Warm, Goto, Drop, End, Resolve, world, TypeOK, Knows, Holds
  <1>9. pc'[c] \in {"finish", "done"} => RightAnswer(c)'
    BY <1>0, <1>a, <1>b DEF Warm, Goto, Drop, End, Resolve, world, Covers, TypeOK, Knows,
       OnPath, RightAnswer
  <1> QED BY <1>1, <1>2, <1>3, <1>4, <1>5, <1>6, <1>7, <1>8, <1>9, StepKeeps DEF Knows

\* Begin: the lock is taken.
LEMMA BeginKeeps ==
  ASSUME RefreshInvariant, NEW c \in Clients, Begin(c)
  PROVE  RefreshInvariant'
  <1> USE RefreshAssumption
  <1>0. TypeOK /\ LockIsExclusive /\ Past /\ Knows(c) BY DEF RefreshInvariant
  <1>1. TypeOK'
    BY <1>0 DEF Begin, Goto, Take, world, own, TypeOK, Steps, LockedSteps, Ended
  <1>2. LockIsExclusive'
    BY <1>0, LockKept DEF Begin, Goto, Take, world, own, Steps, LockedSteps, Ended
  <1>3. Past'
    BY <1>0 DEF Begin, Goto, Take, world, own, TypeOK, Past
  <1>4. Grows
    BY <1>0 DEF Begin, Goto, Take, world, own, TypeOK, Grows
  <1>5. \A d \in Clients \ {c} : SameOf(d)
    BY <1>0 DEF Begin, Goto, Take, world, own, TypeOK, SameOf
  <1>6. OnPath(c)'
    BY <1>0 DEF Begin, Goto, Take, world, own, TypeOK, Knows, OnPath
  <1>7. Remembers(c)'
    BY <1>0, NoProbeType DEF Begin, Goto, Take, world, own, TypeOK, Knows, Remembers, Past,
       Probes
  <1>8. Holds(c)'
    BY <1>0 DEF Begin, Goto, Take, world, own, TypeOK, Knows, Holds
  <1>9. pc'[c] \in {"finish", "done"} => RightAnswer(c)'
    BY <1>0 DEF Begin, Goto, Take, world, own, TypeOK
  <1> QED BY <1>1, <1>2, <1>3, <1>4, <1>5, <1>6, <1>7, <1>8, <1>9, StepKeeps DEF Knows

\* Inspect: a view that was published since the probe was published since the call began.
LEMMA InspectKeeps ==
  ASSUME RefreshInvariant, NEW c \in Clients, Inspect(c)
  PROVE  RefreshInvariant'
  <1> USE RefreshAssumption
  <1>0. TypeOK /\ LockIsExclusive /\ Past /\ Knows(c) BY DEF RefreshInvariant
  <1>a. Readable => /\ view \in Views /\ view.rev \in Nat /\ view.version \in Nat /\ view.at \in Nat
                   /\ view.rev = published
    BY <1>0, ReadableType
  <1>b. Fresh(c) => Readable /\ policyNow[c] <= view.at + TTL
    BY <1>0, <1>a DEF Fresh, TypeOK
  <1>c. Reusable(c) => Fresh(c) /\ Covers(c) /\ (kind[c] = "forced" => view.rev > began[c].rev)
    <2> SUFFICES ASSUME Reusable(c), kind[c] = "forced" PROVE view.rev > began[c].rev
      BY DEF Reusable
    <2>0. probe[c].valid /\ Readable BY <1>b DEF Reusable, RefreshCompletedAfterWait
    <2>1. probe[c].revision # LockedRevision BY DEF Reusable, RefreshCompletedAfterWait
    <2>2. probe[c] \in Probes /\ began[c].rev \in Nat BY <1>0 DEF TypeOK
    <2>3. probe[c].revision \in Nat BY <2>2 DEF Probes
    <2>4. LockedRevision = published /\ view.rev = published BY <1>a, <2>0 DEF LockedRevision
    <2>5. began[c].rev <= probe[c].revision /\ probe[c].revision <= published
      BY <1>0, <2>0 DEF Knows, Remembers
    <2>6. published \in Nat BY <1>0 DEF TypeOK
    <2> QED BY <2>1, <2>2, <2>3, <2>4, <2>5, <2>6
  <1>d. \/ answer' = [answer EXCEPT ![c] = view] /\ view \in Views /\ Goto(c, "finish")
        \/ answer' = answer /\ Goto(c, "acquire")
    BY <1>a, <1>b, <1>c DEF Inspect
  <1>e. UNCHANGED <<now, server, view, published, raw, lock, kind, policyNow, probe, fetched,
  began>> BY DEF Inspect, world
  <1>1. TypeOK'
    <2>1. CASE answer' = [answer EXCEPT ![c] = view] /\ view \in Views /\ Goto(c, "finish")
      BY <1>0, <1>e, <2>1 DEF Goto, TypeOK, Steps, LockedSteps
    <2>2. CASE answer' = answer /\ Goto(c, "acquire")
      BY <1>0, <1>e, <2>2 DEF Goto, TypeOK, Steps, LockedSteps
    <2> QED BY <1>d, <2>1, <2>2
  <1>2. LockIsExclusive'
    BY <1>0, LockKept DEF Inspect, Goto, world, Steps, LockedSteps, Ended
  <1>3. Past'
    BY <1>0 DEF Inspect, Goto, world, TypeOK, Past
  <1>4. Grows
    BY <1>0 DEF Inspect, Goto, world, TypeOK, Grows
  <1>5. \A d \in Clients \ {c} : SameOf(d)
    BY <1>0 DEF Inspect, Goto, world, TypeOK, SameOf
  <1>6. OnPath(c)'
    BY <1>0 DEF Inspect, Goto, world, TypeOK, Knows, OnPath
  <1>7. Remembers(c)'
    BY <1>0, NoProbeType DEF Inspect, Goto, world, TypeOK, Knows, Remembers, Past, Probes
  <1>8. Holds(c)'
    BY <1>0 DEF Inspect, Goto, world, TypeOK, Knows, Holds
  <1>9. pc'[c] \in {"finish", "done"} => RightAnswer(c)'
    BY <1>0, <1>a, <1>b, <1>c DEF Inspect, Goto, world, Covers, TypeOK, Knows, OnPath,
       RightAnswer
  <1> QED BY <1>1, <1>2, <1>3, <1>4, <1>5, <1>6, <1>7, <1>8, <1>9, StepKeeps DEF Knows

\* Acquire: what a forced call fetches is what the server has.
LEMMA AcquireKeeps ==
  ASSUME RefreshInvariant, NEW c \in Clients, Acquire(c)
  PROVE  RefreshInvariant'
  <1> USE RefreshAssumption
  <1>0. TypeOK /\ LockIsExclusive /\ Past /\ Knows(c) BY DEF RefreshInvariant
  <1>a. RawReusable(c) => raw.version \in Nat /\ kind[c] # "forced"
    BY <1>0 DEF RawReusable, TypeOK, Responses
  <1>1. TypeOK'
    BY <1>0, <1>a DEF Acquire, Goto, world, TypeOK, Responses, Steps, LockedSteps
  <1>2. LockIsExclusive'
    BY <1>0, LockKept DEF Acquire, Goto, world, Steps, LockedSteps, Ended
  <1>3. Past'
    BY <1>0 DEF Acquire, Goto, world, TypeOK, Past, Responses
  <1>4. Grows
    BY <1>0 DEF Acquire, Goto, world, TypeOK, Grows
  <1>5. \A d \in Clients \ {c} : SameOf(d)
    BY <1>0 DEF Acquire, Goto, world, TypeOK, SameOf
  <1>6. OnPath(c)'
    BY <1>0 DEF Acquire, Goto, world, TypeOK, Knows, OnPath
  <1>7. Remembers(c)'
    BY <1>0, NoProbeType DEF Acquire, Goto, world, TypeOK, Knows, Remembers, Past, Probes
  <1>8. Holds(c)'
    <2>1. kind'[c] = kind[c] /\ began' = began /\ server' = server BY DEF Acquire, world
    <2>2. fetched'[c] \in 0 .. server /\ (kind[c] = "forced" => fetched'[c] = server)
      BY <1>0, <1>a DEF Acquire, RawReusable, TypeOK, Responses, Past
    <2>3. kind[c] \in {"online", "forced"} BY <1>0 DEF Acquire, Knows, OnPath
    <2>4. began[c].server <= server /\ server \in Nat /\ began[c].server \in Nat
      BY <1>0 DEF Knows, Remembers, TypeOK
    <2> QED BY <2>1, <2>2, <2>3, <2>4 DEF Holds
  <1>9. pc'[c] \in {"finish", "done"} => RightAnswer(c)'
    BY <1>0 DEF Acquire, Goto, world, TypeOK
  <1> QED BY <1>1, <1>2, <1>3, <1>4, <1>5, <1>6, <1>7, <1>8, <1>9, StepKeeps DEF Knows

\* Publish: the view is the next revision, of what was fetched, dated now.
LEMMA PublishKeeps ==
  ASSUME RefreshInvariant, NEW c \in Clients, Publish(c)
  PROVE  RefreshInvariant'
  <1> USE RefreshAssumption
  <1>0. TypeOK /\ LockIsExclusive /\ Past /\ Knows(c) BY DEF RefreshInvariant
  <1>a. fetched[c] \in 0 .. server /\ fetched[c] \in Nat /\ published + 1 \in Nat 
      /\ now \in Nat /\ Need[c] \in SUBSET Packages
    BY <1>0 DEF Publish, TypeOK, Knows, Holds
  <1> DEFINE v == [rev |-> published + 1, version |-> fetched[c], at |-> now,
                   covers |-> Need[c], intact |-> TRUE]
  <1>b. v \in Views BY <1>a, PublishedType
  <1>c. view' = v /\ published' = published + 1 /\ answer' = [answer EXCEPT ![c] = v]
    BY DEF Publish, PublishView
  <1>1. TypeOK'
    BY <1>0, <1>a, <1>b, <1>c DEF Publish, Goto, world, TypeOK, Steps, LockedSteps
  <1>2. LockIsExclusive'
    BY <1>0, LockKept DEF Publish, Goto, PublishView, world, Steps, LockedSteps, Ended
  <1>3. Past'
    <2>1. view' # NoView BY <1>b, <1>c, SentinelAssumption
    <2>2. view'.rev = published' /\ view'.version = fetched[c] /\ view'.at = now BY <1>c
    <2>3. raw' = raw /\ now' = now /\ server' = server BY DEF Publish, world
    <2> QED BY <1>0, <1>a, <2>1, <2>2, <2>3 DEF Past, TypeOK
  <1>4. Grows
    BY <1>0 DEF Publish, Goto, PublishView, world, TypeOK, Grows
  <1>5. \A d \in Clients \ {c} : SameOf(d)
    BY <1>0 DEF Publish, Goto, PublishView, world, TypeOK, SameOf
  <1>6. OnPath(c)'
    BY <1>0 DEF Publish, Goto, PublishView, world, TypeOK, Knows, OnPath
  <1>7. Remembers(c)'
    BY <1>0, NoProbeType DEF Publish, Goto, PublishView, world, TypeOK, Knows, Remembers, Past,
       Probes
  <1>8. Holds(c)'
    BY <1>0 DEF Publish, Goto, PublishView, world, TypeOK, Knows, Holds
  <1>9. pc'[c] \in {"finish", "done"} => RightAnswer(c)'
    BY <1>0, <1>a, <1>b, <1>c DEF Publish, Goto, PublishView, world, TypeOK, Knows, OnPath,
       Remembers, Holds, RightAnswer
  <1> QED BY <1>1, <1>2, <1>3, <1>4, <1>5, <1>6, <1>7, <1>8, <1>9, StepKeeps DEF Knows

\* PublishFails: the call ends and lets go of the lock.
LEMMA PublishFailsKeeps ==
  ASSUME RefreshInvariant, NEW c \in Clients, PublishFails(c)
  PROVE  RefreshInvariant'
  <1> USE RefreshAssumption
  <1>0. TypeOK /\ LockIsExclusive /\ Past /\ Knows(c) BY DEF RefreshInvariant
  <1>1. TypeOK'
    BY <1>0, NoProbeType DEF PublishFails, Goto, Drop, End, Fail, world, TypeOK, Steps,
       LockedSteps, Ended
  <1>2. LockIsExclusive'
    BY <1>0, LockKept DEF PublishFails, Goto, Drop, End, Fail, world, Steps, LockedSteps, Ended
  <1>3. Past'
    BY <1>0 DEF PublishFails, Goto, Drop, End, Fail, world, TypeOK, Past
  <1>4. Grows
    BY <1>0 DEF PublishFails, Goto, Drop, End, Fail, world, TypeOK, Grows
  <1>5. \A d \in Clients \ {c} : SameOf(d)
    BY <1>0 DEF PublishFails, Goto, Drop, End, Fail, world, TypeOK, SameOf
  <1>6. OnPath(c)'
    BY <1>0 DEF PublishFails, Goto, Drop, End, Fail, world, TypeOK, Knows, OnPath
  <1>7. Remembers(c)'
    BY <1>0, NoProbeType DEF PublishFails, Goto, Drop, End, Fail, world, TypeOK, Knows,
       Remembers, Past, Probes
  <1>8. Holds(c)'
    BY <1>0 DEF PublishFails, Goto, Drop, End, Fail, world, TypeOK, Knows, Holds
  <1>9. pc'[c] \in {"finish", "done"} => RightAnswer(c)'
    BY <1>0 DEF PublishFails, Goto, Drop, End, Fail, world, TypeOK
  <1> QED BY <1>1, <1>2, <1>3, <1>4, <1>5, <1>6, <1>7, <1>8, <1>9, StepKeeps DEF Knows

\* Finish: the answer is the one the process held.
LEMMA FinishKeeps ==
  ASSUME RefreshInvariant, NEW c \in Clients, Finish(c)
  PROVE  RefreshInvariant'
  <1> USE RefreshAssumption
  <1>0. TypeOK /\ LockIsExclusive /\ Past /\ Knows(c) BY DEF RefreshInvariant
  <1>1. TypeOK'
    BY <1>0, NoProbeType DEF Finish, Goto, Drop, End, Resolve, world, TypeOK, Steps,
       LockedSteps, Ended
  <1>2. LockIsExclusive'
    BY <1>0, LockKept DEF Finish, Goto, Drop, End, Resolve, world, Steps, LockedSteps, Ended
  <1>3. Past'
    BY <1>0 DEF Finish, Goto, Drop, End, Resolve, world, TypeOK, Past
  <1>4. Grows
    BY <1>0 DEF Finish, Goto, Drop, End, Resolve, world, TypeOK, Grows
  <1>5. \A d \in Clients \ {c} : SameOf(d)
    BY <1>0 DEF Finish, Goto, Drop, End, Resolve, world, TypeOK, SameOf
  <1>6. OnPath(c)'
    BY <1>0 DEF Finish, Goto, Drop, End, Resolve, world, TypeOK, Knows, OnPath
  <1>7. Remembers(c)'
    BY <1>0, NoProbeType DEF Finish, Goto, Drop, End, Resolve, world, TypeOK, Knows, Remembers,
       Past, Probes
  <1>8. Holds(c)'
    BY <1>0 DEF Finish, Goto, Drop, End, Resolve, world, TypeOK, Knows, Holds
  <1>9. pc'[c] \in {"finish", "done"} => RightAnswer(c)'
    BY <1>0 DEF Finish, Goto, Drop, End, Resolve, world, TypeOK, Knows, RightAnswer
  <1> QED BY <1>1, <1>2, <1>3, <1>4, <1>5, <1>6, <1>7, <1>8, <1>9, StepKeeps DEF Knows

\* LookLock: the lock is taken.
LEMMA LookLockKeeps ==
  ASSUME RefreshInvariant, NEW c \in Clients, LookLock(c)
  PROVE  RefreshInvariant'
  <1> USE RefreshAssumption
  <1>0. TypeOK /\ LockIsExclusive /\ Past /\ Knows(c) BY DEF RefreshInvariant
  <1>1. TypeOK'
    BY <1>0 DEF LookLock, Goto, Take, world, own, TypeOK, Steps, LockedSteps, Ended
  <1>2. LockIsExclusive'
    BY <1>0, LockKept DEF LookLock, Goto, Take, world, own, Steps, LockedSteps, Ended
  <1>3. Past'
    BY <1>0 DEF LookLock, Goto, Take, world, own, TypeOK, Past
  <1>4. Grows
    BY <1>0 DEF LookLock, Goto, Take, world, own, TypeOK, Grows
  <1>5. \A d \in Clients \ {c} : SameOf(d)
    BY <1>0 DEF LookLock, Goto, Take, world, own, TypeOK, SameOf
  <1>6. OnPath(c)'
    BY <1>0 DEF LookLock, Goto, Take, world, own, TypeOK, Knows, OnPath
  <1>7. Remembers(c)'
    BY <1>0, NoProbeType DEF LookLock, Goto, Take, world, own, TypeOK, Knows, Remembers, Past,
       Probes
  <1>8. Holds(c)'
    BY <1>0 DEF LookLock, Goto, Take, world, own, TypeOK, Knows, Holds
  <1>9. pc'[c] \in {"finish", "done"} => RightAnswer(c)'
    BY <1>0 DEF LookLock, Goto, Take, world, own, TypeOK
  <1> QED BY <1>1, <1>2, <1>3, <1>4, <1>5, <1>6, <1>7, <1>8, <1>9, StepKeeps DEF Knows

\* Look: as the warm path, for a preparing call.
LEMMA LookKeeps ==
  ASSUME RefreshInvariant, NEW c \in Clients, Look(c)
  PROVE  RefreshInvariant'
  <1> USE RefreshAssumption
  <1>0. TypeOK /\ LockIsExclusive /\ Past /\ Knows(c) BY DEF RefreshInvariant
  <1>a. Readable => /\ view \in Views /\ view.rev \in Nat /\ view.version \in Nat /\ view.at \in Nat
                   /\ view.rev = published
    BY <1>0, ReadableType
  <1>b. Fresh(c) => Readable /\ policyNow[c] <= view.at + TTL
    BY <1>0, <1>a DEF Fresh, TypeOK
  <1>c. \/ Resolve(c, view) /\ view \in Views
        \/ Fail(c)
        \/ Goto(c, "fetch") /\ Drop(c) /\ UNCHANGED <<probe, fetched, answer>>
    BY <1>a, <1>b DEF Look
  <1>d. UNCHANGED <<now, server, view, published, raw, kind, policyNow, began>>
    BY DEF Look, world
  <1>1. TypeOK'
    <2>1. CASE Resolve(c, view) /\ view \in Views
      BY <1>0, <1>d, <2>1, NoProbeType DEF Resolve, End, Goto, Drop, TypeOK, Steps,
         LockedSteps, Ended
    <2>2. CASE Fail(c)
      BY <1>0, <1>d, <2>2, NoProbeType DEF Fail, End, Goto, Drop, TypeOK, Steps, LockedSteps,
         Ended
    <2>3. CASE Goto(c, "fetch") /\ Drop(c) /\ UNCHANGED <<probe, fetched, answer>>
      BY <1>0, <1>d, <2>3, NoProbeType DEF Goto, Drop, TypeOK, Steps, LockedSteps, Ended
    <2> QED BY <1>c, <2>1, <2>2, <2>3
  <1>2. LockIsExclusive'
    BY <1>0, LockKept DEF Look, Goto, Drop, End, Resolve, Fail, world, Steps, LockedSteps, Ended
  <1>3. Past'
    BY <1>0 DEF Look, Goto, Drop, End, Resolve, Fail, world, TypeOK, Past
  <1>4. Grows
    BY <1>0 DEF Look, Goto, Drop, End, Resolve, Fail, world, TypeOK, Grows
  <1>5. \A d \in Clients \ {c} : SameOf(d)
    BY <1>0 DEF Look, Goto, Drop, End, Resolve, Fail, world, TypeOK, SameOf
  <1>6. OnPath(c)'
    BY <1>0 DEF Look, Goto, Drop, End, Resolve, Fail, world, TypeOK, Knows, OnPath
  <1>7. Remembers(c)'
    BY <1>0, NoProbeType DEF Look, Goto, Drop, End, Resolve, Fail, world, TypeOK, Knows,
       Remembers, Past, Probes
  <1>8. Holds(c)'
    BY <1>0 DEF Look, Goto, Drop, End, Resolve, Fail, world, TypeOK, Knows, Holds
  <1>9. pc'[c] \in {"finish", "done"} => RightAnswer(c)'
    BY <1>0, <1>a, <1>b DEF Look, Goto, Drop, End, Resolve, Fail, world, Covers, TypeOK, Knows,
       OnPath, RightAnswer
  <1> QED BY <1>1, <1>2, <1>3, <1>4, <1>5, <1>6, <1>7, <1>8, <1>9, StepKeeps DEF Knows

\* Fetch: what the server has.
LEMMA FetchKeeps ==
  ASSUME RefreshInvariant, NEW c \in Clients, Fetch(c)
  PROVE  RefreshInvariant'
  <1> USE RefreshAssumption
  <1>0. TypeOK /\ LockIsExclusive /\ Past /\ Knows(c) BY DEF RefreshInvariant
  <1>1. TypeOK'
    BY <1>0 DEF Fetch, Goto, world, TypeOK, Steps, LockedSteps, Ended
  <1>2. LockIsExclusive'
    BY <1>0, LockKept DEF Fetch, Goto, world, Steps, LockedSteps, Ended
  <1>3. Past'
    BY <1>0 DEF Fetch, Goto, world, TypeOK, Past
  <1>4. Grows
    BY <1>0 DEF Fetch, Goto, world, TypeOK, Grows
  <1>5. \A d \in Clients \ {c} : SameOf(d)
    BY <1>0 DEF Fetch, Goto, world, TypeOK, SameOf
  <1>6. OnPath(c)'
    BY <1>0 DEF Fetch, Goto, world, TypeOK, Knows, OnPath
  <1>7. Remembers(c)'
    BY <1>0, NoProbeType DEF Fetch, Goto, world, TypeOK, Knows, Remembers, Past, Probes
  <1>8. Holds(c)'
    BY <1>0 DEF Fetch, Goto, world, TypeOK, Knows, OnPath, Remembers, Holds
  <1>9. pc'[c] \in {"finish", "done"} => RightAnswer(c)'
    BY <1>0 DEF Fetch, Goto, world, TypeOK
  <1> QED BY <1>1, <1>2, <1>3, <1>4, <1>5, <1>6, <1>7, <1>8, <1>9, StepKeeps DEF Knows

\* PublishLock: the lock is taken.
LEMMA PublishLockKeeps ==
  ASSUME RefreshInvariant, NEW c \in Clients, PublishLock(c)
  PROVE  RefreshInvariant'
  <1> USE RefreshAssumption
  <1>0. TypeOK /\ LockIsExclusive /\ Past /\ Knows(c) BY DEF RefreshInvariant
  <1>1. TypeOK'
    BY <1>0 DEF PublishLock, Goto, Take, world, own, TypeOK, Steps, LockedSteps, Ended
  <1>2. LockIsExclusive'
    BY <1>0, LockKept DEF PublishLock, Goto, Take, world, own, Steps, LockedSteps, Ended
  <1>3. Past'
    BY <1>0 DEF PublishLock, Goto, Take, world, own, TypeOK, Past
  <1>4. Grows
    BY <1>0 DEF PublishLock, Goto, Take, world, own, TypeOK, Grows
  <1>5. \A d \in Clients \ {c} : SameOf(d)
    BY <1>0 DEF PublishLock, Goto, Take, world, own, TypeOK, SameOf
  <1>6. OnPath(c)'
    BY <1>0 DEF PublishLock, Goto, Take, world, own, TypeOK, Knows, OnPath
  <1>7. Remembers(c)'
    BY <1>0, NoProbeType DEF PublishLock, Goto, Take, world, own, TypeOK, Knows, Remembers,
       Past, Probes
  <1>8. Holds(c)'
    BY <1>0 DEF PublishLock, Goto, Take, world, own, TypeOK, Knows, Holds
  <1>9. pc'[c] \in {"finish", "done"} => RightAnswer(c)'
    BY <1>0 DEF PublishLock, Goto, Take, world, own, TypeOK
  <1> QED BY <1>1, <1>2, <1>3, <1>4, <1>5, <1>6, <1>7, <1>8, <1>9, StepKeeps DEF Knows

\* PublishFetched: as Publish.
LEMMA PublishFetchedKeeps ==
  ASSUME RefreshInvariant, NEW c \in Clients, PublishFetched(c)
  PROVE  RefreshInvariant'
  <1> USE RefreshAssumption
  <1>0. TypeOK /\ LockIsExclusive /\ Past /\ Knows(c) BY DEF RefreshInvariant
  <1>a. fetched[c] \in 0 .. server /\ fetched[c] \in Nat /\ published + 1 \in Nat 
      /\ now \in Nat /\ Need[c] \in SUBSET Packages
    BY <1>0 DEF PublishFetched, TypeOK, Knows, Holds
  <1> DEFINE v == [rev |-> published + 1, version |-> fetched[c], at |-> now,
                   covers |-> Need[c], intact |-> TRUE]
  <1>b. v \in Views BY <1>a, PublishedType
  <1>c. view' = v /\ published' = published + 1 /\ answer' = [answer EXCEPT ![c] = v]
    BY DEF PublishFetched, PublishView
  <1>1. TypeOK'
    BY <1>0, <1>a, <1>b, <1>c DEF PublishFetched, Goto, world, TypeOK, Steps, LockedSteps
  <1>2. LockIsExclusive'
    BY <1>0, LockKept DEF PublishFetched, Goto, PublishView, world, Steps, LockedSteps, Ended
  <1>3. Past'
    <2>1. view' # NoView BY <1>b, <1>c, SentinelAssumption
    <2>2. view'.rev = published' /\ view'.version = fetched[c] /\ view'.at = now BY <1>c
    <2>3. raw' = raw /\ now' = now /\ server' = server BY DEF PublishFetched, world
    <2> QED BY <1>0, <1>a, <2>1, <2>2, <2>3 DEF Past, TypeOK
  <1>4. Grows
    BY <1>0 DEF PublishFetched, Goto, PublishView, world, TypeOK, Grows
  <1>5. \A d \in Clients \ {c} : SameOf(d)
    BY <1>0 DEF PublishFetched, Goto, PublishView, world, TypeOK, SameOf
  <1>6. OnPath(c)'
    BY <1>0 DEF PublishFetched, Goto, PublishView, world, TypeOK, Knows, OnPath
  <1>7. Remembers(c)'
    BY <1>0, NoProbeType DEF PublishFetched, Goto, PublishView, world, TypeOK, Knows,
       Remembers, Past, Probes
  <1>8. Holds(c)'
    BY <1>0 DEF PublishFetched, Goto, PublishView, world, TypeOK, Knows, Holds
  <1>9. pc'[c] \in {"finish", "done"} => RightAnswer(c)'
    BY <1>0, <1>a, <1>b, <1>c DEF PublishFetched, Goto, PublishView, world, TypeOK, Knows,
       OnPath, Remembers, Holds, RightAnswer
  <1> QED BY <1>1, <1>2, <1>3, <1>4, <1>5, <1>6, <1>7, <1>8, <1>9, StepKeeps DEF Knows

\* ReadLock: the lock is taken.
LEMMA ReadLockKeeps ==
  ASSUME RefreshInvariant, NEW c \in Clients, ReadLock(c)
  PROVE  RefreshInvariant'
  <1> USE RefreshAssumption
  <1>0. TypeOK /\ LockIsExclusive /\ Past /\ Knows(c) BY DEF RefreshInvariant
  <1>1. TypeOK'
    BY <1>0 DEF ReadLock, Goto, Take, world, own, TypeOK, Steps, LockedSteps, Ended
  <1>2. LockIsExclusive'
    BY <1>0, LockKept DEF ReadLock, Goto, Take, world, own, Steps, LockedSteps, Ended
  <1>3. Past'
    BY <1>0 DEF ReadLock, Goto, Take, world, own, TypeOK, Past
  <1>4. Grows
    BY <1>0 DEF ReadLock, Goto, Take, world, own, TypeOK, Grows
  <1>5. \A d \in Clients \ {c} : SameOf(d)
    BY <1>0 DEF ReadLock, Goto, Take, world, own, TypeOK, SameOf
  <1>6. OnPath(c)'
    BY <1>0 DEF ReadLock, Goto, Take, world, own, TypeOK, Knows, OnPath
  <1>7. Remembers(c)'
    BY <1>0, NoProbeType DEF ReadLock, Goto, Take, world, own, TypeOK, Knows, Remembers, Past,
       Probes
  <1>8. Holds(c)'
    BY <1>0 DEF ReadLock, Goto, Take, world, own, TypeOK, Knows, Holds
  <1>9. pc'[c] \in {"finish", "done"} => RightAnswer(c)'
    BY <1>0 DEF ReadLock, Goto, Take, world, own, TypeOK
  <1> QED BY <1>1, <1>2, <1>3, <1>4, <1>5, <1>6, <1>7, <1>8, <1>9, StepKeeps DEF Knows

\* Read: any readable view that covers the request.
LEMMA ReadKeeps ==
  ASSUME RefreshInvariant, NEW c \in Clients, Read(c)
  PROVE  RefreshInvariant'
  <1> USE RefreshAssumption
  <1>0. TypeOK /\ LockIsExclusive /\ Past /\ Knows(c) BY DEF RefreshInvariant
  <1>a. Readable => /\ view \in Views /\ view.rev \in Nat /\ view.version \in Nat /\ view.at \in Nat
                   /\ view.rev = published
    BY <1>0, ReadableType
  <1>c. (Resolve(c, view) /\ view \in Views) \/ Fail(c)
    BY <1>a DEF Read
  <1>d. UNCHANGED <<now, server, view, published, raw, kind, policyNow, began>>
    BY DEF Read, world
  <1>1. TypeOK'
    <2>1. CASE Resolve(c, view) /\ view \in Views
      BY <1>0, <1>d, <2>1, NoProbeType DEF Resolve, End, Goto, Drop, TypeOK, Steps,
         LockedSteps, Ended
    <2>2. CASE Fail(c)
      BY <1>0, <1>d, <2>2, NoProbeType DEF Fail, End, Goto, Drop, TypeOK, Steps, LockedSteps,
         Ended
    <2> QED BY <1>c, <2>1, <2>2
  <1>2. LockIsExclusive'
    BY <1>0, LockKept DEF Read, Goto, Drop, End, Resolve, Fail, world, Steps, LockedSteps, Ended
  <1>3. Past'
    BY <1>0 DEF Read, Goto, Drop, End, Resolve, Fail, world, TypeOK, Past
  <1>4. Grows
    BY <1>0 DEF Read, Goto, Drop, End, Resolve, Fail, world, TypeOK, Grows
  <1>5. \A d \in Clients \ {c} : SameOf(d)
    BY <1>0 DEF Read, Goto, Drop, End, Resolve, Fail, world, TypeOK, SameOf
  <1>6. OnPath(c)'
    BY <1>0 DEF Read, Goto, Drop, End, Resolve, Fail, world, TypeOK, Knows, OnPath
  <1>7. Remembers(c)'
    BY <1>0, NoProbeType DEF Read, Goto, Drop, End, Resolve, Fail, world, TypeOK, Knows,
       Remembers, Past, Probes
  <1>8. Holds(c)'
    BY <1>0 DEF Read, Goto, Drop, End, Resolve, Fail, world, TypeOK, Knows, Holds
  <1>9. pc'[c] \in {"finish", "done"} => RightAnswer(c)'
    BY <1>0, <1>a DEF Read, Goto, Drop, End, Resolve, Fail, world, Covers, TypeOK, Knows,
       OnPath, RightAnswer
  <1> QED BY <1>1, <1>2, <1>3, <1>4, <1>5, <1>6, <1>7, <1>8, <1>9, StepKeeps DEF Knows

\* StepFails: the call ends and lets go of the lock.
LEMMA StepFailsKeeps ==
  ASSUME RefreshInvariant, NEW c \in Clients, StepFails(c)
  PROVE  RefreshInvariant'
  <1> USE RefreshAssumption
  <1>0. TypeOK /\ LockIsExclusive /\ Past /\ Knows(c) BY DEF RefreshInvariant
  <1>1. TypeOK'
    BY <1>0, NoProbeType DEF StepFails, Goto, Drop, End, Fail, world, TypeOK, Steps,
       LockedSteps, Ended
  <1>2. LockIsExclusive'
    BY <1>0, LockKept DEF StepFails, Goto, Drop, End, Fail, world, Steps, LockedSteps, Ended
  <1>3. Past'
    BY <1>0 DEF StepFails, Goto, Drop, End, Fail, world, TypeOK, Past
  <1>4. Grows
    BY <1>0 DEF StepFails, Goto, Drop, End, Fail, world, TypeOK, Grows
  <1>5. \A d \in Clients \ {c} : SameOf(d)
    BY <1>0 DEF StepFails, Goto, Drop, End, Fail, world, TypeOK, SameOf
  <1>6. OnPath(c)'
    BY <1>0 DEF StepFails, Goto, Drop, End, Fail, world, TypeOK, Knows, OnPath
  <1>7. Remembers(c)'
    BY <1>0, NoProbeType DEF StepFails, Goto, Drop, End, Fail, world, TypeOK, Knows, Remembers,
       Past, Probes
  <1>8. Holds(c)'
    BY <1>0 DEF StepFails, Goto, Drop, End, Fail, world, TypeOK, Knows, Holds
  <1>9. pc'[c] \in {"finish", "done"} => RightAnswer(c)'
    BY <1>0 DEF StepFails, Goto, Drop, End, Fail, world, TypeOK
  <1> QED BY <1>1, <1>2, <1>3, <1>4, <1>5, <1>6, <1>7, <1>8, <1>9, StepKeeps DEF Knows

\* Die: the call ends and lets go of the lock.
LEMMA DieKeeps ==
  ASSUME RefreshInvariant, NEW c \in Clients, Die(c)
  PROVE  RefreshInvariant'
  <1> USE RefreshAssumption
  <1>0. TypeOK /\ LockIsExclusive /\ Past /\ Knows(c) BY DEF RefreshInvariant
  <1>1. TypeOK'
    BY <1>0, NoProbeType DEF Die, Goto, Drop, End, Fail, world, TypeOK, Steps, LockedSteps,
       Ended
  <1>2. LockIsExclusive'
    BY <1>0, LockKept DEF Die, Goto, Drop, End, Fail, world, Steps, LockedSteps, Ended
  <1>3. Past'
    BY <1>0 DEF Die, Goto, Drop, End, Fail, world, TypeOK, Past
  <1>4. Grows
    BY <1>0 DEF Die, Goto, Drop, End, Fail, world, TypeOK, Grows
  <1>5. \A d \in Clients \ {c} : SameOf(d)
    BY <1>0 DEF Die, Goto, Drop, End, Fail, world, TypeOK, SameOf
  <1>6. OnPath(c)'
    BY <1>0 DEF Die, Goto, Drop, End, Fail, world, TypeOK, Knows, OnPath
  <1>7. Remembers(c)'
    BY <1>0, NoProbeType DEF Die, Goto, Drop, End, Fail, world, TypeOK, Knows, Remembers, Past,
       Probes
  <1>8. Holds(c)'
    BY <1>0 DEF Die, Goto, Drop, End, Fail, world, TypeOK, Knows, Holds
  <1>9. pc'[c] \in {"finish", "done"} => RightAnswer(c)'
    BY <1>0 DEF Die, Goto, Drop, End, Fail, world, TypeOK
  <1> QED BY <1>1, <1>2, <1>3, <1>4, <1>5, <1>6, <1>7, <1>8, <1>9, StepKeeps DEF Knows

-----------------------------------------------------------------------------
(* The steps of the world, and a stuttering step.                          *)

\* Nobody moves: the types, the lock, the past and the growth are enough.
LEMMA WorldKeeps ==
  ASSUME RefreshInvariant, TypeOK', Past', Grows,
         UNCHANGED <<lock, pc, kind, policyNow, probe, fetched, answer, began>>
  PROVE  RefreshInvariant'
  <1>1. LockIsExclusive' BY DEF RefreshInvariant, LockIsExclusive
  <1>2. ASSUME NEW d \in Clients PROVE Knows(d)'
    BY <1>2, OthersKnow DEF RefreshInvariant, SameOf
  <1> QED BY <1>1, <1>2 DEF RefreshInvariant

\* Tick: the clock grows.
LEMMA TickKeeps == RefreshInvariant /\ Tick => RefreshInvariant'
  <1> SUFFICES ASSUME RefreshInvariant, Tick PROVE RefreshInvariant' OBVIOUS
  <1>0. TypeOK /\ Past BY DEF RefreshInvariant
  <1>1. TypeOK' BY <1>0, RefreshAssumption DEF Tick, TypeOK, own
  <1>2. view \in Views => view.at \in Nat BY DEF Views
  <1>3. Past' BY <1>0, <1>2, RefreshAssumption DEF Tick, TypeOK, Responses, Past, own
  <1> QED BY <1>0, <1>1, <1>3, RefreshAssumption, WorldKeeps DEF Tick, own, Grows, TypeOK

\* ServerChanges: the version grows.
LEMMA ServerChangesKeeps == RefreshInvariant /\ ServerChanges => RefreshInvariant'
  <1> SUFFICES ASSUME RefreshInvariant, ServerChanges PROVE RefreshInvariant' OBVIOUS
  <1>0. TypeOK /\ Past BY DEF RefreshInvariant
  <1>1. TypeOK' BY <1>0, RefreshAssumption DEF ServerChanges, TypeOK, own
  <1>2. view \in Views => view.version \in Nat BY DEF Views
  <1>3. Past' BY <1>0, <1>2, RefreshAssumption DEF ServerChanges, TypeOK, Responses, Past, own
  <1> QED BY <1>0, <1>1, <1>3, RefreshAssumption, WorldKeeps
      DEF ServerChanges, own, Grows, TypeOK

\* A view that was damaged is the same view, unreadable.
LEMMA DamagedView ==
  ASSUME NEW v \in Views
  PROVE  /\ [v EXCEPT !.intact = FALSE] \in Views
         /\ [v EXCEPT !.intact = FALSE].rev = v.rev
         /\ [v EXCEPT !.intact = FALSE].version = v.version
         /\ [v EXCEPT !.intact = FALSE].at = v.at
  BY DEF Views

\* Damage: an unreadable view has the revision, the version and the date it had.
LEMMA DamageKeeps == RefreshInvariant /\ Damage => RefreshInvariant'
  <1> SUFFICES ASSUME RefreshInvariant, Damage PROVE RefreshInvariant' OBVIOUS
  <1>0. TypeOK /\ Past BY DEF RefreshInvariant
  <1>1. view \in Views /\ view # NoView BY <1>0 DEF Damage, Readable, TypeOK
  <1>2. /\ view' \in Views /\ view'.rev = view.rev
        /\ view'.version = view.version /\ view'.at = view.at
    BY <1>1, DamagedView DEF Damage
  <1>3. view' # NoView BY <1>2, SentinelAssumption
  <1>4. UNCHANGED <<now, server, published, raw, lock, pc, kind, policyNow, probe, fetched,
                    answer, began>>
    BY DEF Damage, world, own
  <1>5. TypeOK' BY <1>0, <1>2, <1>4 DEF TypeOK
  <1>6. Past' BY <1>0, <1>1, <1>2, <1>3, <1>4 DEF Past
  <1> QED BY <1>0, <1>4, <1>5, <1>6, RefreshAssumption, WorldKeeps DEF Grows, TypeOK

\* A stuttering step preserves the invariant.
LEMMA StutterKeeps == RefreshInvariant /\ UNCHANGED vars => RefreshInvariant'
  <1> SUFFICES ASSUME RefreshInvariant, UNCHANGED vars PROVE RefreshInvariant' OBVIOUS
  <1>1. TypeOK' /\ Past' BY DEF RefreshInvariant, TypeOK, Past, vars
  <1> QED BY <1>1, RefreshAssumption, WorldKeeps DEF Grows, RefreshInvariant, TypeOK, vars

-----------------------------------------------------------------------------
(* The theorems.                                                           *)

\* The view of an earlier call is a view.
LEMMA FirstView ==
  ASSUME NEW v \in [rev : {1}, version : {0}, at : {0},
                    covers : {Need[c] : c \in Clients}, intact : {TRUE}]
  PROVE  v \in Views /\ v.rev = 1 /\ v.version = 0 /\ v.at = 0
  <1>1. {Need[c] : c \in Clients} \subseteq SUBSET Packages BY RefreshAssumption
  <1>2. v.rev = 1 /\ v.version = 0 /\ v.at = 0 OBVIOUS
  <1>3. v.covers \in SUBSET Packages BY <1>1
  <1>4. v.intact \in BOOLEAN OBVIOUS
  <1>5. v = [rev |-> v.rev, version |-> v.version, at |-> v.at, covers |-> v.covers,
             intact |-> v.intact]
    OBVIOUS
  <1> QED BY <1>2, <1>3, <1>4, <1>5 DEF Views

\* The invariant holds in every initial state.
LEMMA InitHolds == Init => RefreshInvariant
  <1> SUFFICES ASSUME Init PROVE RefreshInvariant OBVIOUS
  <1> USE RefreshAssumption
  <1>1. TypeOK
    <2>1. \/ view = NoView /\ published = 0
          \/ /\ view \in [rev : {1}, version : {0}, at : {0},
                           covers : {Need[c] : c \in Clients}, intact : {TRUE}]
             /\ published = 1
      BY Zenon DEF Init
    <2>2. published = 0 \/ published = 1 BY <2>1, Zenon
    <2>3. published \in Nat BY <2>2
    <2>4. view \in Views \cup {NoView} BY <2>1, FirstView, Zenon
    <2>5. [version |-> 0, at |-> 0] \in Responses BY DEF Responses
    <2>6. raw = Nothing \/ raw = [version |-> 0, at |-> 0] BY Zenon DEF Init
    <2>7. raw \in Responses \cup {Nothing} BY <2>5, <2>6
    <2>8. probe \in [Clients -> Probes] BY NoProbeType DEF Init
    <2>9. now \in 0 .. MaxTime /\ server \in 0 .. MaxVersion BY DEF Init
    <2>10. pc \in [Clients -> Steps] /\ lock \in Clients \cup {NoClient} BY DEF Init, Steps
    <2>11. policyNow \in [Clients -> Nat] /\ began \in [Clients -> [server : Nat, rev : Nat]]
      BY DEF Init
    <2>12. /\ fetched \in [Clients -> Nat \cup {Nothing}]
          /\ answer \in [Clients -> Views \cup {Nothing}]
          /\ kind \in [Clients -> AllKinds]
      BY DEF Init
    <2> QED BY <2>3, <2>4, <2>8, <2>7, <2>9, <2>10, <2>11, <2>12 DEF TypeOK
  <1>2. LockIsExclusive BY DEF Init, LockIsExclusive, LockedSteps
  <1>3. Past
    <2>1. CASE view = NoView /\ published = 0 /\ raw = Nothing BY <2>1 DEF Past
    <2>2. CASE /\ view \in [rev : {1}, version : {0}, at : {0},
                            covers : {Need[c] : c \in Clients}, intact : {TRUE}]
               /\ published = 1
               /\ raw \in {Nothing, [version |-> 0, at |-> 0]}
      <3>1. view.rev = 1 /\ view.version = 0 /\ view.at = 0 /\ view \in Views
        BY <2>2, FirstView
      <3>2. raw # Nothing => raw.version = 0 /\ raw.at = 0 BY <2>2
      <3> QED BY <2>2, <3>1, <3>2, SentinelAssumption DEF Past, Init
    <2> QED BY <2>1, <2>2 DEF Init
  <1>4. ASSUME NEW c \in Clients PROVE Knows(c)
    <2>1. pc[c] = "start" /\ ~probe[c].valid BY NoProbeType DEF Init
    <2>2. policyNow[c] = 0 /\ began[c].server = 0 /\ began[c].rev = 0 BY DEF Init
    <2>3. now = 0 /\ server = 0 /\ published \in Nat BY <1>1 DEF Init, TypeOK
    <2> QED BY <2>1, <2>2, <2>3 DEF Knows, OnPath, Remembers, Holds
  <1> QED BY <1>1, <1>2, <1>3, <1>4 DEF RefreshInvariant

\* Every step of a client and of the world preserves it.
LEMMA NextKeeps == RefreshInvariant /\ [Next]_vars => RefreshInvariant'
  <1> SUFFICES ASSUME RefreshInvariant, [Next]_vars PROVE RefreshInvariant' OBVIOUS
  <1>1. ASSUME NEW c \in Clients, Step(c) PROVE RefreshInvariant'
    BY <1>1, StartKeeps, ObserveKeeps, PreflightKeeps, WarmKeeps, BeginKeeps, InspectKeeps,
       AcquireKeeps, PublishKeeps, PublishFailsKeeps, FinishKeeps, LookLockKeeps, LookKeeps,
       FetchKeeps, PublishLockKeeps, PublishFetchedKeeps, ReadLockKeeps, ReadKeeps DEF Step
  <1>2. ASSUME NEW c \in Clients, StepFails(c) \/ Die(c) PROVE RefreshInvariant'
    BY <1>2, StepFailsKeeps, DieKeeps
  <1>3. CASE Tick \/ ServerChanges \/ Damage BY <1>3, TickKeeps, ServerChangesKeeps, DamageKeeps
  <1>4. CASE AllEnded \/ UNCHANGED vars BY <1>4, StutterKeeps DEF AllEnded
  <1> QED BY <1>1, <1>2, <1>3, <1>4 DEF Next

\* The types, the exclusive refresh lock and what every process may rely on hold always.
THEOREM RefreshIsSound == Spec => []RefreshInvariant
  BY InitHolds, NextKeeps, PTL DEF Spec

\* --refresh-metadata never resolves against what was there before the call.
THEOREM ForcedCallsAreCurrent == Spec => []ForcedIsCurrent
  <1>1. RefreshInvariant => ForcedIsCurrent
    BY DEF RefreshInvariant, Knows, RightAnswer, ForcedIsCurrent
  <1> QED BY <1>1, RefreshIsSound, PTL

\* A call resolves against metadata that covers its own request.
THEOREM CallsAreCovered == Spec => []AnswersCoverTheRequest
  <1>1. RefreshInvariant => AnswersCoverTheRequest
    BY DEF RefreshInvariant, Knows, RightAnswer, AnswersCoverTheRequest
  <1> QED BY <1>1, RefreshIsSound, PTL

\* An online call resolves against a view no older than the lifetime when it started.
THEOREM OnlineCallsAreFresh == Spec => []OnlineIsFresh
  <1>1. RefreshInvariant => OnlineIsFresh
    BY DEF RefreshInvariant, Knows, RightAnswer, OnlineIsFresh
  <1> QED BY <1>1, RefreshIsSound, PTL

-----------------------------------------------------------------------------
(* Metadata fetched under the lock moves forward.                          *)

NobodyPrepares == \A c \in Clients : kind[c] \notin Preparing

\* A step that leaves the view and the cached response alone and brings nobody to publish.
Quiet ==
  /\ view' = view /\ raw' = raw /\ kind' = kind
  /\ \A d \in Clients : pc'[d] = "publish" => pc[d] = "publish" /\ fetched'[d] = fetched[d]

\* A step that publishes nothing keeps the newest view cached.
LEMMA QuietKeeps ==
  ASSUME CachedIsNewest, Quiet
  PROVE  CachedIsNewest'
  BY DEF CachedIsNewest, Quiet

\* All steps of a process but Acquire, Publish and PublishFetched are quiet.
LEMMA MostAreQuiet ==
  ASSUME TypeOK, NEW c \in Clients,
         \/ Start(c) \/ Observe(c) \/ Preflight(c) \/ Warm(c) \/ Begin(c) \/ Inspect(c)
         \/ PublishFails(c) \/ Finish(c) \/ LookLock(c) \/ Look(c) \/ Fetch(c)
         \/ PublishLock(c) \/ ReadLock(c) \/ Read(c) \/ StepFails(c) \/ Die(c)
  PROVE  Quiet
  <1>1. CASE Start(c)
    <2>1. kind[c] \in AllKinds BY DEF TypeOK
    <2>2. pc' = [pc EXCEPT ![c] = "observe"] \/ pc' = [pc EXCEPT ![c] = "lookLock"]
            \/ pc' = [pc EXCEPT ![c] = "readLock"]
      BY <1>1, <2>1 DEF Start, Goto, AllKinds
    <2> QED BY <1>1, <2>2 DEF Start, Quiet, TypeOK
  <1>2. CASE Observe(c)
    BY <1>2 DEF Observe, Goto, Quiet, TypeOK
  <1>3. CASE Preflight(c)
    BY <1>3 DEF Preflight, Goto, Take, own, Quiet, TypeOK
  <1>4. CASE Warm(c)
    BY <1>4 DEF Warm, Goto, Drop, End, Resolve, Quiet, TypeOK
  <1>5. CASE Begin(c)
    BY <1>5 DEF Begin, Goto, Take, own, Quiet, TypeOK
  <1>6. CASE Inspect(c)
    BY <1>6 DEF Inspect, Goto, Quiet, TypeOK
  <1>7. CASE PublishFails(c)
    BY <1>7 DEF PublishFails, Goto, Drop, End, Fail, Quiet, TypeOK
  <1>8. CASE Finish(c)
    BY <1>8 DEF Finish, Goto, Drop, End, Resolve, Quiet, TypeOK
  <1>9. CASE LookLock(c)
    BY <1>9 DEF LookLock, Goto, Take, own, Quiet, TypeOK
  <1>10. CASE Look(c)
    BY <1>10 DEF Look, Goto, Drop, End, Resolve, Fail, Quiet, TypeOK
  <1>11. CASE Fetch(c)
    BY <1>11 DEF Fetch, Goto, Quiet, TypeOK
  <1>12. CASE PublishLock(c)
    BY <1>12 DEF PublishLock, Goto, Take, own, Quiet, TypeOK
  <1>13. CASE ReadLock(c)
    BY <1>13 DEF ReadLock, Goto, Take, own, Quiet, TypeOK
  <1>14. CASE Read(c)
    BY <1>14 DEF Read, Goto, Drop, End, Resolve, Fail, Quiet, TypeOK
  <1>15. CASE StepFails(c)
    BY <1>15 DEF StepFails, Goto, Drop, End, Fail, Quiet, TypeOK
  <1>16. CASE Die(c)
    BY <1>16 DEF Die, Goto, Drop, End, Fail, Quiet, TypeOK
  <1> QED BY <1>1, <1>2, <1>3, <1>4, <1>5, <1>6, <1>7, <1>8, <1>9, <1>10, <1>11, <1>12, <1>13,
  <1>14, <1>15, <1>16

\* Acquire: the cached response is the newest there is, and nobody else is publishing.
LEMMA AcquireCaches ==
  ASSUME RefreshInvariant, CachedIsNewest, NEW c \in Clients, Acquire(c)
  PROVE  CachedIsNewest'
  <1> SUFFICES ASSUME NobodyPrepares PROVE CachedIsNewest'
    BY DEF CachedIsNewest, NobodyPrepares, Acquire
  <1>0. TypeOK /\ LockIsExclusive /\ Past BY DEF RefreshInvariant
  <1>1. view' = view /\ view \in Views \cup {NoView} BY <1>0 DEF Acquire, TypeOK
  <1>2. view \in Views => view.version \in Nat BY DEF Views
  <1>3. lock = c BY <1>0 DEF Acquire, LockIsExclusive, LockedSteps
  <1>4. raw' # Nothing /\ fetched'[c] = raw'.version
        /\ (view # NoView => view.version <= raw'.version)
    <2>1. CASE RawReusable(c)
      BY <1>0, <2>1 DEF Acquire, RawReusable, TypeOK, Responses, CachedIsNewest, NobodyPrepares
    <2>2. CASE ~RawReusable(c)
      <3>1. raw' = [version |-> server, at |-> now] /\ fetched'[c] = server
        BY <1>0, <2>2 DEF Acquire, TypeOK
      <3>2. server \in Nat /\ now \in Nat BY <1>0, RefreshAssumption DEF TypeOK
      <3>3. raw' \in Responses BY <3>1, <3>2 DEF Responses
      <3>4. raw' # Nothing BY <3>3, SentinelAssumption
      <3> QED BY <1>0, <3>1, <3>4 DEF Past
    <2> QED BY <2>1, <2>2
  <1>5. ASSUME NEW d \in Clients, pc'[d] = "publish" PROVE d = c
    BY <1>0, <1>3, <1>5 DEF Acquire, Goto, TypeOK, LockIsExclusive, LockedSteps
  <1> QED BY <1>1, <1>4, <1>5 DEF CachedIsNewest

\* Publish: the view becomes the cached response, and nobody else is publishing.
LEMMA PublishCaches ==
  ASSUME RefreshInvariant, CachedIsNewest, NEW c \in Clients, Publish(c), NobodyPrepares
  PROVE  /\ view'.version = raw.version /\ raw' = raw
         /\ view # NoView => view.version <= view'.version
         /\ CachedIsNewest'
  <1>0. TypeOK /\ LockIsExclusive BY DEF RefreshInvariant
  <1>1. raw # Nothing /\ fetched[c] = raw.version /\ (view # NoView => view.version <= raw.version)
    BY DEF Publish, CachedIsNewest, NobodyPrepares
  <1>2. view'.version = raw.version /\ raw' = raw BY <1>1 DEF Publish, PublishView
  <1>3. raw.version \in Nat BY <1>0, <1>1 DEF TypeOK, Responses
  <1>4. lock = c BY <1>0 DEF Publish, LockIsExclusive, LockedSteps
  <1>5. ASSUME NEW d \in Clients PROVE pc'[d] # "publish"
    BY <1>0, <1>4, <1>5 DEF Publish, Goto, TypeOK, LockIsExclusive, LockedSteps
  <1>6. CachedIsNewest' BY <1>2, <1>3, <1>5 DEF CachedIsNewest
  <1> QED BY <1>1, <1>2, <1>6

\* What a step may do to the view and to the cached response, without preparing calls.
LEMMA NextCaches ==
  ASSUME RefreshInvariant, CachedIsNewest, [Next]_vars
  PROVE  /\ CachedIsNewest'
         /\ NobodyPrepares /\ view # NoView => view'.version >= view.version
  <1>0. TypeOK /\ (\A c \in Clients : Knows(c)) BY DEF RefreshInvariant
  <1>1. view # NoView => view \in Views /\ view.version \in Nat BY <1>0 DEF TypeOK, Views
  <1>2. kind' = kind => (NobodyPrepares <=> NobodyPrepares') BY DEF NobodyPrepares
  <1>3. Quiet => CachedIsNewest' /\ (view # NoView => view'.version >= view.version)
    BY <1>1, QuietKeeps DEF Quiet
  <1>4. ASSUME NEW c \in Clients, Step(c) \/ StepFails(c) \/ Die(c)
        PROVE  CachedIsNewest' /\ (NobodyPrepares /\ view # NoView => view'.version >= view.version)
    <2>1. CASE Acquire(c) BY <1>1, <2>1, AcquireCaches DEF Acquire
    <2>2. CASE Publish(c)
      <3>1. CASE NobodyPrepares BY <1>1, <2>2, <3>1, PublishCaches DEF Publish
      <3>2. CASE ~NobodyPrepares BY <2>2, <3>2 DEF Publish, CachedIsNewest, NobodyPrepares
      <3> QED BY <3>1, <3>2
    <2>3. CASE PublishFetched(c)
      <3>1. ~NobodyPrepares BY <1>0, <2>3 DEF PublishFetched, Knows, OnPath, NobodyPrepares
      <3> QED BY <2>3, <3>1 DEF PublishFetched, CachedIsNewest, NobodyPrepares
    <2>4. CASE \/ Start(c) \/ Observe(c) \/ Preflight(c) \/ Warm(c) \/ Begin(c) \/ Inspect(c)
               \/ PublishFails(c) \/ Finish(c) \/ LookLock(c) \/ Look(c) \/ Fetch(c)
               \/ PublishLock(c) \/ ReadLock(c) \/ Read(c) \/ StepFails(c) \/ Die(c)
      BY <1>0, <1>3, <2>4, MostAreQuiet
    <2> QED BY <1>4, <2>1, <2>2, <2>3, <2>4 DEF Step
  <1>5. CASE Tick \/ ServerChanges \/ AllEnded \/ UNCHANGED vars
    <2>1. Quiet BY <1>5 DEF Tick, ServerChanges, AllEnded, vars, own, Quiet
    <2> QED BY <1>3, <2>1
  <1>6. CASE Damage
    <2>1. view \in Views /\ view # NoView BY <1>0, <1>6 DEF Damage, Readable, TypeOK
    <2>2. view'.version = view.version BY <1>6, <2>1, DamagedView DEF Damage
    <2>3. UNCHANGED <<raw, kind, pc, fetched>> BY <1>6 DEF Damage, own
    <2> QED BY <1>1, <2>1, <2>2, <2>3 DEF CachedIsNewest
  <1> QED BY <1>4, <1>5, <1>6 DEF Next

\* As long as nobody prepares a loader, the selected view never goes back to older metadata.
THEOREM RefreshMovesForward == Spec => LockedRefreshMovesForward
  <1>1. Init => CachedIsNewest
    <2> SUFFICES ASSUME Init PROVE CachedIsNewest OBVIOUS
    <2>1. view # NoView =>
            view \in [rev : {1}, version : {0}, at : {0},
                      covers : {Need[c] : c \in Clients}, intact : {TRUE}]
      BY Zenon DEF Init
    <2>2. view # NoView => view.version = 0 BY <2>1, FirstView
    <2>3. raw = Nothing \/ raw = [version |-> 0, at |-> 0] BY Zenon DEF Init
    <2>4. raw # Nothing => raw.version = 0 BY <2>3
    <2>5. \A c \in Clients : pc[c] = "start" BY DEF Init
    <2> QED BY <2>2, <2>4, <2>5 DEF CachedIsNewest
  <1>2. RefreshInvariant /\ CachedIsNewest /\ [Next]_vars => CachedIsNewest' BY NextCaches
  <1>3. RefreshInvariant /\ CachedIsNewest /\ [Next]_vars
          => [NobodyPrepares /\ view # NoView => view'.version >= view.version]_vars
    BY NextCaches
  <1> QED BY <1>1, <1>2, <1>3, RefreshIsSound, PTL
          DEF Spec, LockedRefreshMovesForward, NobodyPrepares

=============================================================================
