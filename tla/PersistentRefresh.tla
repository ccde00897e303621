-------------------------- MODULE PersistentRefresh --------------------------
(***************************************************************************)
(* The persistent refresh of CRAN metadata: processes that resolve against *)
(* one endpoint of a shared snapshot store (prepared_snapshot.rs,          *)
(* refresher.rs, persistent_cache.rs).  A process reads the selected view, *)
(* decides whether it is fresh, and otherwise acquires metadata and        *)
(* publishes a new view.  The store is taken at its contract (see          *)
(* ViewRegister): one selected view per endpoint, replaced at once, read   *)
(* and written under the refresh lock, which dies with its holder.         *)
(*                                                                         *)
(* Time is counted in seconds, as `duration_since(..).as_secs()` counts    *)
(* it.  Metadata is the version the server had when it was fetched and     *)
(* the set of packages it covers.                                          *)
(***************************************************************************)
EXTENDS Naturals, FiniteSets

CONSTANTS
  Clients,      \* processes
  Packages,     \* package names
  Need,         \* [Clients -> SUBSET Packages]: the dependency closure of the request
  Kinds,        \* [Clients -> SUBSET AllKinds]: the entry points a process may use
  TTL,          \* DEFAULT_COMPATIBLE_GENERATION_TTL, in seconds
  MaxTime,      \* bound on the clock
  MaxVersion,   \* bound on the versions of the server's metadata
  MayFail,      \* requests, reads of the store and publications may fail
  MayDie,       \* processes may be killed
  MayDamage,    \* the selected generation may become unreadable
  NoClient, NoView, Nothing

\* online, forced: resolve_request_from_cran_with_store_at_policy_with_progress without
\* and with --refresh-metadata.  prepare, prepareForced, prepareOffline: the loader of one
\* repository of a manifest.  offline: the legacy --offline resolution.
AllKinds == {"online", "forced", "prepare", "prepareForced", "prepareOffline", "offline"}
Forced == {"forced", "prepareForced"}
Preparing == {"prepare", "prepareForced", "prepareOffline"}

ASSUME RefreshAssumption ==
  /\ Need \in [Clients -> SUBSET Packages]
  /\ Kinds \in [Clients -> SUBSET AllKinds]
  /\ TTL \in Nat /\ MaxTime \in Nat /\ MaxVersion \in Nat
  /\ {MayFail, MayDie, MayDamage} \subseteq BOOLEAN
  /\ NoClient \notin Clients

Views == [rev : Nat, version : Nat, at : Nat, covers : SUBSET Packages, intact : BOOLEAN]
Responses == [version : Nat, at : Nat]   \* of the raw cache
\* Neither sentinel is a view or a response: both come without the fields of one.
ASSUME SentinelAssumption ==
  NoView \notin Views /\ Nothing \notin Views /\ Nothing \notin Responses

VARIABLES
  now,          \* the clock
  server,       \* version of the metadata the server has now
  view,         \* the selected view of the endpoint
  published,    \* number of publications so far: the refresh sequence
  raw,          \* [version, at] of the cached response, or Nothing
  lock,         \* holder of the refresh lock, or NoClient
  pc, kind,
  policyNow,    \* CranSnapshotCachePolicy.now: the clock when the process started
  probe,        \* PersistentRefreshProbe
  fetched,      \* version in the memory of the session, or Nothing
  answer,       \* the loader the process resolves against: a view pinned for good
  began         \* history: what the server and the store had when the process started

vars == <<now, server, view, published, raw, lock, pc, kind, policyNow, probe, fetched,
          answer, began>>
world == <<now, server>>
own == <<policyNow, probe, fetched, answer>>

Readable == view # NoView /\ view.intact

LockedSteps == {"warm", "inspect", "acquire", "publish", "finish", "look", "publishFetched", "read"}
Ended == {"done", "failed"}   \* a killed process counts as failed
Steps == LockedSteps \cup Ended \cup
         {"start", "observe", "preflight", "begin", "lookLock", "fetch", "publishLock", "readLock"}
NoProbe == [valid |-> FALSE, revision |-> 0]
Probes == [valid : BOOLEAN, revision : Nat]   \* revision 0: no head was found

TypeOK ==
  /\ now \in 0 .. MaxTime /\ server \in 0 .. MaxVersion
  /\ view \in Views \cup {NoView} /\ published \in Nat
  /\ raw \in Responses \cup {Nothing}
  /\ lock \in Clients \cup {NoClient}
  /\ pc \in [Clients -> Steps] /\ kind \in [Clients -> AllKinds]
  /\ policyNow \in [Clients -> Nat] /\ probe \in [Clients -> Probes]
  /\ fetched \in [Clients -> Nat \cup {Nothing}]
  /\ answer \in [Clients -> Views \cup {Nothing}]
  /\ began \in [Clients -> [server : Nat, rev : Nat]]

-----------------------------------------------------------------------------
(* Reads of the store.                                                     *)

\* Mutant: only a view dated in the future is not fresh.
FreshWithoutAge(c) == Readable /\ view.at <= policyNow[c]

\* inspect_cran_snapshot_cache_from_reads: a view dated after policy.now is never fresh.
Fresh(c) == Readable /\ view.at <= policyNow[c] /\ policyNow[c] - view.at <= TTL
Covers(c) == Need[c] \subseteq view.covers

\* The revision token of the locked read, None (here 0) when the view is rejected.
LockedRevision == IF Readable THEN view.rev ELSE 0
\* Mutant: any readable view counts as a completed refresh.
CompletedWithoutComparison(c) == probe[c].valid /\ LockedRevision # 0

RefreshCompletedAfterWait(c) ==
  /\ probe[c].valid
  /\ LockedRevision # 0
  /\ probe[c].revision # LockedRevision

-----------------------------------------------------------------------------
Goto(c, step) == pc' = [pc EXCEPT ![c] = step]
Take(c) == lock = NoClient /\ lock' = c
Drop(c) == lock' = IF lock = c THEN NoClient ELSE lock

\* The end of a call: its session, its probe and its guard of the lock are dropped.
End(c, step) ==
  /\ Goto(c, step) /\ Drop(c)
  /\ fetched' = [fetched EXCEPT ![c] = Nothing]
  /\ probe' = [probe EXCEPT ![c] = NoProbe]
\* The process resolves against the loader it has.
Resolve(c, v) == End(c, "done") /\ answer' = [answer EXCEPT ![c] = v]
Fail(c) == End(c, "failed") /\ answer' = [answer EXCEPT ![c] = Nothing]

Start(c) ==
  /\ pc[c] = "start"
  /\ policyNow' = [policyNow EXCEPT ![c] = now]
  /\ began' = [began EXCEPT ![c] = [server |-> server, rev |-> published]]
  /\ Goto(c, CASE kind[c] \in {"online", "forced"} -> "observe"
               [] kind[c] \in Preparing -> "lookLock"
               [] kind[c] = "offline" -> "readLock")
  /\ UNCHANGED <<world, view, published, raw, lock, kind, probe, fetched, answer>>

\* preflight_refresh: the heads are observed without the lock, and only decoded.
Observe(c) ==
  /\ pc[c] = "observe"
  /\ \/ probe' = [probe EXCEPT ![c] =
                    [valid |-> TRUE, revision |-> IF view = NoView THEN 0 ELSE view.rev]]
     \/ MayFail /\ probe' = [probe EXCEPT ![c] = NoProbe]
  /\ Goto(c, "preflight")
  /\ UNCHANGED <<world, view, published, raw, lock, kind, policyNow, fetched, answer, began>>

\* inspect_cran_snapshot_cache_without_wait: a busy lock is no answer, and no wait.
Preflight(c) ==
  /\ pc[c] = "preflight"
  /\ \/ Take(c) /\ Goto(c, "warm")
     \/ lock # NoClient /\ Goto(c, "begin") /\ UNCHANGED lock
  /\ UNCHANGED <<world, view, published, raw, kind, own, began>>

\* The warm path: a fresh view that resolves the request is used as it is.
Warm(c) ==
  /\ pc[c] = "warm"
  /\ IF kind[c] = "online" /\ Fresh(c) /\ Covers(c)
     THEN Resolve(c, view)
     ELSE Goto(c, "begin") /\ Drop(c) /\ UNCHANGED <<probe, fetched, answer>>
  /\ UNCHANGED <<world, view, published, raw, kind, policyNow, began>>

\* begin_persistent_refresh waits for the lock.
Begin(c) ==
  /\ pc[c] = "begin"
  /\ Take(c) /\ Goto(c, "inspect")
  /\ UNCHANGED <<world, view, published, raw, kind, own, began>>

\* The decision under the lock, with the policy.now of the start of the process.
Reusable(c) ==
  /\ kind[c] = "forced" => RefreshCompletedAfterWait(c)
  /\ Fresh(c) /\ Covers(c)

Inspect(c) ==
  /\ pc[c] = "inspect"
  /\ IF Reusable(c)
     THEN answer' = [answer EXCEPT ![c] = view] /\ Goto(c, "finish")
     ELSE Goto(c, "acquire") /\ UNCHANGED answer
  /\ UNCHANGED <<world, view, published, raw, lock, kind, policyNow, probe, fetched, began>>

\* The transaction's refresh_packages, with the raw cache attached: a response that is
\* younger than its lifetime is used without a request, unless the refresh is forced.
RawReusable(c) == kind[c] # "forced" /\ raw # Nothing /\ now - raw.at < TTL

\* Mutant: the response is not written back to the raw cache.
AcquireWithoutCaching(c) ==
  /\ pc[c] = "acquire"
  /\ fetched' = [fetched EXCEPT ![c] = IF RawReusable(c) THEN raw.version ELSE server]
  /\ raw' = IF raw = Nothing THEN [version |-> server, at |-> now] ELSE raw
  /\ Goto(c, "publish")
  /\ UNCHANGED <<world, view, published, lock, kind, policyNow, probe, answer, began>>

Acquire(c) ==
  /\ pc[c] = "acquire"
  /\ IF RawReusable(c)
     THEN fetched' = [fetched EXCEPT ![c] = raw.version] /\ UNCHANGED raw
     ELSE /\ fetched' = [fetched EXCEPT ![c] = server]
          /\ raw' = [version |-> server, at |-> now]
  /\ Goto(c, "publish")
  /\ UNCHANGED <<world, view, published, lock, kind, policyNow, probe, answer, began>>

\* publish_snapshot_with_endpoint_and_refresh_guard: the view is dated when it is composed,
\* covers what this process asked for, and needs the previous head to be readable.
PublishView(c) ==
  LET v == [rev |-> published + 1, version |-> fetched[c], at |-> now,
            covers |-> Need[c], intact |-> TRUE]
  IN /\ view = NoView \/ Readable
     /\ view' = v
     /\ published' = published + 1
     /\ answer' = [answer EXCEPT ![c] = v]

Publish(c) ==
  /\ pc[c] = "publish"
  /\ PublishView(c) /\ Goto(c, "finish")
  /\ UNCHANGED <<world, raw, lock, kind, policyNow, probe, fetched, began>>

\* Mutant: a publication that fails is tried again from the acquisition.
PublishFailsRetrying(c) ==
  /\ pc[c] \in {"publish", "publishFetched"}
  /\ view # NoView /\ ~Readable
  /\ Goto(c, "acquire")
  /\ UNCHANGED <<world, view, published, raw, lock, kind, own, began>>

\* A publication over an unreadable head fails, whatever else happens.
PublishFails(c) ==
  /\ pc[c] \in {"publish", "publishFetched"}
  /\ view # NoView /\ ~Readable
  /\ Fail(c)
  /\ UNCHANGED <<world, view, published, raw, kind, policyNow, began>>

\* Mutant: the selected view is read again after the lock was dropped.
FinishRereading(c) ==
  /\ pc[c] = "finish"
  /\ \/ lock = c /\ lock' = NoClient /\ UNCHANGED <<pc, probe, fetched, answer>>
     \/ lock # c /\ view # NoView /\ Resolve(c, view)
  /\ UNCHANGED <<world, view, published, raw, kind, policyNow, began>>

\* drop(transaction), then the resolution against the pinned loader.
Finish(c) ==
  /\ pc[c] = "finish"
  /\ Resolve(c, answer[c])
  /\ UNCHANGED <<world, view, published, raw, kind, policyNow, began>>

-----------------------------------------------------------------------------
(* prepare_cran_repository_loader_with_optional_demands: the metadata is   *)
(* fetched without the lock and without the raw cache.                     *)

LookLock(c) ==
  /\ pc[c] = "lookLock"
  /\ Take(c) /\ Goto(c, "look")
  /\ UNCHANGED <<world, view, published, raw, kind, own, began>>

Look(c) ==
  /\ pc[c] = "look"
  /\ \/ /\ kind[c] = "prepareOffline" /\ Readable /\ Covers(c)
        /\ Resolve(c, view)
     \/ /\ kind[c] = "prepareOffline" /\ ~(Readable /\ Covers(c))
        /\ Fail(c)
     \/ /\ kind[c] = "prepare" /\ Fresh(c) /\ Covers(c)
        /\ Resolve(c, view)
     \/ /\ kind[c] = "prepareForced" \/ (kind[c] = "prepare" /\ ~(Fresh(c) /\ Covers(c)))
        /\ Goto(c, "fetch") /\ Drop(c) /\ UNCHANGED <<probe, fetched, answer>>
  /\ UNCHANGED <<world, view, published, raw, kind, policyNow, began>>

Fetch(c) ==
  /\ pc[c] = "fetch"
  /\ fetched' = [fetched EXCEPT ![c] = server]
  /\ Goto(c, "publishLock")
  /\ UNCHANGED <<world, view, published, raw, lock, kind, policyNow, probe, answer, began>>

\* refresh_and_publish_snapshot takes the lock and publishes what the session holds.
PublishLock(c) ==
  /\ pc[c] = "publishLock"
  /\ Take(c) /\ Goto(c, "publishFetched")
  /\ UNCHANGED <<world, view, published, raw, kind, own, began>>

PublishFetched(c) ==
  /\ pc[c] = "publishFetched"
  /\ PublishView(c) /\ Goto(c, "finish")
  /\ UNCHANGED <<world, raw, lock, kind, policyNow, probe, fetched, began>>

-----------------------------------------------------------------------------
(* The legacy offline resolution: any readable view will do.               *)

ReadLock(c) ==
  /\ pc[c] = "readLock"
  /\ Take(c) /\ Goto(c, "read")
  /\ UNCHANGED <<world, view, published, raw, kind, own, began>>

Read(c) ==
  /\ pc[c] = "read"
  /\ IF Readable /\ Covers(c)
     THEN Resolve(c, view)
     ELSE Fail(c)
  /\ UNCHANGED <<world, view, published, raw, kind, policyNow, began>>

-----------------------------------------------------------------------------
(* Faults and the world.                                                   *)

\* A request or a publication fails: the error ends the call and drops the lock.
StepFails(c) ==
  /\ MayFail
  /\ pc[c] \in {"acquire", "publish", "fetch", "publishFetched"}
  /\ Fail(c)
  /\ UNCHANGED <<world, view, published, raw, kind, policyNow, began>>

\* The death of a process that does not hold the lock changes nothing for the others.
Die(c) ==
  /\ MayDie
  /\ pc[c] \in LockedSteps
  /\ Fail(c)
  /\ UNCHANGED <<world, view, published, raw, kind, policyNow, began>>

Tick ==
  /\ now < MaxTime
  /\ now' = now + 1
  /\ UNCHANGED <<server, view, published, raw, lock, pc, kind, own, began>>

ServerChanges ==
  /\ server < MaxVersion
  /\ server' = server + 1
  /\ UNCHANGED <<now, view, published, raw, lock, pc, kind, own, began>>

Damage ==
  /\ MayDamage /\ Readable
  /\ view' = [view EXCEPT !.intact = FALSE]
  /\ UNCHANGED <<world, published, raw, lock, pc, kind, own, began>>

Step(c) ==
  \/ Start(c) \/ Observe(c) \/ Preflight(c) \/ Warm(c) \/ Begin(c) \/ Inspect(c)
  \/ Acquire(c) \/ Publish(c) \/ PublishFails(c) \/ Finish(c)
  \/ LookLock(c) \/ Look(c) \/ Fetch(c) \/ PublishLock(c) \/ PublishFetched(c)
  \/ ReadLock(c) \/ Read(c)

\* The store is new, or an earlier call has published for some request.
Init ==
  /\ now = 0 /\ server = 0
  /\ \/ view = NoView /\ published = 0 /\ raw = Nothing
     \/ /\ view \in [rev : {1}, version : {0}, at : {0},
                     covers : {Need[c] : c \in Clients}, intact : {TRUE}]
        /\ published = 1
        /\ raw \in {Nothing, [version |-> 0, at |-> 0]}
  /\ lock = NoClient
  /\ pc = [c \in Clients |-> "start"]
  /\ kind \in [Clients -> AllKinds] /\ \A c \in Clients : kind[c] \in Kinds[c]
  /\ policyNow = [c \in Clients |-> 0]
  /\ probe = [c \in Clients |-> NoProbe]
  /\ fetched = [c \in Clients |-> Nothing]
  /\ answer = [c \in Clients |-> Nothing]
  /\ began = [c \in Clients |-> [server |-> 0, rev |-> 0]]

AllEnded == (\A c \in Clients : pc[c] \in Ended) /\ UNCHANGED vars

Next ==
  \/ \E c \in Clients : Step(c) \/ StepFails(c) \/ Die(c)
  \/ Tick \/ ServerChanges \/ Damage
  \/ AllEnded

Spec == Init /\ [][Next]_vars

\* A running process keeps running.  Every process makes one call, so the lock is free
\* for good in the end and weak fairness is enough for those that wait for it.
FairSpec == Spec /\ \A c \in Clients : WF_vars(Step(c))

-----------------------------------------------------------------------------
(* Properties.                                                             *)

\* --refresh-metadata: what a forced call resolves against was fetched after it started,
\* or was published by another process after it started; never what was there before.
ForcedIsCurrent ==
  \A c \in Clients :
    pc[c] = "done" /\ kind[c] \in Forced =>
      answer[c].version >= began[c].server \/ answer[c].rev > began[c].rev

\* A call resolves against metadata that covers its own request, although other processes
\* with other requests replace the selected view at any moment after it let go of the lock.
AnswersCoverTheRequest ==
  \A c \in Clients : pc[c] = "done" => Need[c] \subseteq answer[c].covers

\* An online call without --refresh-metadata resolves against a view no older than the TTL
\* when it started, or against what was fetched for it.
OnlineIsFresh ==
  \A c \in Clients :
    pc[c] = "done" /\ kind[c] \in {"online", "prepare"} =>
      policyNow[c] <= answer[c].at + TTL

\* Metadata fetched under the lock never replaces newer metadata, as long as no process
\* prepares a repository loader (those fetch before they take the lock).
LockedRefreshMovesForward ==
  [][ (\A c \in Clients : kind[c] \notin Preparing) /\ view # NoView
        => view'.version >= view.version ]_vars

\* Every call returns.
EveryCallReturns == \A c \in Clients : <>(pc[c] \in Ended)

=============================================================================
