--------------------------- MODULE GitCacheProofs ---------------------------
(***************************************************************************)
(* The Git source cache, for any number of processes, requests, trees and  *)
(* faults: what a published view holds, which commit a call answers with   *)
(* and which DESCRIPTION it projects.                                      *)
(***************************************************************************)
EXTENDS Metadata, TLAPS

-----------------------------------------------------------------------------
(* The invariant.                                                          *)

CallFields == {"pc", "request", "commit", "since", "todo", "facts", "description"}
ViewFields == {"files", "synced", "digest", "marker", "durable"}

(* The places of a call: with its source lock, with an answer, under way.  *)
Held == {"read", "stage", "create", "write", "sync", "publish", "durable", "validate"}
Answering == Held \cup {"origin", "rename_origin", "shared", "source", "acquired", "described"}
Busy == Answering \cup {"local", "resolve", "fetch", "stable"}

Typed ==
    /\ DOMAIN call = Calls /\ \A c \in Calls : DOMAIN call[c] = CallFields
    /\ DOMAIN staging = Git!Keys /\ DOMAIN views = Git!Keys /\ DOMAIN sources = Git!Keys

Whole(k) == Git!Subtree(k[1], k[2])

(* A staging directory to which only the files of todo are missing.        *)
Partial(s, k, todo) ==
    /\ DOMAIN s = {"files", "synced"}
    /\ todo \subseteq DOMAIN Whole(k) /\ DOMAIN s.files = DOMAIN Whole(k) \ todo
    /\ \A p \in DOMAIN s.files : s.files[p] = Whole(k)[p]

(* A view as it was published, but for what something outside changed.     *)
WholeView(v, k) ==
    /\ DOMAIN v = ViewFields /\ v.synced = TRUE /\ v.digest = Whole(k)
    /\ DOMAIN v.files = DOMAIN Whole(k)
    /\ \A p \in DOMAIN v.files : v.files[p] \in {Whole(k)[p], -1}

(* The commit is the one the selector named since it was fetched.          *)
Asking(c) ==
    /\ call[c].pc \in Busy => call[c].request \in Requests
    /\ call[c].pc = "local" => call[c].request.offline
    /\ call[c].pc = "fetch" /\ Git!is_full_oid_selector(call[c].request) =>
          call[c].commit = call[c].request.oid
    /\ call[c].pc = "stable" => Git!resolve(refs, call[c].request) \in call[c].since
    /\ call[c].pc \in Answering \cup {"stable"} => call[c].commit \in Git!Commits
    /\ call[c].pc \in Answering /\ ~call[c].request.offline => call[c].commit \in call[c].since

(* The holder of a source lock is the only one to build the view.          *)
Building(c) ==
    /\ call[c].pc \in Held => sources[Git!Key(c)] = c
    /\ call[c].pc \in {"stage", "create"} => call[c].todo = DOMAIN Whole(Git!Key(c))
    /\ call[c].pc = "write" => Partial(staging[Git!Key(c)], Git!Key(c), call[c].todo)
    /\ call[c].pc \in {"sync", "publish"} => Partial(staging[Git!Key(c)], Git!Key(c), {})
    /\ call[c].pc = "publish" => staging[Git!Key(c)].synced = TRUE
    /\ call[c].pc \in {"durable", "validate"} => WholeView(views[Git!Key(c)], Git!Key(c))

(* What a call remembers of the view it validated is the commit's tree.    *)
Remembering(c) ==
    /\ call[c].pc \in {"acquired", "described"} => call[c].facts = Whole(Git!Key(c))
    /\ call[c].pc = "described" /\ call[c].description # None =>
          call[c].description = Whole(Git!Key(c))[Description]

GoodCall(c) == Asking(c) /\ Building(c) /\ Remembering(c)

GitInvariant ==
    /\ \A c \in Calls : GoodCall(c)
    /\ \A k \in Git!Keys : views[k] # None => WholeView(views[k], k)

-----------------------------------------------------------------------------
(* Frames.                                                                 *)

(* A call that is over, or has not begun, promises nothing.                *)
LEMMA RestIsGood ==
  ASSUME NEW c \in Calls, call'[c].pc \in {"idle", "failed"}
  PROVE  GoodCall(c)'
BY DEF GoodCall, Asking, Building, Remembering, Busy, Answering, Held

(* A call under way has a key.                                             *)
LEMMA HasKey ==
  ASSUME NEW c \in Calls, GoodCall(c), call[c].pc \in Answering
  PROVE  Git!Key(c) \in Git!Keys
<1>1. call[c].commit \in Git!Commits /\ call[c].request \in Requests
  BY DEF GoodCall, Asking, Busy
<1> QED
  BY <1>1 DEF Git!Key, Git!Keys

(* A call is not disturbed by what leaves its key alone.                   *)
LEMMA Undisturbed ==
  ASSUME NEW d \in Calls, GoodCall(d), call'[d] = call[d], refs' = refs,
         call[d].pc \in Held =>
            /\ sources'[Git!Key(d)] = sources[Git!Key(d)] /\ staging'[Git!Key(d)] = staging[Git!Key(d)]
            /\ views'[Git!Key(d)] = views[Git!Key(d)] \/ WholeView(views'[Git!Key(d)], Git!Key(d))
  PROVE  GoodCall(d)'
<1>1. Git!Key(d)' = Git!Key(d)
  BY DEF Git!Key
<1>2. Asking(d)'
  BY DEF GoodCall, Asking
<1>3. Building(d)'
  <2>1. Building(d)
    BY DEF GoodCall
  <2>2. call[d].pc \in {"durable", "validate"} => WholeView(views'[Git!Key(d)], Git!Key(d))
    BY <2>1 DEF Building, Held
  <2> QED
    BY <1>1, <2>1, <2>2 DEF Building, Held
<1>4. Remembering(d)'
  BY <1>1 DEF GoodCall, Remembering
<1> QED
  BY <1>2, <1>3, <1>4 DEF GoodCall

(* Only the call c has moved.                                              *)
Only(c) ==
    /\ DOMAIN call' = Calls /\ \A d \in Calls : DOMAIN call'[d] = CallFields
    /\ \A d \in Calls : d # c => call'[d] = call[d]

(* A step that touches no view leaves the other calls alone, whatever      *)
(* locks of its own it takes or gives back.                                *)
LEMMA QuietStep ==
  ASSUME None \notin Calls, Typed, GitInvariant, NEW c \in Calls, Only(c), GoodCall(c)',
         UNCHANGED <<refs, staging, views>>, DOMAIN sources' = Git!Keys,
         \A k \in Git!Keys : sources[k] \notin {c, None} => sources'[k] = sources[k]
  PROVE  Typed' /\ GitInvariant'
<1>1. Typed'
  BY DEF Typed, Only
<1>2. ASSUME NEW d \in Calls, d # c PROVE GoodCall(d)'
  <2>1. GoodCall(d) /\ call'[d] = call[d]
    BY <1>2 DEF GitInvariant, Only
  <2>2. call[d].pc \in Held => Git!Key(d) \in Git!Keys /\ sources[Git!Key(d)] = d
    BY <2>1, HasKey DEF GoodCall, Building, Answering
  <2>3. call[d].pc \in Held => sources'[Git!Key(d)] = sources[Git!Key(d)]
    BY <1>2, <2>2
  <2> QED
    BY <2>1, <2>3, Undisturbed
<1>3. \A k \in Git!Keys : views'[k] # None => WholeView(views'[k], k)
  BY DEF GitInvariant
<1> QED
  BY <1>1, <1>2, <1>3 DEF GitInvariant

(* The holder of a source lock builds its view.                            *)
LEMMA HeldStep ==
  ASSUME None \notin Calls, Typed, GitInvariant, NEW c \in Calls, Only(c), GoodCall(c)',
         call[c].pc \in Held, UNCHANGED <<refs, sources>>, DOMAIN staging' = Git!Keys, DOMAIN views' = Git!Keys,
         \A k \in Git!Keys : k # Git!Key(c) => staging'[k] = staging[k] /\ views'[k] = views[k],
         views'[Git!Key(c)] # None => WholeView(views'[Git!Key(c)], Git!Key(c))
  PROVE  Typed' /\ GitInvariant'
<1>1. Typed'
  BY DEF Typed, Only
<1>2. ASSUME NEW d \in Calls, d # c PROVE GoodCall(d)'
  <2>1. GoodCall(d) /\ GoodCall(c) /\ call'[d] = call[d]
    BY <1>2 DEF GitInvariant, Only
  <2>2. call[d].pc \in Held => Git!Key(d) \in Git!Keys /\ sources[Git!Key(d)] = d
    BY <2>1, HasKey DEF GoodCall, Building, Answering
  <2>3. sources[Git!Key(c)] = c
    BY <2>1 DEF GoodCall, Building
  <2>4. call[d].pc \in Held => staging'[Git!Key(d)] = staging[Git!Key(d)] /\ views'[Git!Key(d)] = views[Git!Key(d)]
    BY <1>2, <2>2, <2>3
  <2> QED
    BY <2>1, <2>4, Undisturbed
<1>3. \A k \in Git!Keys : views'[k] # None => WholeView(views'[k], k)
  BY DEF GitInvariant
<1> QED
  BY <1>1, <1>2, <1>3 DEF GitInvariant

(* Locks given back are one's own.                                         *)
LEMMA Released ==
  ASSUME NEW c \in Calls, Git!Release(c)
  PROVE  /\ DOMAIN sources' = Git!Keys
         /\ \A k \in Git!Keys : sources[k] \notin {c, None} => sources'[k] = sources[k]
BY DEF Git!Release

(* A call that fails.                                                      *)
LEMMA FailKeeps ==
  ASSUME None \notin Calls, Typed, GitInvariant, NEW c \in Calls, Git!Fail(c), UNCHANGED <<refs, staging, views>>
  PROVE  Typed' /\ GitInvariant'
<1>1. call' = [call EXCEPT ![c] = [Git!NoCall EXCEPT !.pc = "failed"]] /\ Git!Release(c)
  BY DEF Git!Fail
<1>2. PICK r : r = [Git!NoCall EXCEPT !.pc = "failed"]
  OBVIOUS
<1>3. DOMAIN r = CallFields /\ r.pc = "failed"
  BY <1>2 DEF Git!NoCall, CallFields
<1>4. Only(c) /\ call'[c].pc = "failed"
  BY <1>1, <1>2, <1>3 DEF Typed, Only
<1> QED
  BY <1>1, <1>4, Released, RestIsGood, QuietStep

(* A call that moves and remembers nothing new.                            *)
LEMMA Going ==
  ASSUME Typed, NEW c \in Calls, NEW pc, Git!Goto(c, pc)
  PROVE  /\ Only(c) /\ call'[c].pc = pc /\ call'[c].request = call[c].request
         /\ call'[c].commit = call[c].commit /\ call'[c].since = call[c].since
         /\ call'[c].todo = call[c].todo /\ call'[c].facts = call[c].facts
         /\ call'[c].description = call[c].description /\ Git!Key(c)' = Git!Key(c)
<1>1. PICK r : r = [call[c] EXCEPT !.pc = pc]
  OBVIOUS
<1>2. /\ DOMAIN r = CallFields /\ r.pc = pc /\ r.request = call[c].request
      /\ r.commit = call[c].commit /\ r.since = call[c].since
      /\ r.todo = call[c].todo /\ r.facts = call[c].facts /\ r.description = call[c].description
  BY <1>1 DEF Typed, CallFields
<1>3. call' = [call EXCEPT ![c] = r]
  BY <1>1 DEF Git!Goto, Typed
<1>4. Only(c) /\ call'[c] = r
  BY <1>2, <1>3 DEF Only, Typed
<1> QED
  BY <1>2, <1>4 DEF Git!Key

-----------------------------------------------------------------------------
(* Under the repository lock.                                              *)

(* A call starts, with a request and without a commit.                     *)
LEMMA AcquireKeeps ==
  ASSUME None \notin Calls, Typed, GitInvariant, NEW c \in Calls, Git!Acquire(c)
  PROVE  Typed' /\ GitInvariant'
<1>1. UNCHANGED <<refs, staging, views>>
  BY DEF Git!Acquire, Git!remote, Git!disk
<1>2. CASE Git!Fail(c)
  BY <1>1, <1>2, FailKeeps
<1>3. ASSUME NEW r \in Requests, UNCHANGED sources,
             call' = [call EXCEPT ![c].request = r,
                                  ![c].pc = IF r.offline THEN "local" ELSE "resolve"]
      PROVE  Typed' /\ GitInvariant'
  <2>1. Only(c)
    BY <1>3 DEF Only, Typed, CallFields
  <2>2. call'[c].request = r /\ call'[c].pc = IF r.offline THEN "local" ELSE "resolve"
    BY <1>3 DEF Typed, CallFields
  <2>3. Asking(c)'
    BY <2>2 DEF Asking, Busy, Answering, Held
  <2>4. Building(c)' /\ Remembering(c)'
    BY <2>2 DEF Building, Remembering, Held
  <2> QED
    BY <1>1, <1>3, <2>1, <2>3, <2>4, QuietStep DEF GoodCall, Typed
<1> QED
  BY <1>2, <1>3 DEF Git!Acquire

(* Offline the commit is the one asked for.                                *)
LEMMA LocalKeeps ==
  ASSUME None \notin Calls, Typed, GitInvariant, NEW c \in Calls, Git!Local(c)
  PROVE  Typed' /\ GitInvariant'
<1>1. UNCHANGED <<refs, staging, views>> /\ call[c].pc = "local"
  BY DEF Git!Local, Git!remote, Git!disk
<1>2. CASE Git!Fail(c)
  BY <1>1, <1>2, FailKeeps
<1>3. CASE ~Git!Fail(c)
  <2>1. /\ call' = [call EXCEPT ![c].commit = call[c].request.oid, ![c].pc = "shared"]
        /\ Git!Release(c) /\ call[c].request.oid \in Git!Commits
    BY <1>3 DEF Git!Local
  <2>2. Only(c)
    BY <2>1 DEF Only, Typed, CallFields
  <2>3. /\ call'[c].request = call[c].request /\ call'[c].pc = "shared"
        /\ call'[c].commit = call[c].request.oid
    BY <2>1 DEF Typed, CallFields
  <2>4. call[c].request \in Requests /\ call[c].request.offline
    BY <1>1 DEF GitInvariant, GoodCall, Asking, Busy
  <2>5. Asking(c)'
    BY <2>1, <2>3, <2>4 DEF Asking, Answering, Held
  <2>6. Building(c)' /\ Remembering(c)'
    BY <2>3 DEF Building, Remembering, Held
  <2> QED
    BY <1>1, <2>1, <2>2, <2>5, <2>6, Released, QuietStep DEF GoodCall
<1> QED
  BY <1>2, <1>3

(* The selector is resolved; an object id names itself.                    *)
LEMMA ResolveKeeps ==
  ASSUME None \notin Calls, Typed, GitInvariant, NEW c \in Calls, Git!Resolve(c)
  PROVE  Typed' /\ GitInvariant'
<1>1. UNCHANGED <<refs, staging, views>> /\ call[c].pc = "resolve"
  BY DEF Git!Resolve, Git!remote, Git!disk
<1>2. CASE Git!Fail(c)
  BY <1>1, <1>2, FailKeeps
<1>3. CASE ~Git!Fail(c)
  <2>0. PICK oid : oid = Git!resolve(refs, call[c].request)
    OBVIOUS
  <2>1. call' = [call EXCEPT ![c].commit = oid, ![c].pc = "fetch"] /\ UNCHANGED sources
    BY <1>3, <2>0 DEF Git!Resolve, Git!locks
  <2>2. Only(c)
    BY <2>1 DEF Only, Typed, CallFields
  <2>3. call'[c].request = call[c].request /\ call'[c].pc = "fetch" /\ call'[c].commit = oid
    BY <2>1 DEF Typed, CallFields
  <2>4. call[c].request \in Requests
    BY <1>1 DEF GitInvariant, GoodCall, Asking, Busy
  <2>5. Git!is_full_oid_selector(call[c].request) => oid = call[c].request.oid
    BY <2>0 DEF Git!resolve
  <2>6. Asking(c)'
    BY <2>3, <2>4, <2>5 DEF Asking, Answering, Held, Git!is_full_oid_selector
  <2>7. Building(c)' /\ Remembering(c)'
    BY <2>3 DEF Building, Remembering, Held
  <2> QED
    BY <1>1, <2>1, <2>2, <2>6, <2>7, QuietStep DEF GoodCall, Typed
<1> QED
  BY <1>2, <1>3

(* From the fetch on, what the selector names is remembered.               *)
LEMMA FetchKeeps ==
  ASSUME None \notin Calls, Typed, GitInvariant, NEW c \in Calls, Git!Fetch(c)
  PROVE  Typed' /\ GitInvariant'
<1>1. UNCHANGED <<refs, staging, views>> /\ call[c].pc = "fetch"
  BY DEF Git!Fetch, Git!remote
<1>2. CASE Git!Fail(c)
  BY <1>1, <1>2, FailKeeps
<1>3. CASE ~Git!Fail(c)
  <2> DEFINE full == Git!is_full_oid_selector(call[c].request)
  <2>0. PICK named : named = Git!resolve(refs, call[c].request)
    OBVIOUS
  <2>1. /\ call' = [call EXCEPT ![c].since = {named}, ![c].pc = IF full THEN "origin" ELSE "stable"]
        /\ UNCHANGED sources /\ call[c].commit \in Git!Commits
    BY <1>3, <2>0 DEF Git!Fetch, Git!locks
  <2>2. Only(c)
    BY <2>1 DEF Only, Typed, CallFields
  <2>3. /\ call'[c].request = call[c].request /\ call'[c].commit = call[c].commit
        /\ call'[c].since = {named} /\ call'[c].pc = IF full THEN "origin" ELSE "stable"
    BY <2>1 DEF Typed, CallFields
  <2>4. /\ call[c].request \in Requests
        /\ full => call[c].commit = call[c].request.oid
    BY <1>1 DEF GitInvariant, GoodCall, Asking, Busy
  <2>5. full => named = call[c].commit
    BY <2>0, <2>4 DEF Git!resolve
  <2>6. Git!resolve(refs, call[c].request)' = named
    BY <1>1, <2>0, <2>3
  <2>7. Asking(c)'
    <3> HIDE DEF full
    <3>1. call'[c].request \in Requests /\ call'[c].commit \in Git!Commits
      BY <2>1, <2>3, <2>4
    <3>2. CASE full
      <4>1. call'[c].pc = "origin" /\ call'[c].commit \in call'[c].since
        BY <2>3, <2>5, <3>2
      <4> QED
        BY <3>1, <4>1 DEF Asking, Answering, Held
    <3>3. CASE ~full
      <4>1. call'[c].pc = "stable" /\ Git!resolve(refs, call[c].request)' \in call'[c].since
        BY <2>3, <2>6, <3>3
      <4> QED
        BY <3>1, <4>1 DEF Asking, Answering, Held
    <3> QED
      BY <3>2, <3>3
  <2>8. Building(c)' /\ Remembering(c)'
    BY <2>3 DEF Building, Remembering, Held
  <2> QED
    BY <1>1, <2>1, <2>2, <2>7, <2>8, QuietStep DEF GoodCall, Typed
<1> QED
  BY <1>2, <1>3

(* The selector still names the commit.                                    *)
LEMMA StableKeeps ==
  ASSUME None \notin Calls, Typed, GitInvariant, NEW c \in Calls, Git!Stable(c)
  PROVE  Typed' /\ GitInvariant'
<1>1. UNCHANGED <<refs, staging, views>> /\ call[c].pc = "stable"
  BY DEF Git!Stable, Git!remote, Git!disk
<1>2. CASE Git!Fail(c)
  BY <1>1, <1>2, FailKeeps
<1>3. CASE ~Git!Fail(c)
  <2>1. Git!Goto(c, "origin") /\ UNCHANGED sources /\ Git!resolve(refs, call[c].request) = call[c].commit
    BY <1>3 DEF Git!Stable, Git!locks, Git!verify_selector_stable
  <2>2. /\ call[c].request \in Requests /\ call[c].commit \in Git!Commits
        /\ Git!resolve(refs, call[c].request) \in call[c].since
    BY <1>1 DEF GitInvariant, GoodCall, Asking, Busy
  <2>3. Asking(c)'
    BY <2>1, <2>2, Going DEF Asking, Answering, Held
  <2>4. Building(c)' /\ Remembering(c)'
    BY <2>1, Going DEF Building, Remembering, Held
  <2> QED
    BY <1>1, <2>1, <2>3, <2>4, Going, QuietStep DEF GoodCall, Typed
<1> QED
  BY <1>2, <1>3

(* A call that keeps its commit on the way to its source lock.             *)
LEMMA OnTheWay ==
  ASSUME None \notin Calls, Typed, GitInvariant, NEW c \in Calls, call[c].pc \in Answering,
         NEW to \in {"rename_origin", "shared", "source"}, Git!Goto(c, to),
         UNCHANGED <<refs, staging, views>>, DOMAIN sources' = Git!Keys,
         \A k \in Git!Keys : sources[k] \notin {c, None} => sources'[k] = sources[k]
  PROVE  Typed' /\ GitInvariant'
<1>1. Asking(c)
  BY DEF GitInvariant, GoodCall
<1>2. Asking(c)'
  BY <1>1, Going DEF Asking, Busy, Answering, Held
<1>3. Building(c)' /\ Remembering(c)'
  BY Going DEF Building, Remembering, Held
<1> QED
  BY <1>2, <1>3, Going, QuietStep DEF GoodCall

(* origin.toml is written and renamed, and the repository lock given back. *)
LEMMA WriteOriginKeeps ==
  ASSUME None \notin Calls, Typed, GitInvariant, NEW c \in Calls, Git!WriteOrigin(c) \/ Git!RenameOrigin(c)
  PROVE  Typed' /\ GitInvariant'
<1>1. UNCHANGED <<refs, staging, views>> /\ call[c].pc \in Answering
  BY DEF Git!WriteOrigin, Git!RenameOrigin, Git!remote, Answering
<1>2. CASE Git!Goto(c, "shared") /\ Git!Release(c)
  BY <1>1, <1>2, Released, OnTheWay
<1>3. CASE Git!Goto(c, "rename_origin") /\ UNCHANGED Git!locks
  BY <1>1, <1>3, OnTheWay DEF Git!locks, Typed
<1> QED
  BY <1>2, <1>3 DEF Git!WriteOrigin, Git!RenameOrigin

(* The repository is locked again, shared.                                 *)
LEMMA LockSharedKeeps ==
  ASSUME None \notin Calls, Typed, GitInvariant, NEW c \in Calls, Git!LockShared(c)
  PROVE  Typed' /\ GitInvariant'
<1>1. UNCHANGED <<refs, staging, views, sources>> /\ call[c].pc \in Answering /\ Git!Goto(c, "source")
  BY DEF Git!LockShared, Git!remote, Git!disk, Answering
<1> QED
  BY <1>1, OnTheWay DEF Typed

-----------------------------------------------------------------------------
(* Under the source lock.                                                  *)

(* What a step that keeps request, commit and since preserves.             *)
LEMMA AskingKept ==
  ASSUME NEW c \in Calls, Asking(c), call[c].pc \in Answering, call'[c].pc \in Answering,
         call'[c].request = call[c].request, call'[c].commit = call[c].commit, call'[c].since = call[c].since
  PROVE  Asking(c)' /\ Git!Key(c)' = Git!Key(c)
<1>1. Git!Key(c)' = Git!Key(c)
  BY DEF Git!Key
<1>2. Asking(c)'
  BY DEF Asking, Busy, Answering, Held
<1> QED
  BY <1>1, <1>2

(* A source lock is taken when nobody has it.                              *)
LEMMA LockSourceKeeps ==
  ASSUME None \notin Calls, Typed, GitInvariant, NEW c \in Calls, Git!LockSource(c)
  PROVE  Typed' /\ GitInvariant'
<1>1. /\ UNCHANGED <<refs, staging, views>> /\ call[c].pc = "source" /\ Git!Goto(c, "read")
      /\ sources[Git!Key(c)] = None /\ sources' = [sources EXCEPT ![Git!Key(c)] = c]
  BY DEF Git!LockSource, Git!remote, Git!disk
<1>2. GoodCall(c) /\ Git!Key(c) \in Git!Keys
  BY <1>1, HasKey DEF GitInvariant, Answering
<1>3. Asking(c)' /\ Git!Key(c)' = Git!Key(c)
  BY <1>1, <1>2, Going, AskingKept DEF GoodCall, Answering, Held
<1>4. DOMAIN sources' = Git!Keys /\ sources'[Git!Key(c)] = c
  BY <1>1, <1>2 DEF Typed
<1>5. \A k \in Git!Keys : sources[k] \notin {c, None} => sources'[k] = sources[k]
  BY <1>1 DEF Typed
<1>6. Building(c)' /\ Remembering(c)'
  BY <1>1, <1>3, <1>4, Going DEF Building, Remembering, Held
<1> QED
  BY <1>1, <1>3, <1>4, <1>5, <1>6, Going, QuietStep DEF GoodCall

(* The tree is read; the view is validated, or built when there is none.   *)
LEMMA ReadTreeKeeps ==
  ASSUME None \notin Calls, Typed, GitInvariant, NEW c \in Calls, Git!ReadTree(c)
  PROVE  Typed' /\ GitInvariant'
<1>1. UNCHANGED <<refs, staging, views>> /\ call[c].pc = "read"
  BY DEF Git!ReadTree, Git!remote, Git!disk
<1>2. CASE Git!Fail(c)
  BY <1>1, <1>2, FailKeeps
<1>3. CASE ~Git!Fail(c)
  <2>0. PICK to, todo : /\ to = IF views[Git!Key(c)] # None THEN "validate" ELSE "stage"
                        /\ todo = IF views[Git!Key(c)] # None THEN {} ELSE DOMAIN Whole(Git!Key(c))
    OBVIOUS
  <2>1. call' = [call EXCEPT ![c].pc = to, ![c].todo = todo] /\ UNCHANGED sources
    BY <1>3, <2>0 DEF Git!ReadTree, Git!locks, Whole
  <2>2. Only(c)
    BY <2>1 DEF Only, Typed, CallFields
  <2>3. /\ call'[c].request = call[c].request /\ call'[c].commit = call[c].commit
        /\ call'[c].since = call[c].since /\ call'[c].pc = to /\ call'[c].todo = todo
    BY <2>1 DEF Typed, CallFields
  <2>4. GoodCall(c) /\ Git!Key(c) \in Git!Keys
    BY <1>1, HasKey DEF GitInvariant, Answering, Held
  <2>5. to \in Answering /\ call[c].pc \in Answering
    BY <1>1, <2>0 DEF Answering, Held
  <2>6. Asking(c)' /\ Git!Key(c)' = Git!Key(c)
    BY <2>3, <2>4, <2>5, AskingKept DEF GoodCall
  <2>7. sources[Git!Key(c)] = c
    BY <1>1, <2>4 DEF GoodCall, Building, Held
  <2>8. to = "validate" => WholeView(views[Git!Key(c)], Git!Key(c))
    BY <2>0, <2>4 DEF GitInvariant
  <2>9. to = "stage" => todo = DOMAIN Whole(Git!Key(c))
    BY <2>0
  <2>10. CASE to = "validate"
    <3>1. Building(c)' /\ Remembering(c)'
      BY <1>1, <2>1, <2>3, <2>6, <2>7, <2>8, <2>10 DEF Building, Remembering
    <3> QED
      BY <1>1, <2>1, <2>2, <2>6, <3>1, QuietStep DEF GoodCall, Typed
  <2>11. CASE to = "stage"
    <3>1. Building(c)' /\ Remembering(c)'
      BY <1>1, <2>1, <2>3, <2>6, <2>7, <2>9, <2>11 DEF Building, Remembering
    <3> QED
      BY <1>1, <2>1, <2>2, <2>6, <3>1, QuietStep DEF GoodCall, Typed
  <2> QED
    BY <2>0, <2>10, <2>11
<1> QED
  BY <1>2, <1>3

(* What a killed process left is removed.                                  *)
LEMMA RemoveStagingKeeps ==
  ASSUME None \notin Calls, Typed, GitInvariant, NEW c \in Calls, Git!RemoveStaging(c)
  PROVE  Typed' /\ GitInvariant'
<1>1. /\ UNCHANGED <<refs, views, sources>> /\ call[c].pc = "stage" /\ Git!Goto(c, "create")
      /\ staging' = [staging EXCEPT ![Git!Key(c)] = None]
  BY DEF Git!RemoveStaging, Git!remote, Git!locks
<1>2. GoodCall(c) /\ Git!Key(c) \in Git!Keys /\ call[c].pc \in Held
  BY <1>1, HasKey DEF GitInvariant, Answering, Held
<1>3. Asking(c)' /\ Git!Key(c)' = Git!Key(c)
  BY <1>1, <1>2, Going, AskingKept DEF GoodCall, Answering, Held
<1>4. Building(c)' /\ Remembering(c)'
  BY <1>1, <1>2, <1>3, Going DEF GoodCall, Building, Remembering, Held
<1>5. DOMAIN staging' = Git!Keys /\ DOMAIN views' = Git!Keys /\ \A k \in Git!Keys : k # Git!Key(c) => staging'[k] = staging[k]
  BY <1>1 DEF Typed
<1> QED
  BY <1>1, <1>2, <1>3, <1>4, <1>5, Going, HeldStep DEF GoodCall, GitInvariant

(* An empty staging directory misses every file.                           *)
LEMMA CreateStagingKeeps ==
  ASSUME None \notin Calls, Typed, GitInvariant, NEW c \in Calls, Git!CreateStaging(c)
  PROVE  Typed' /\ GitInvariant'
<1>0. PICK s : s = [files |-> <<>>, synced |-> FALSE]
  OBVIOUS
<1>1. /\ UNCHANGED <<refs, views, sources>> /\ call[c].pc = "create" /\ Git!Goto(c, "write")
      /\ staging' = [staging EXCEPT ![Git!Key(c)] = s]
  BY <1>0 DEF Git!CreateStaging, Git!remote, Git!locks
<1>2. GoodCall(c) /\ Git!Key(c) \in Git!Keys /\ call[c].pc \in Held
  BY <1>1, HasKey DEF GitInvariant, Answering, Held
<1>3. Asking(c)' /\ Git!Key(c)' = Git!Key(c)
  BY <1>1, <1>2, Going, AskingKept DEF GoodCall, Answering, Held
<1>4. call[c].todo = DOMAIN Whole(Git!Key(c)) /\ sources[Git!Key(c)] = c
  BY <1>1, <1>2 DEF GoodCall, Building, Held
<1>5. DOMAIN s = {"files", "synced"} /\ DOMAIN s.files = {}
  BY <1>0
<1>6. Partial(s, Git!Key(c), call[c].todo)
  BY <1>4, <1>5 DEF Partial
<1>7. DOMAIN staging' = Git!Keys /\ DOMAIN views' = Git!Keys /\ \A k \in Git!Keys : k # Git!Key(c) => staging'[k] = staging[k]
  BY <1>1 DEF Typed
<1>8. staging'[Git!Key(c)] = s
  BY <1>1, <1>2 DEF Typed
<1>9. Partial(staging'[Git!Key(c)'], Git!Key(c)', call'[c].todo) /\ sources'[Git!Key(c)'] = c /\ call'[c].pc = "write"
  BY <1>1, <1>3, <1>4, <1>6, <1>8, Going
<1>10. Building(c)' /\ Remembering(c)'
  BY <1>9 DEF Building, Remembering
<1> QED
  BY <1>1, <1>2, <1>3, <1>7, <1>10, Going, HeldStep DEF GoodCall, GitInvariant

(* One file more.                                                          *)
LEMMA WriteFileKeeps ==
  ASSUME None \notin Calls, Typed, GitInvariant, NEW c \in Calls, Git!WriteFile(c)
  PROVE  Typed' /\ GitInvariant'
<1>0. /\ UNCHANGED <<refs, views, sources>> /\ call[c].pc = "write"
  BY DEF Git!WriteFile, Git!remote, Git!locks
<1>1. GoodCall(c) /\ Git!Key(c) \in Git!Keys /\ call[c].pc \in Held
  BY <1>0, HasKey DEF GitInvariant, Answering, Held
<1>2. Partial(staging[Git!Key(c)], Git!Key(c), call[c].todo) /\ sources[Git!Key(c)] = c
  BY <1>0, <1>1 DEF GoodCall, Building
<1>3. PICK p \in call[c].todo :
        /\ staging' = [staging EXCEPT ![Git!Key(c)].files =
                            [q \in DOMAIN @ \cup {p} |->
                                IF q = p THEN Git!Subtree(Git!Key(c)[1], Git!Key(c)[2])[p] ELSE @[q]]]
        /\ call' = [call EXCEPT ![c].todo = @ \ {p},
                                ![c].pc = IF call[c].todo = {p} THEN "sync" ELSE "write"]
  BY DEF Git!WriteFile
<1>4. PICK to, todo : /\ to = IF call[c].todo = {p} THEN "sync" ELSE "write"
                      /\ todo = call[c].todo \ {p}
  OBVIOUS
<1>5. call' = [call EXCEPT ![c].todo = todo, ![c].pc = to]
  BY <1>3, <1>4 DEF Typed
<1>6. Only(c)
  BY <1>5 DEF Only, Typed, CallFields
<1>7. /\ call'[c].request = call[c].request /\ call'[c].commit = call[c].commit
      /\ call'[c].since = call[c].since /\ call'[c].pc = to /\ call'[c].todo = todo
  BY <1>5 DEF Typed, CallFields
<1>8. Asking(c)' /\ Git!Key(c)' = Git!Key(c)
  BY <1>0, <1>1, <1>4, <1>7, AskingKept DEF GoodCall, Answering, Held
<1>9. PICK k, s : k \in Git!Keys /\ k = Git!Key(c) /\ s = staging[k]
  BY <1>1
<1>10. PICK files : files = [q \in DOMAIN s.files \cup {p} |-> IF q = p THEN Whole(k)[p] ELSE s.files[q]]
  OBVIOUS
<1>11. staging' = [staging EXCEPT ![k] = [s EXCEPT !.files = files]]
  BY <1>3, <1>9, <1>10 DEF Whole, Typed
<1>12. DOMAIN staging' = Git!Keys /\ DOMAIN views' = Git!Keys /\ \A h \in Git!Keys : h # Git!Key(c) => staging'[h] = staging[h]
  BY <1>0, <1>9, <1>11 DEF Typed
<1>13. PICK t : t = [s EXCEPT !.files = files]
  OBVIOUS
<1>14. staging'[k] = t /\ DOMAIN t = {"files", "synced"} /\ t.files = files
  BY <1>2, <1>9, <1>11, <1>13 DEF Typed, Partial
<1>15. Partial(t, k, todo)
  <2>1. /\ call[c].todo \subseteq DOMAIN Whole(k) /\ DOMAIN s.files = DOMAIN Whole(k) \ call[c].todo
        /\ \A q \in DOMAIN s.files : s.files[q] = Whole(k)[q]
    BY <1>2, <1>9 DEF Partial
  <2>2. DOMAIN files = DOMAIN s.files \cup {p} /\ \A q \in DOMAIN files : files[q] = Whole(k)[q]
    BY <1>10, <2>1
  <2>3. DOMAIN files = DOMAIN Whole(k) \ todo /\ todo \subseteq DOMAIN Whole(k)
    BY <1>4, <2>1, <2>2
  <2> QED
    BY <1>14, <2>2, <2>3 DEF Partial
<1>16. /\ Partial(staging'[Git!Key(c)'], Git!Key(c)', call'[c].todo) /\ sources'[Git!Key(c)'] = c
  BY <1>0, <1>2, <1>7, <1>8, <1>9, <1>14, <1>15
<1>17. to = "sync" => todo = {}
  BY <1>4
<1>18. CASE to = "write"
  <2>1. Building(c)' /\ Remembering(c)'
    BY <1>7, <1>16, <1>18 DEF Building, Remembering
  <2> QED
    BY <1>0, <1>1, <1>6, <1>8, <1>12, <2>1, HeldStep DEF GoodCall, GitInvariant
<1>19. CASE to = "sync"
  <2>1. Building(c)' /\ Remembering(c)'
    BY <1>7, <1>16, <1>17, <1>19 DEF Building, Remembering
  <2> QED
    BY <1>0, <1>1, <1>6, <1>8, <1>12, <2>1, HeldStep DEF GoodCall, GitInvariant
<1> QED
  BY <1>4, <1>18, <1>19

(* The tree is whole and synced.                                           *)
LEMMA SyncKeeps ==
  ASSUME None \notin Calls, Typed, GitInvariant, NEW c \in Calls, Git!Sync(c)
  PROVE  Typed' /\ GitInvariant'
<1>1. /\ UNCHANGED <<refs, views, sources>> /\ call[c].pc = "sync" /\ Git!Goto(c, "publish")
      /\ staging' = [staging EXCEPT ![Git!Key(c)].synced = TRUE]
  BY DEF Git!Sync, Git!remote, Git!locks
<1>2. GoodCall(c) /\ Git!Key(c) \in Git!Keys /\ call[c].pc \in Held
  BY <1>1, HasKey DEF GitInvariant, Answering, Held
<1>3. Asking(c)' /\ Git!Key(c)' = Git!Key(c)
  BY <1>1, <1>2, Going, AskingKept DEF GoodCall, Answering, Held
<1>4. Partial(staging[Git!Key(c)], Git!Key(c), {}) /\ sources[Git!Key(c)] = c
  BY <1>1, <1>2 DEF GoodCall, Building
<1>5. PICK t : t = [staging[Git!Key(c)] EXCEPT !.synced = TRUE]
  OBVIOUS
<1>6. staging' = [staging EXCEPT ![Git!Key(c)] = t]
  BY <1>1, <1>5 DEF Typed
<1>7. DOMAIN t = {"files", "synced"} /\ t.files = staging[Git!Key(c)].files /\ t.synced = TRUE
  BY <1>4, <1>5 DEF Partial
<1>8. Partial(t, Git!Key(c), {})
  BY <1>4, <1>7 DEF Partial
<1>9. /\ DOMAIN staging' = Git!Keys /\ DOMAIN views' = Git!Keys /\ \A k \in Git!Keys : k # Git!Key(c) => staging'[k] = staging[k]
      /\ staging'[Git!Key(c)] = t
  BY <1>1, <1>2, <1>6 DEF Typed
<1>10. /\ Partial(staging'[Git!Key(c)'], Git!Key(c)', {}) /\ staging'[Git!Key(c)'].synced = TRUE
       /\ sources'[Git!Key(c)'] = c /\ call'[c].pc = "publish"
  BY <1>1, <1>3, <1>4, <1>7, <1>8, <1>9, Going
<1>11. Building(c)' /\ Remembering(c)'
  BY <1>10 DEF Building, Remembering
<1> QED
  BY <1>1, <1>2, <1>3, <1>9, <1>11, Going, HeldStep DEF GoodCall, GitInvariant

(* What is published is whole.                                             *)
LEMMA PublishKeeps ==
  ASSUME None \notin Calls, Typed, GitInvariant, NEW c \in Calls, Git!Publish(c)
  PROVE  Typed' /\ GitInvariant'
<1>0. PICK v : v = [files |-> staging[Git!Key(c)].files, synced |-> staging[Git!Key(c)].synced,
                    digest |-> Whole(Git!Key(c)), marker |-> TRUE, durable |-> FALSE]
  OBVIOUS
<1>1. /\ UNCHANGED <<refs, sources>> /\ call[c].pc = "publish" /\ Git!Goto(c, "durable")
      /\ views' = [views EXCEPT ![Git!Key(c)] = v] /\ staging' = [staging EXCEPT ![Git!Key(c)] = None]
  BY <1>0 DEF Git!Publish, Git!remote, Git!locks, Whole
<1>2. GoodCall(c) /\ Git!Key(c) \in Git!Keys /\ call[c].pc \in Held
  BY <1>1, HasKey DEF GitInvariant, Answering, Held
<1>3. Asking(c)' /\ Git!Key(c)' = Git!Key(c)
  BY <1>1, <1>2, Going, AskingKept DEF GoodCall, Answering, Held
<1>4. Partial(staging[Git!Key(c)], Git!Key(c), {}) /\ sources[Git!Key(c)] = c /\ staging[Git!Key(c)].synced = TRUE
  BY <1>1, <1>2 DEF GoodCall, Building, Held
<1>5. /\ DOMAIN v = ViewFields /\ v.synced = TRUE /\ v.digest = Whole(Git!Key(c))
      /\ v.files = staging[Git!Key(c)].files
  BY <1>0, <1>4 DEF ViewFields
<1>6. WholeView(v, Git!Key(c))
  BY <1>4, <1>5 DEF WholeView, Partial
<1>7. /\ DOMAIN staging' = Git!Keys /\ DOMAIN views' = Git!Keys /\ views'[Git!Key(c)] = v
      /\ \A k \in Git!Keys : k # Git!Key(c) => staging'[k] = staging[k] /\ views'[k] = views[k]
  BY <1>1, <1>2 DEF Typed
<1>8. WholeView(views'[Git!Key(c)'], Git!Key(c)') /\ sources'[Git!Key(c)'] = c /\ call'[c].pc = "durable"
  BY <1>1, <1>3, <1>4, <1>6, <1>7, Going
<1>9. Building(c)' /\ Remembering(c)'
  BY <1>8 DEF Building, Remembering
<1> QED
  BY <1>1, <1>2, <1>3, <1>6, <1>7, <1>9, Going, HeldStep DEF GoodCall

(* The name is durable.                                                    *)
LEMMA SyncParentKeeps ==
  ASSUME None \notin Calls, Typed, GitInvariant, NEW c \in Calls, Git!SyncParent(c)
  PROVE  Typed' /\ GitInvariant'
<1>1. /\ UNCHANGED <<refs, staging, sources>> /\ call[c].pc = "durable" /\ Git!Goto(c, "validate")
      /\ views' = [views EXCEPT ![Git!Key(c)].durable = TRUE]
  BY DEF Git!SyncParent, Git!remote, Git!locks
<1>2. GoodCall(c) /\ Git!Key(c) \in Git!Keys /\ call[c].pc \in Held
  BY <1>1, HasKey DEF GitInvariant, Answering, Held
<1>3. Asking(c)' /\ Git!Key(c)' = Git!Key(c)
  BY <1>1, <1>2, Going, AskingKept DEF GoodCall, Answering, Held
<1>4. WholeView(views[Git!Key(c)], Git!Key(c)) /\ sources[Git!Key(c)] = c
  BY <1>1, <1>2 DEF GoodCall, Building
<1>5. PICK v : v = [views[Git!Key(c)] EXCEPT !.durable = TRUE]
  OBVIOUS
<1>6. views' = [views EXCEPT ![Git!Key(c)] = v]
  BY <1>1, <1>5 DEF Typed
<1>7. /\ DOMAIN v = ViewFields /\ v.synced = views[Git!Key(c)].synced /\ v.digest = views[Git!Key(c)].digest
      /\ v.files = views[Git!Key(c)].files
  BY <1>4, <1>5 DEF WholeView, ViewFields
<1>8. WholeView(v, Git!Key(c))
  BY <1>4, <1>7 DEF WholeView
<1>9. /\ DOMAIN staging' = Git!Keys /\ DOMAIN views' = Git!Keys /\ views'[Git!Key(c)] = v
      /\ \A k \in Git!Keys : k # Git!Key(c) => views'[k] = views[k]
  BY <1>1, <1>2, <1>6 DEF Typed
<1>10. WholeView(views'[Git!Key(c)'], Git!Key(c)') /\ sources'[Git!Key(c)'] = c /\ call'[c].pc = "validate"
  BY <1>1, <1>3, <1>4, <1>8, <1>9, Going
<1>11. Building(c)' /\ Remembering(c)'
  BY <1>10 DEF Building, Remembering
<1> QED
  BY <1>1, <1>2, <1>3, <1>8, <1>9, <1>11, Going, HeldStep DEF GoodCall

(* A view that passes is the tree of the commit.                           *)
LEMMA ValidateKeeps ==
  ASSUME None \notin Calls, Typed, GitInvariant, NEW c \in Calls, Git!Validate(c)
  PROVE  Typed' /\ GitInvariant'
<1>1. UNCHANGED <<refs, staging, views>> /\ call[c].pc = "validate"
  BY DEF Git!Validate, Git!remote, Git!disk
<1>2. CASE Git!Fail(c)
  BY <1>1, <1>2, FailKeeps
<1>3. CASE ~Git!Fail(c)
  <2>0. PICK v : v = views[Git!Key(c)]
    OBVIOUS
  <2>1. /\ call' = [call EXCEPT ![c].facts = v.files, ![c].pc = "acquired"]
        /\ Git!Release(c) /\ Git!parse(v) # None /\ v.files = Git!parse(v)
    BY <1>3, <2>0 DEF Git!Validate
  <2>2. GoodCall(c) /\ Git!Key(c) \in Git!Keys
    BY <1>1, HasKey DEF GitInvariant, Answering, Held
  <2>3. v.files = Whole(Git!Key(c))
    BY <1>1, <2>0, <2>1, <2>2 DEF GoodCall, Building, WholeView, Git!parse
  <2>4. Only(c)
    BY <2>1 DEF Only, Typed, CallFields
  <2>5. /\ call'[c].request = call[c].request /\ call'[c].commit = call[c].commit
        /\ call'[c].since = call[c].since /\ call'[c].pc = "acquired" /\ call'[c].facts = v.files
    BY <2>1 DEF Typed, CallFields
  <2>6. Asking(c)' /\ Git!Key(c)' = Git!Key(c)
    BY <1>1, <2>2, <2>5, AskingKept DEF GoodCall, Answering, Held
  <2>7. call'[c].facts = Whole(Git!Key(c)')
    BY <2>3, <2>5, <2>6
  <2>8. Building(c)' /\ Remembering(c)'
    BY <2>5, <2>7 DEF Building, Remembering, Held
  <2> QED
    BY <1>1, <2>1, <2>4, <2>6, <2>8, Released, QuietStep DEF GoodCall
<1> QED
  BY <1>2, <1>3

(* A file that is read is the remembered one.                              *)
LEMMA DescribeKeeps ==
  ASSUME None \notin Calls, Typed, GitInvariant, NEW c \in Calls, Git!Describe(c)
  PROVE  Typed' /\ GitInvariant'
<1>0. PICK d : d = Git!project_description(c)
  OBVIOUS
<1>1. /\ UNCHANGED <<refs, staging, views, sources>> /\ call[c].pc = "acquired"
      /\ call' = [call EXCEPT ![c].description = d, ![c].pc = "described"]
  BY <1>0 DEF Git!Describe, Git!remote, Git!disk, Git!locks
<1>2. GoodCall(c) /\ call[c].facts = Whole(Git!Key(c))
  BY <1>1 DEF GitInvariant, GoodCall, Remembering
<1>3. d # None => d = Whole(Git!Key(c))[Description]
  BY <1>0, <1>2 DEF Git!project_description, Git!read_validated_file
<1>4. Only(c)
  BY <1>1 DEF Only, Typed, CallFields
<1>5. /\ call'[c].request = call[c].request /\ call'[c].commit = call[c].commit
      /\ call'[c].since = call[c].since /\ call'[c].pc = "described" /\ call'[c].facts = call[c].facts
      /\ call'[c].description = d
  BY <1>1 DEF Typed, CallFields
<1>6. Asking(c)' /\ Git!Key(c)' = Git!Key(c)
  BY <1>1, <1>2, <1>5, AskingKept DEF GoodCall, Answering
<1>7. /\ call'[c].facts = Whole(Git!Key(c)')
      /\ call'[c].description # None => call'[c].description = Whole(Git!Key(c)')[Description]
  BY <1>2, <1>3, <1>5, <1>6
<1>8. Building(c)' /\ Remembering(c)'
  BY <1>5, <1>7 DEF Building, Remembering, Held
<1> QED
  BY <1>1, <1>4, <1>6, <1>8, QuietStep DEF GoodCall, Typed

-----------------------------------------------------------------------------
(* Faults.                                                                 *)

(* A command or a write fails, or the process is killed.                   *)
LEMMA FaultKeeps ==
  ASSUME None \notin Calls, Typed, GitInvariant, NEW c \in Calls,
         Git!CommandFails(c) \/ Git!WriteFails(c) \/ Git!Die(c)
  PROVE  Typed' /\ GitInvariant'
<1>1. UNCHANGED <<refs, staging, views>>
  BY DEF Git!CommandFails, Git!WriteFails, Git!Die, Git!remote, Git!disk
<1>2. CASE Git!Fail(c)
  BY <1>1, <1>2, FailKeeps
<1>3. CASE Git!Release(c) /\ call' = [call EXCEPT ![c] = Git!NoCall]
  <2>1. DOMAIN Git!NoCall = CallFields /\ Git!NoCall.pc = "idle"
    BY DEF Git!NoCall, CallFields
  <2>2. Only(c) /\ call'[c].pc = "idle"
    BY <1>3, <2>1 DEF Typed, Only
  <2> QED
    BY <1>1, <1>3, <2>2, Released, RestIsGood, QuietStep
<1> QED
  BY <1>2, <1>3 DEF Git!CommandFails, Git!WriteFails, Git!Die

(* The machine stops: what was published was synced before.                *)
LEMMA CrashKeeps ==
  ASSUME None \notin Calls, Typed, GitInvariant, Git!Crash
  PROVE  Typed' /\ GitInvariant'
<1>1. PICK undone :
        views' = [k \in Git!Keys |->
                      IF k \in undone \/ views[k] = None THEN None
                      ELSE [views[k] EXCEPT !.files = IF views[k].synced THEN @ ELSE <<>>]]
  BY DEF Git!Crash
<1>2. /\ DOMAIN staging' = Git!Keys /\ DOMAIN sources' = Git!Keys /\ refs' = refs
      /\ call' = [c \in Calls |-> IF call[c].pc \in {"failed", "described"} THEN call[c] ELSE Git!NoCall]
  BY DEF Git!Crash, Git!remote
<1>3. DOMAIN Git!NoCall = CallFields /\ Git!NoCall.pc = "idle"
  BY DEF Git!NoCall, CallFields
<1>4. DOMAIN call' = Calls /\ \A c \in Calls : DOMAIN call'[c] = CallFields
  BY <1>2, <1>3 DEF Typed
<1>5. ASSUME NEW c \in Calls PROVE GoodCall(c)'
  <2>1. CASE call[c].pc = "described"
    <3>1. call'[c] = call[c] /\ GoodCall(c)
      BY <1>2, <2>1 DEF GitInvariant
    <3> QED
      BY <1>2, <2>1, <3>1, Undisturbed DEF Held
  <2>2. CASE call[c].pc # "described"
    <3>1. call'[c].pc \in {"idle", "failed"}
      BY <1>2, <1>3, <2>2
    <3> QED
      BY <3>1, RestIsGood
  <2> QED
    BY <2>1, <2>2
<1>6. ASSUME NEW k \in Git!Keys, views'[k] # None PROVE WholeView(views'[k], k)
  <2>1. views[k] # None /\ k \notin undone
    BY <1>1, <1>6
  <2>2. WholeView(views[k], k)
    BY <2>1 DEF GitInvariant
  <2>3. views'[k] = [views[k] EXCEPT !.files = views[k].files]
    BY <1>1, <2>1, <2>2 DEF WholeView
  <2>4. PICK v : v = [views[k] EXCEPT !.files = views[k].files]
    OBVIOUS
  <2>5. DOMAIN v = ViewFields /\ v.files = views[k].files /\ v.synced = views[k].synced /\ v.digest = views[k].digest
    BY <2>2, <2>4 DEF WholeView, ViewFields
  <2>6. WholeView(v, k)
    BY <2>2, <2>5 DEF WholeView
  <2> QED
    BY <2>3, <2>4, <2>6
<1>7. Typed'
  BY <1>1, <1>2, <1>4 DEF Typed
<1> QED
  BY <1>5, <1>6, <1>7 DEF GitInvariant

(* Something outside changes a file or a marker.                           *)
LEMMA DamageKeeps ==
  ASSUME None \notin Calls, Typed, GitInvariant, NEW k \in Git!Keys, Git!Damage(k)
  PROVE  Typed' /\ GitInvariant'
<1>1. UNCHANGED <<refs, staging, sources, call>> /\ views[k] # None
  BY DEF Git!Damage, Git!remote, Git!locks
<1>2. WholeView(views[k], k)
  BY <1>1 DEF GitInvariant
<1>3. PICK v : views' = [views EXCEPT ![k] = v] /\ WholeView(v, k)
  <2>1. ASSUME NEW p \in DOMAIN views[k].files, views' = [views EXCEPT ![k].files[p] = -1]
        PROVE  \E v : views' = [views EXCEPT ![k] = v] /\ WholeView(v, k)
    <3>1. PICK files : files = [views[k].files EXCEPT ![p] = -1]
      OBVIOUS
    <3>2. PICK v : v = [views[k] EXCEPT !.files = files]
      OBVIOUS
    <3>3. views' = [views EXCEPT ![k] = v]
      BY <2>1, <3>1, <3>2 DEF Typed
    <3>4. DOMAIN v = ViewFields /\ v.files = files /\ v.synced = views[k].synced /\ v.digest = views[k].digest
      BY <1>2, <3>2 DEF WholeView, ViewFields
    <3>5. /\ DOMAIN files = DOMAIN views[k].files
          /\ \A q \in DOMAIN files : files[q] \in {views[k].files[q], -1}
      BY <3>1
    <3>6. WholeView(v, k)
      BY <1>2, <3>4, <3>5 DEF WholeView
    <3> QED
      BY <3>3, <3>6
  <2>2. ASSUME views' = [views EXCEPT ![k].marker = FALSE]
        PROVE  \E v : views' = [views EXCEPT ![k] = v] /\ WholeView(v, k)
    <3>1. PICK v : v = [views[k] EXCEPT !.marker = FALSE]
      OBVIOUS
    <3>2. views' = [views EXCEPT ![k] = v]
      BY <2>2, <3>1 DEF Typed
    <3>3. /\ DOMAIN v = ViewFields /\ v.files = views[k].files
          /\ v.synced = views[k].synced /\ v.digest = views[k].digest
      BY <1>2, <3>1 DEF WholeView, ViewFields
    <3>4. WholeView(v, k)
      BY <1>2, <3>3 DEF WholeView
    <3> QED
      BY <3>2, <3>4
  <2> QED
    BY <2>1, <2>2 DEF Git!Damage
<1>4. DOMAIN views' = Git!Keys /\ \A h \in Git!Keys : views'[h] = views[h] \/ WholeView(views'[h], h)
  BY <1>3 DEF Typed
<1>5. ASSUME NEW h \in Git!Keys, views'[h] # None PROVE WholeView(views'[h], h)
  BY <1>4, <1>5 DEF GitInvariant
<1>6. ASSUME NEW c \in Calls PROVE GoodCall(c)'
  <2>1. GoodCall(c) /\ call'[c] = call[c]
    BY <1>1 DEF GitInvariant
  <2>2. call[c].pc \in Held => Git!Key(c) \in Git!Keys
    BY <2>1, HasKey DEF Answering
  <2> QED
    BY <1>1, <1>4, <2>1, <2>2, Undisturbed
<1>7. Typed'
  BY <1>1, <1>4 DEF Typed
<1> QED
  BY <1>5, <1>6, <1>7 DEF GitInvariant

(* Somebody pushes: a call that is about to look again remembers both.     *)
LEMMA MoveKeeps ==
  ASSUME None \notin Calls, Typed, GitInvariant, Git!Move
  PROVE  Typed' /\ GitInvariant'
<1>1. /\ UNCHANGED <<staging, views, sources>>
      /\ call' = [c \in Calls |->
                  IF call[c].pc = "stable"
                  THEN [call[c] EXCEPT !.since = @ \cup {Git!resolve(refs', call[c].request)}]
                  ELSE call[c]]
  BY DEF Git!Move, Git!disk, Git!locks
<1>2. ASSUME NEW c \in Calls PROVE DOMAIN call'[c] = CallFields /\ GoodCall(c)'
  <2>0. GoodCall(c) /\ DOMAIN call[c] = CallFields
    BY DEF GitInvariant, Typed
  <2>1. CASE call[c].pc = "stable"
    <3>1. PICK named : named = Git!resolve(refs', call[c].request)
      OBVIOUS
    <3>2. PICK r : r = [call[c] EXCEPT !.since = call[c].since \cup {named}]
      OBVIOUS
    <3>3. call'[c] = r
      BY <1>1, <2>1, <3>1, <3>2
    <3>4. /\ DOMAIN r = CallFields /\ r.pc = "stable" /\ r.request = call[c].request
          /\ r.commit = call[c].commit /\ r.since = call[c].since \cup {named}
      BY <2>0, <2>1, <3>2 DEF CallFields
    <3>5. Git!resolve(refs', call'[c].request) \in call'[c].since
      BY <3>1, <3>3, <3>4
    <3>6. call[c].request \in Requests /\ call[c].commit \in Git!Commits
      BY <2>0, <2>1 DEF GoodCall, Asking, Busy
    <3>7. Asking(c)'
      BY <3>3, <3>4, <3>5, <3>6 DEF Asking, Answering, Held
    <3>8. Building(c)' /\ Remembering(c)'
      BY <3>3, <3>4 DEF Building, Remembering, Held
    <3> QED
      BY <3>3, <3>4, <3>7, <3>8 DEF GoodCall
  <2>2. CASE call[c].pc # "stable"
    <3>1. call'[c] = call[c] /\ Git!Key(c)' = Git!Key(c)
      BY <1>1, <2>2 DEF Git!Key
    <3>2. Asking(c)'
      BY <2>0, <2>2, <3>1 DEF GoodCall, Asking
    <3>3. Building(c)'
      BY <1>1, <2>0, <3>1 DEF GoodCall, Building
    <3>4. Remembering(c)'
      BY <2>0, <3>1 DEF GoodCall, Remembering
    <3> QED
      BY <2>0, <3>1, <3>2, <3>3, <3>4 DEF GoodCall
  <2> QED
    BY <2>1, <2>2
<1>3. Typed'
  BY <1>1, <1>2 DEF Typed
<1> QED
  BY <1>1, <1>2, <1>3 DEF GitInvariant

-----------------------------------------------------------------------------
(* The theorems.                                                           *)

(* Nothing is cached and nobody has begun.                                 *)
LEMMA InitGit == Git!Init => Typed /\ GitInvariant
<1> SUFFICES ASSUME Git!Init PROVE Typed /\ GitInvariant
  OBVIOUS
<1>1. DOMAIN Git!NoCall = CallFields /\ Git!NoCall.pc = "idle"
  BY DEF Git!NoCall, CallFields
<1>2. \A c \in Calls : call[c] = Git!NoCall
  BY DEF Git!Init
<1>3. Typed
  BY <1>1 DEF Typed, Git!Init
<1>4. \A c \in Calls : GoodCall(c)
  BY <1>1, <1>2 DEF GoodCall, Asking, Building, Remembering, Busy, Answering, Held
<1> QED
  BY <1>3, <1>4 DEF GitInvariant, Git!Init

(* Every step keeps the invariant.                                         *)
LEMMA NextGit == None \notin Calls /\ Typed /\ GitInvariant /\ [Git!Next]_(Git!vars) => Typed' /\ GitInvariant'
<1> SUFFICES ASSUME None \notin Calls, Typed, GitInvariant, [Git!Next]_(Git!vars) PROVE Typed' /\ GitInvariant'
  OBVIOUS
<1>1. ASSUME NEW c \in Calls, Git!Step(c) PROVE Typed' /\ GitInvariant'
  <2>1. CASE Git!Acquire(c) \/ Git!Local(c) \/ Git!Resolve(c) \/ Git!Fetch(c) \/ Git!Stable(c)
    BY <2>1, AcquireKeeps, LocalKeeps, ResolveKeeps, FetchKeeps, StableKeeps
  <2>2. CASE Git!WriteOrigin(c) \/ Git!RenameOrigin(c) \/ Git!LockShared(c) \/ Git!LockSource(c)
    BY <2>2, WriteOriginKeeps, LockSharedKeeps, LockSourceKeeps
  <2>3. CASE Git!ReadTree(c) \/ Git!RemoveStaging(c) \/ Git!CreateStaging(c) \/ Git!WriteFile(c) \/ Git!Sync(c)
    BY <2>3, ReadTreeKeeps, RemoveStagingKeeps, CreateStagingKeeps, WriteFileKeeps, SyncKeeps
  <2>4. CASE Git!Publish(c) \/ Git!SyncParent(c) \/ Git!Validate(c) \/ Git!Describe(c)
    BY <2>4, PublishKeeps, SyncParentKeeps, ValidateKeeps, DescribeKeeps
  <2>5. CASE Git!CommandFails(c) \/ Git!WriteFails(c) \/ Git!Die(c)
    BY <2>5, FaultKeeps
  <2> QED
    BY <1>1, <2>1, <2>2, <2>3, <2>4, <2>5 DEF Git!Step
<1>2. ASSUME NEW k \in Git!Keys, Git!Damage(k) PROVE Typed' /\ GitInvariant'
  BY <1>2, DamageKeeps
<1>3. CASE Git!Crash \/ Git!Move
  BY <1>3, CrashKeeps, MoveKeeps
<1>4. CASE UNCHANGED Git!vars
  <2>1. UNCHANGED <<refs, staging, views, sources, call>>
    BY <1>4 DEF Git!vars
  <2>2. Typed'
    BY <2>1 DEF Typed
  <2>3. ASSUME NEW c \in Calls PROVE GoodCall(c)'
    BY <2>1, Undisturbed DEF GitInvariant
  <2> QED
    BY <2>1, <2>2, <2>3 DEF GitInvariant
<1> QED
  BY <1>1, <1>2, <1>3, <1>4 DEF Git!Next, Git!Finished

-----------------------------------------------------------------------------
(* In the composition, where the other components leave what the cache      *)
(* uses alone.                                                              *)

LEMMA CacheInit == Init => (which = "git" => Typed /\ GitInvariant)
  BY InitGit DEF Init

LEMMA CacheNext ==
    [Next]_vars /\ (which = "git" => Typed /\ GitInvariant) => (which = "git" => Typed /\ GitInvariant)'
<1> SUFFICES ASSUME [Next]_vars, which = "git" => Typed /\ GitInvariant, which' = "git"
             PROVE  Typed' /\ GitInvariant'
  OBVIOUS
<1>1. which = "git" /\ [Git!Next]_(Git!vars)
  BY DEF Next, RawNext, CranNext, UniverseNext, GitNext, vars, gitOnly, Git!vars
<1> QED
  BY <1>1, GitAssumption, NextGit

(***************************************************************************)
(* Every view that can be opened has exactly the files of its commit's tree *)
(* but for what something outside changed, for any number of processes      *)
(* killed, failing or losing power while they publish: the holder of the    *)
(* source lock alone builds the staging directory, removes what is left     *)
(* there first and syncs it before the rename.                              *)
(***************************************************************************)
THEOREM WholeViews == Spec => []ViewsAreWhole
<1>1. (which = "git" => Typed /\ GitInvariant) => ViewsAreWhole
  BY DEF GitInvariant, WholeView, Whole, ViewsAreWhole, Git!ViewsAreWhole
<1> QED
  BY <1>1, CacheInit, CacheNext, PTL DEF Spec

(***************************************************************************)
(* The commit of an online answer was named by the selector after it had    *)
(* been fetched, however often the remote's references move meanwhile.      *)
(***************************************************************************)
THEOREM StableAnswers == Spec => []AnswersAreStable
<1>1. (which = "git" => Typed /\ GitInvariant) => AnswersAreStable
  BY DEF GitInvariant, GoodCall, Asking, Answering, AnswersAreStable, Git!AnswersAreStable
<1> QED
  BY <1>1, CacheInit, CacheNext, PTL DEF Spec

(***************************************************************************)
(* The DESCRIPTION projected from an acquired view is the one of the commit *)
(* the call answers with, whatever is done to the view's files before or    *)
(* after it is validated: read_validated_file takes only what it            *)
(* remembers, and it remembers only what the marker's digest vouches for.   *)
(***************************************************************************)
THEOREM TrueDescriptions == Spec => []DescriptionIsTheCommits
<1>1. (which = "git" => Typed /\ GitInvariant) => DescriptionIsTheCommits
  BY DEF GitInvariant, GoodCall, Remembering, Whole, DescriptionIsTheCommits, Git!DescriptionIsTheCommits
<1> QED
  BY <1>1, CacheInit, CacheNext, PTL DEF Spec
=============================================================================
