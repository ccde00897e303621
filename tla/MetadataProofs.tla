--------------------------- MODULE MetadataProofs ---------------------------
(***************************************************************************)
(* The metadata of CRAN and r-universe, for any number of sessions, calls,  *)
(* representations, packages, endpoints and changes of the servers: what a  *)
(* refresh gets from the raw response cache, which releases a session finds *)
(* and what a call of the r-universe provider answers.                      *)
(***************************************************************************)
EXTENDS Metadata, TLAPS

-----------------------------------------------------------------------------
(* The raw response cache (RawMetadataCache).                               *)

(* The entity tag of an entry is that of its body.                          *)
Sound(e) == e.body = e.etag /\ e.etag \in Nat

(* What the cache assumes of its keys and of the entries it finds.         *)
RawConfigured ==
    /\ Representations \subseteq Nat /\ 1 \in Representations
    /\ \A e \in StoredEntries : Sound(e)

RawFields == {"pc", "key", "seen", "body", "etag", "cc", "at", "origin", "retried", "refresh", "started", "fault"}

(* The shape of the state.                                                 *)
RawTyped ==
    /\ server \in Nat
    /\ DOMAIN entry = Representations
    /\ DOMAIN session = Calls
    /\ \A i \in Calls : DOMAIN session[i] = RawFields /\ session[i].key \in Representations

(* Where a session has a body in hand.                                     *)
Holding == {"project", "retry", "rename", "open", "retain", "store"}

(* A session that asks conditionally asks with the entity tag of the       *)
(* entry that is still there; a body that a 304 confirmed is that          *)
(* entry's; and what the server sent or confirmed is no older than the     *)
(* session.                                                                *)
RawCall(i) ==
    /\ session[i].pc # "idle" => session[i].started \in Nat /\ session[i].started <= server
    /\ session[i].pc = "request" /\ session[i].seen # Missing =>
          Raw!Readable(session[i].seen) /\ Sound(session[i].seen) /\ entry[session[i].key] = session[i].seen
    /\ session[i].pc \in Holding /\ session[i].origin = "304" =>
          /\ Raw!Readable(session[i].seen) /\ Sound(session[i].seen) /\ entry[session[i].key] = session[i].seen
          /\ session[i].etag = session[i].seen.etag
    /\ session[i].pc \in Holding \cup {"ok"} /\ session[i].origin \in {"200", "304"} =>
          /\ session[i].body = session[i].etag /\ session[i].etag \in Nat
          /\ session[i].body >= session[i].started

(* The refresh lock keeps sessions apart, so that nobody replaces the      *)
(* entry between the request and the answer.                               *)
RawInvariant ==
    /\ \A k \in Representations : Raw!Readable(entry[k]) => Sound(entry[k])
    /\ \A i, j \in Calls : Raw!Running(i) /\ Raw!Running(j) => i = j
    /\ \A i \in Calls : RawCall(i)

(* What a step of a session changes in its local state.                    *)
LEMMA RawGoing ==
  ASSUME RawTyped, NEW i \in Calls, NEW changes, Raw!Step(i, changes), DOMAIN changes \subseteq RawFields
  PROVE  /\ DOMAIN session' = Calls /\ \A j \in Calls : DOMAIN session'[j] = DOMAIN session[j]
         /\ \A j \in Calls : j # i => session'[j] = session[j]
         /\ \A f \in RawFields : f \in DOMAIN changes => session'[i][f] = changes[f]
         /\ \A f \in RawFields : f \notin DOMAIN changes => session'[i][f] = session[i][f]
<1> DEFINE new == [f \in RawFields |-> IF f \in DOMAIN changes THEN changes[f] ELSE session[i][f]]
<1>1. DOMAIN session[i] = RawFields
  BY DEF RawTyped
<1>2. session' = [session EXCEPT ![i] = new]
  BY <1>1 DEF Raw!Step
<1> HIDE DEF new
<1>3. session'[i] = new /\ DOMAIN session' = Calls /\ \A j \in Calls : j # i => session'[j] = session[j]
  BY <1>2 DEF RawTyped
<1> QED
  BY <1>3 DEF new, RawTyped

(* The step of the one session that runs, as far as it concerns the others. *)
LEMMA RawOthers ==
  ASSUME RawTyped, RawInvariant, NEW i \in Calls, DOMAIN session' = Calls,
         Raw!Running(i) \/ \A j \in Calls : ~Raw!Running(j),
         \A j \in Calls : j # i => session'[j] = session[j],
         UNCHANGED server
  PROVE  /\ \A j \in Calls : j # i => ~Raw!Running(j) /\ ~Raw!Running(j)' /\ RawCall(j)'
         /\ \A j, k \in Calls : Raw!Running(j)' /\ Raw!Running(k)' => j = k
<1>1. \A j \in Calls : j # i => ~Raw!Running(j) /\ ~Raw!Running(j)'
  BY DEF RawInvariant, Raw!Running
<1>2. ASSUME NEW j \in Calls, j # i PROVE RawCall(j)'
  <2>1. session[j].pc \in {"idle", "ok", "failed", "dead"} /\ session'[j] = session[j]
    BY <1>1, <1>2 DEF Raw!Running
  <2> QED
    BY <2>1, <1>2 DEF RawInvariant, RawCall, Holding
<1> QED
  BY <1>1, <1>2

(* The invariant holds at first.                                           *)
LEMMA RawStarts == RawConfigured /\ Raw!Init => RawTyped /\ RawInvariant
<1> SUFFICES ASSUME RawConfigured, Raw!Init PROVE RawTyped /\ RawInvariant
  OBVIOUS
<1>1. DOMAIN Raw!Idle = RawFields /\ Raw!Idle.key = 1 /\ Raw!Idle.pc = "idle"
  BY DEF Raw!Idle, RawFields
<1>2. \A i \in Calls : session[i] = Raw!Idle
  BY DEF Raw!Init
<1>3. \A k \in Representations : Raw!Readable(entry[k]) => Sound(entry[k])
  BY DEF Raw!Init, Raw!Readable, RawConfigured
<1> QED
  BY <1>1, <1>2, <1>3 DEF Raw!Init, RawTyped, RawInvariant, RawConfigured, Raw!Running, RawCall, Holding

(* What each step is shown to keep.                                        *)
RawKeeps == RawTyped' /\ RawInvariant'

(* A session begins when no other runs, and notes the version of the       *)
(* server.                                                                 *)
LEMMA StartKeeps ==
  ASSUME Serial, RawTyped, RawInvariant, NEW i \in Calls, NEW refresh \in BOOLEAN, Raw!Start(i, refresh)
  PROVE  RawKeeps
<1>1. Raw!Step(i, [pc |-> "lookup", refresh |-> refresh, started |-> server])
  BY DEF Raw!Start
<1>2. /\ session'[i].pc = "lookup" /\ session'[i].started = server /\ session'[i].key = session[i].key
      /\ DOMAIN session' = Calls /\ \A j \in Calls : DOMAIN session'[j] = DOMAIN session[j]
      /\ \A j \in Calls : j # i => session'[j] = session[j]
  BY <1>1, RawGoing DEF RawFields
<1>3. \A j \in Calls : ~Raw!Running(j)
  BY DEF Raw!Start
<1>4. RawTyped'
  BY <1>2 DEF RawTyped, Raw!Start
<1>5. RawCall(i)'
  BY <1>2 DEF RawCall, Holding, Raw!Start, RawTyped
<1> QED
  BY <1>2, <1>3, <1>4, <1>5, RawOthers DEF RawKeeps, RawInvariant, Raw!Start

(* A step of the session that runs keeps the invariant if it leaves the     *)
(* session itself and the entries in order.                                 *)
LEMMA RawMoves ==
  ASSUME RawTyped, RawInvariant, NEW i \in Calls, Raw!Running(i),
         NEW changes, Raw!Step(i, changes), DOMAIN changes \subseteq RawFields,
         "key" \in DOMAIN changes => changes["key"] \in Representations,
         UNCHANGED server, DOMAIN entry' = Representations,
         \A k \in Representations : Raw!Readable(entry'[k]) => Sound(entry'[k]),
         RawCall(i)'
  PROVE  RawKeeps
<1>1. /\ DOMAIN session' = Calls /\ \A j \in Calls : DOMAIN session'[j] = DOMAIN session[j]
      /\ \A j \in Calls : j # i => session'[j] = session[j]
      /\ session'[i].key = IF "key" \in DOMAIN changes THEN changes["key"] ELSE session[i].key
  BY RawGoing DEF RawFields
<1>2. RawTyped'
  BY <1>1 DEF RawTyped
<1>3. \A j \in Calls : RawCall(j)'
  BY <1>1, RawOthers
<1>4. \A j, k \in Calls : Raw!Running(j)' /\ Raw!Running(k)' => j = k
  BY <1>1, RawOthers
<1> QED
  BY <1>2, <1>3, <1>4 DEF RawKeeps, RawInvariant

(* What every step of a running session finds.                              *)
LEMMA RawNow ==
  ASSUME RawTyped, RawInvariant, NEW i \in Calls, session[i].pc \notin {"idle", "ok", "failed", "dead"}
  PROVE  /\ Raw!Running(i) /\ RawCall(i) /\ session[i].key \in Representations
         /\ session[i].started \in Nat /\ session[i].started <= server /\ server \in Nat
         /\ DOMAIN entry = Representations /\ \A k \in Representations : Raw!Readable(entry[k]) => Sound(entry[k])
BY DEF RawTyped, RawInvariant, RawCall, Raw!Running

(* The entry that is looked up is the one the request will be conditional  *)
(* on.                                                                     *)
LEMMA LookupKeeps ==
  ASSUME RawTyped, RawInvariant, NEW i \in Calls, Raw!Lookup(i)
  PROVE  RawKeeps
<1> DEFINE e == entry[session[i].key]
<1>1. session[i].pc = "lookup" /\ UNCHANGED <<server, entry>>
  BY DEF Raw!Lookup
<1>2. /\ Raw!Running(i) /\ session[i].key \in Representations /\ RawCall(i) /\ DOMAIN entry = Representations
      /\ session[i].started \in Nat /\ session[i].started <= server
      /\ \A k \in Representations : Raw!Readable(entry[k]) => Sound(entry[k])
  BY <1>1, RawNow
<1>3. CASE ~Raw!Readable(e) /\ Raw!Step(i, [pc |-> "request", seen |-> Missing])
  <2>1. /\ session'[i].pc = "request" /\ session'[i].seen = Missing
        /\ session'[i].started = session[i].started
    BY <1>3, RawGoing DEF RawFields
  <2>2. RawCall(i)'
    BY <1>1, <1>2, <2>1 DEF RawCall, Holding
  <2> QED
    BY <1>1, <1>2, <1>3, <2>2, RawMoves DEF RawFields
<1>4. CASE Raw!Readable(e) /\ Raw!Step(i, [pc |-> "request", seen |-> e])
  <2>1. /\ session'[i].pc = "request" /\ session'[i].seen = e /\ session'[i].key = session[i].key
        /\ session'[i].started = session[i].started
    BY <1>4, RawGoing DEF RawFields
  <2>2. RawCall(i)'
    BY <1>1, <1>2, <1>4, <2>1 DEF RawCall, Holding
  <2> QED
    BY <1>1, <1>2, <1>4, <2>2, RawMoves DEF RawFields
<1>5. CASE Raw!Step(i, [pc |-> "project", origin |-> "cached", body |-> e.body, etag |-> e.etag, cc |-> e.cc])
  <2>1. session'[i].pc = "project" /\ session'[i].origin = "cached" /\ session'[i].started = session[i].started
    BY <1>5, RawGoing DEF RawFields
  <2>2. RawCall(i)'
    BY <1>1, <1>2, <2>1 DEF RawCall, Holding
  <2> QED
    BY <1>1, <1>2, <1>5, <2>2, RawMoves DEF RawFields
<1> QED
  BY <1>3, <1>4, <1>5 DEF Raw!Lookup, Raw!Key

(* A 200 answers with the version the server has.                           *)
LEMMA RawAnswerKeeps ==
  ASSUME RawTyped, RawInvariant, NEW i \in Calls, session[i].pc \in {"request", "retry"},
         Raw!Step(i, Raw!Answer200), UNCHANGED <<server, entry>>
  PROVE  RawKeeps
<1>1. /\ Raw!Running(i) /\ RawCall(i) /\ session[i].key \in Representations /\ DOMAIN entry = Representations
      /\ session[i].started \in Nat /\ session[i].started <= server /\ server \in Nat
      /\ \A k \in Representations : Raw!Readable(entry[k]) => Sound(entry[k])
  BY RawNow
<1>2. DOMAIN Raw!Answer200 \subseteq RawFields /\ "key" \notin DOMAIN Raw!Answer200
  BY DEF Raw!Answer200, RawFields
<1>3. /\ session'[i].pc = "project" /\ session'[i].origin = "200" /\ session'[i].body = server
      /\ session'[i].etag = server /\ session'[i].started = session[i].started
  BY RawGoing, <1>2 DEF RawFields, Raw!Answer200
<1>4. RawCall(i)'
  BY <1>1, <1>3 DEF RawCall, Holding
<1> QED
  BY <1>1, <1>2, <1>4, RawMoves

(* A 304 is only sent for the entity tag of the version the server has,    *)
(* so it confirms the body of that version.                                *)
LEMMA RespondKeeps ==
  ASSUME RawTyped, RawInvariant, NEW i \in Calls, Raw!Respond(i)
  PROVE  RawKeeps
<1> DEFINE e == session[i].seen
           confirmed == [pc |-> "project", origin |-> "304", body |-> e.body, etag |-> server,
                         cc |-> Raw!cache_control_policy(server)]
<1>1. session[i].pc = "request" /\ UNCHANGED <<server, entry>>
  BY DEF Raw!Respond
<1>2. /\ Raw!Running(i) /\ session[i].key \in Representations /\ RawCall(i) /\ DOMAIN entry = Representations
      /\ session[i].started \in Nat /\ session[i].started <= server /\ server \in Nat
      /\ \A k \in Representations : Raw!Readable(entry[k]) => Sound(entry[k])
  BY <1>1, RawNow
<1>3. CASE e # Missing /\ e.etag = server /\ Raw!Step(i, confirmed)
  <2>1. /\ session'[i].pc = "project" /\ session'[i].origin = "304" /\ session'[i].body = e.body
        /\ session'[i].etag = server /\ session'[i].seen = e /\ session'[i].key = session[i].key
        /\ session'[i].started = session[i].started
    BY <1>3, RawGoing DEF RawFields
  <2>2. Raw!Readable(e) /\ Sound(e) /\ entry[session[i].key] = e
    BY <1>1, <1>2, <1>3 DEF RawCall
  <2>3. RawCall(i)'
    BY <1>1, <1>2, <1>3, <2>1, <2>2 DEF RawCall, Holding, Sound, Raw!Readable
  <2> QED
    BY <1>1, <1>2, <1>3, <2>3, RawMoves DEF RawFields
<1>4. CASE Raw!Step(i, Raw!Answer200)
  BY <1>1, <1>4, RawAnswerKeeps
<1> QED
  BY <1>3, <1>4 DEF Raw!Respond

(* The next representation starts with nothing in hand.                    *)
LEMMA NextRepresentationKeeps ==
  ASSUME RawTyped, RawInvariant, NEW i \in Calls, session[i].pc \in {"request", "retry", "project"},
         NEW fault, Raw!NextRepresentation(i, fault), UNCHANGED <<server, entry>>
  PROVE  RawKeeps
<1>1. /\ Raw!Running(i) /\ session[i].key \in Representations /\ RawCall(i) /\ DOMAIN entry = Representations
      /\ session[i].started \in Nat /\ session[i].started <= server
      /\ \A k \in Representations : Raw!Readable(entry[k]) => Sound(entry[k])
  BY RawNow
<1>2. CASE /\ Raw!Key(i) + 1 \in Representations
           /\ Raw!Step(i, [pc |-> "lookup", key |-> Raw!Key(i) + 1, retried |-> FALSE, fault |-> fault \/ session[i].fault])
  <2>1. session'[i].pc = "lookup" /\ session'[i].started = session[i].started
    BY <1>2, RawGoing DEF RawFields
  <2>2. RawCall(i)'
    BY <1>1, <2>1 DEF RawCall, Holding
  <2> QED
    BY <1>1, <1>2, <2>2, RawMoves DEF RawFields
<1>3. CASE Raw!Step(i, [pc |-> "failed", fault |-> fault \/ session[i].fault])
  <2>1. session'[i].pc = "failed" /\ session'[i].started = session[i].started
    BY <1>3, RawGoing DEF RawFields
  <2>2. RawCall(i)'
    BY <1>1, <2>1 DEF RawCall, Holding
  <2> QED
    BY <1>1, <1>3, <2>2, RawMoves DEF RawFields
<1> QED
  BY <1>2, <1>3 DEF Raw!NextRepresentation

(* A session that only goes on, or ends, stays in order.                    *)
LEMMA RawGoesOn ==
  ASSUME RawTyped, RawInvariant, NEW i \in Calls, session[i].pc \in Holding, UNCHANGED <<server, entry>>,
         NEW changes, Raw!Step(i, changes), DOMAIN changes \subseteq {"pc", "retried", "fault"},
         "pc" \in DOMAIN changes, changes["pc"] \in Holding \cup {"ok", "failed", "dead"}
  PROVE  RawKeeps
<1>1. /\ Raw!Running(i) /\ session[i].key \in Representations /\ RawCall(i) /\ DOMAIN entry = Representations
      /\ session[i].started \in Nat /\ session[i].started <= server
      /\ \A k \in Representations : Raw!Readable(entry[k]) => Sound(entry[k])
  BY RawNow DEF Holding
<1>2. /\ session'[i].pc = changes["pc"] /\ session'[i].started = session[i].started
      /\ session'[i].seen = session[i].seen /\ session'[i].origin = session[i].origin
      /\ session'[i].body = session[i].body /\ session'[i].etag = session[i].etag
      /\ session'[i].key = session[i].key
  BY RawGoing DEF RawFields
<1>3. RawCall(i)'
  BY <1>1, <1>2 DEF RawCall, Holding
<1> QED
  BY <1>1, <1>3, RawMoves DEF RawFields

(* A body that parses is kept, another leads to a retry or to the next     *)
(* representation.                                                         *)
LEMMA ProjectKeeps ==
  ASSUME RawTyped, RawInvariant, NEW i \in Calls, Raw!Project(i)
  PROVE  RawKeeps
<1>1. session[i].pc = "project" /\ UNCHANGED <<server, entry>>
  BY DEF Raw!Project
<1>2. CASE Raw!Step(i, [pc |-> "retain"])
  BY <1>1, <1>2, RawGoesOn DEF Holding
<1>3. CASE Raw!Step(i, [pc |-> "retry", retried |-> TRUE])
  BY <1>1, <1>3, RawGoesOn DEF Holding
<1>4. CASE Raw!NextRepresentation(i, FALSE)
  BY <1>1, <1>4, NextRepresentationKeeps
<1>5. CASE Raw!Step(i, [pc |-> "rename"])
  BY <1>1, <1>5, RawGoesOn DEF Holding
<1> QED
  BY <1>2, <1>3, <1>4, <1>5 DEF Raw!Project

(* The steps that write no entry.                                           *)
LEMMA FileStepsKeep ==
  ASSUME RawTyped, RawInvariant, NEW i \in Calls,
         Raw!Rename(i) \/ Raw!Open(i) \/ Raw!Retain(i) \/ Raw!UseCached(i) \/ Raw!StorageFails(i) \/ Raw!Die(i)
  PROVE  RawKeeps
<1>1. CASE Raw!Rename(i)
  BY <1>1, RawGoesOn DEF Raw!Rename, Holding
<1>2. CASE Raw!Open(i)
  BY <1>2, RawGoesOn DEF Raw!Open, Holding
<1>3. CASE Raw!Retain(i)
  BY <1>3, RawGoesOn DEF Raw!Retain, Holding
<1>4. CASE Raw!UseCached(i)
  BY <1>4, RawGoesOn DEF Raw!UseCached, Holding
<1>5. CASE Raw!StorageFails(i)
  BY <1>5, RawGoesOn DEF Raw!StorageFails, Holding
<1>6. CASE Raw!Die(i)
  BY <1>6, RawGoesOn DEF Raw!Die, Holding
<1> QED
  BY <1>1, <1>2, <1>3, <1>4, <1>5, <1>6

(* What is written has the entity tag of its body.                          *)
LEMMA StoreKeeps ==
  ASSUME RawTyped, RawInvariant, NEW i \in Calls, session[i].pc = "store",
         session[i].origin \in {"200", "304"}, UNCHANGED server, Raw!Step(i, [pc |-> "ok"]),
         NEW e, entry' = [entry EXCEPT ![session[i].key] = e], Raw!Readable(e) => Sound(e)
  PROVE  RawKeeps
<1>1. /\ Raw!Running(i) /\ session[i].key \in Representations /\ RawCall(i) /\ DOMAIN entry = Representations
      /\ session[i].started \in Nat /\ session[i].started <= server
      /\ \A k \in Representations : Raw!Readable(entry[k]) => Sound(entry[k])
  BY RawNow
<1>2. /\ session'[i].pc = "ok" /\ session'[i].started = session[i].started
      /\ session'[i].origin = session[i].origin
      /\ session'[i].body = session[i].body /\ session'[i].etag = session[i].etag
  BY RawGoing DEF RawFields
<1>3. RawCall(i)'
  BY <1>1, <1>2 DEF RawCall, Holding
<1>4. DOMAIN entry' = Representations /\ \A k \in Representations : Raw!Readable(entry'[k]) => Sound(entry'[k])
  BY <1>1
<1> QED
  BY <1>1, <1>3, <1>4, RawMoves DEF RawFields

(* A new body is stored with its own entity tag.                           *)
LEMMA PublishKeeps ==
  ASSUME RawTyped, RawInvariant, NEW i \in Calls, Raw!Publish(i)
  PROVE  RawKeeps
<1> DEFINE e == IF session[i].cc = "NoStore" THEN Missing
                ELSE Raw!Entry(session[i].body, session[i].etag, session[i].cc, session[i].at, session[i].at)
<1>1. RawCall(i) /\ session[i].pc = "store" /\ session[i].origin = "200"
  BY DEF Raw!Publish, RawInvariant
<1>2. session[i].body = session[i].etag /\ session[i].etag \in Nat
  BY <1>1 DEF RawCall, Holding
<1>3. Raw!Readable(e) => Sound(e)
  BY <1>2 DEF Raw!Readable, Sound, Raw!Entry
<1>4. entry' = [entry EXCEPT ![session[i].key] = e] /\ Raw!Step(i, [pc |-> "ok"]) /\ UNCHANGED server
  BY DEF Raw!Publish, Raw!Key
<1> HIDE DEF e
<1> QED
  BY <1>1, <1>3, <1>4, StoreKeeps

(* A confirmed body keeps its entity tag.                                  *)
LEMMA UpdateKeeps ==
  ASSUME RawTyped, RawInvariant, NEW i \in Calls, Raw!UpdateValidatedAt(i)
  PROVE  RawKeeps
<1> DEFINE old == entry[session[i].key]
           e == IF session[i].cc = "NoStore" THEN Missing
                ELSE Raw!Entry(old.body, session[i].etag, session[i].cc, old.observed, clock)
<1>1. RawCall(i) /\ session[i].pc = "store" /\ session[i].origin = "304" /\ UNCHANGED server
  BY DEF Raw!UpdateValidatedAt, RawInvariant
<1>2. old = session[i].seen /\ Sound(old) /\ session[i].etag = old.etag
  BY <1>1 DEF RawCall, Holding
<1>3. Raw!Readable(e) => Sound(e)
  BY <1>2 DEF Raw!Readable, Sound, Raw!Entry
<1>4. CASE entry' = [entry EXCEPT ![session[i].key] = e] /\ Raw!Step(i, [pc |-> "ok"])
  <2> HIDE DEF e
  <2> QED
    BY <1>1, <1>3, <1>4, StoreKeeps
<1>5. CASE Raw!Step(i, [pc |-> "failed"]) /\ UNCHANGED entry
  BY <1>1, <1>5, RawGoesOn DEF Holding
<1> QED
  BY <1>4, <1>5 DEF Raw!UpdateValidatedAt, Raw!Key

(* All the steps of a session.                                             *)
LEMMA RawAcquireKeeps ==
  ASSUME Serial, RawTyped, RawInvariant, NEW i \in Calls, Raw!Acquire(i)
  PROVE  RawKeeps
<1>1. ASSUME NEW refresh \in BOOLEAN, Raw!Start(i, refresh) PROVE RawKeeps
  BY <1>1, StartKeeps
<1>2. CASE Raw!RequestFails(i)
  BY <1>2, NextRepresentationKeeps DEF Raw!RequestFails
<1>3. CASE Raw!Retry(i)
  BY <1>3, RawAnswerKeeps DEF Raw!Retry
<1> QED
  BY <1>1, <1>2, <1>3, LookupKeeps, RespondKeeps, ProjectKeeps, FileStepsKeep, PublishKeeps,
     UpdateKeeps DEF Raw!Acquire

(* The server's version only grows.                                         *)
LEMMA ServerKeeps ==
  ASSUME RawTyped, RawInvariant, Raw!ServerChanges
  PROVE  RawKeeps
<1>1. server' \in Nat /\ server' >= server /\ UNCHANGED <<entry, session>>
  BY DEF Raw!ServerChanges, RawTyped
<1>2. ASSUME NEW i \in Calls PROVE RawCall(i)'
  <2>1. RawCall(i)
    BY DEF RawInvariant
  <2>2. session[i].started \in Nat /\ session[i].started <= server => session[i].started <= server'
    BY <1>1 DEF RawTyped
  <2> QED
    BY <1>1, <2>1, <2>2 DEF RawCall
<1> QED
  BY <1>1, <1>2 DEF RawKeeps, RawTyped, RawInvariant, Raw!Running

(* A damaged entry can no longer be read.                                  *)
LEMMA DamageKeeps ==
  ASSUME RawTyped, RawInvariant, NEW k \in Representations, Raw!Damage(k)
  PROVE  RawKeeps
<1>1. /\ entry' = [entry EXCEPT ![k] = Corrupt] /\ UNCHANGED <<server, session>>
      /\ \A i \in Calls : ~Raw!Running(i)
  BY DEF Raw!Damage
<1>2. DOMAIN entry' = Representations /\ \A j \in Representations : Raw!Readable(entry'[j]) => Sound(entry'[j])
  BY <1>1 DEF RawTyped, RawInvariant, Raw!Readable
<1>3. ASSUME NEW i \in Calls PROVE RawCall(i)'
  BY <1>1 DEF RawInvariant, RawCall, Raw!Running, Holding
<1> QED
  BY <1>1, <1>2, <1>3 DEF RawKeeps, RawTyped, RawInvariant, Raw!Running

(* Every step keeps the invariant where sessions exclude each other.       *)
LEMMA RawStep == Serial /\ RawTyped /\ RawInvariant /\ [Raw!Next]_(Raw!vars) => RawTyped' /\ RawInvariant'
<1> SUFFICES ASSUME Serial, RawTyped, RawInvariant, [Raw!Next]_(Raw!vars) PROVE RawKeeps
  BY DEF RawKeeps
<1>1. CASE UNCHANGED <<server, entry, session>>
  BY <1>1 DEF RawKeeps, RawTyped, RawInvariant, RawCall, Raw!Running
<1>2. CASE Raw!Tick \/ Raw!Done \/ UNCHANGED Raw!vars
  BY <1>1, <1>2 DEF Raw!Tick, Raw!Done, Raw!vars
<1> QED
  BY <1>2, RawAcquireKeeps, ServerKeeps, DamageKeeps DEF Raw!Next

(* What the cache assumes is what the composition assumes.                 *)
LEMMA CacheConfigured == RawConfigured
  BY RawAssumption DEF RawConfigured, Sound

(* In the composition the other components leave what the cache uses alone. *)
LEMMA RefreshInit == Init => (which = "raw" => RawTyped /\ RawInvariant)
  BY CacheConfigured, RawStarts DEF Init

LEMMA RefreshNext ==
  ASSUME Serial
  PROVE  [Next]_vars /\ (which = "raw" => RawTyped /\ RawInvariant) => (which = "raw" => RawTyped /\ RawInvariant)'
<1> SUFFICES ASSUME [Next]_vars, which = "raw" => RawTyped /\ RawInvariant, which' = "raw"
             PROVE  RawTyped' /\ RawInvariant'
  OBVIOUS
<1>1. which = "raw" /\ [Raw!Next]_(Raw!vars)
  BY DEF Next, RawNext, CranNext, UniverseNext, GitNext, vars, rawOnly, Raw!vars
<1> QED
  BY <1>1, RawStep

(***************************************************************************)
(* A refresh that asked the server answers with a version the server had    *)
(* since the refresh began, whether the body came with a 200 or was         *)
(* confirmed by a 304, for any number of sessions that the refresh lock     *)
(* keeps apart, of representations and of damaged entries: no entry is      *)
(* replaced between a conditional request and its answer, and an entry      *)
(* never holds the entity tag of another body.                              *)
(***************************************************************************)
THEOREM RevalidatedCurrent == Spec => []RevalidatedIsCurrent
<1>1. CASE Serial
  <2>1. (which = "raw" => RawTyped /\ RawInvariant) => RevalidatedIsCurrent
    BY DEF RawInvariant, RawCall, RevalidatedIsCurrent, Raw!RevalidatedIsCurrent, Holding
  <2>2. [Next]_vars /\ (which = "raw" => RawTyped /\ RawInvariant) => (which = "raw" => RawTyped /\ RawInvariant)'
    BY <1>1, RefreshNext
  <2> QED
    BY <2>1, RefreshInit, <2>2, PTL DEF Spec
<1>2. CASE ~Serial
  <2>1. RevalidatedIsCurrent
    BY <1>2 DEF RevalidatedIsCurrent, Raw!RevalidatedIsCurrent
  <2> QED
    BY <2>1, PTL
<1> QED
  BY <1>1, <1>2

-----------------------------------------------------------------------------
(* The session over it (CranSession).                                       *)

Surfaces == [CranPackages -> Nat]

(* A listing that was answered with 404 is told apart from every surface.  *)
CranConfigured ==
    /\ CranTTL \in Nat /\ Releasing \subseteq CranPackages
    /\ Absent \notin Surfaces \cup {None, Failed}

(* Every package of the one surface is as new in the other.                *)
Before(a, b) == \A p \in CranPackages : a[p] <= b[p]

CranFields == {"pc", "refresh", "todo", "current", "history", "bulk", "result", "began"}

(* The shape of the state.  A qualification is validated at the moment of  *)
(* its comparison and never renewed without one.                           *)
CranTyped ==
    /\ clock \in Nat
    /\ canonical \in Surfaces /\ mirror \in Surfaces /\ Before(mirror, canonical)
    /\ DOMAIN session = CranFields /\ DOMAIN session.result = CranPackages
    /\ record # None => record.compared = record.validated

(* Where the session works on a package.                                   *)
Asking == {"package", "qualify", "feed", "compare", "bulk", "index", "unsupported", "invalid"}

(* Where the bulk feed is used, which needs the archive listing.             *)
Bulky == {"feed", "compare", "bulk"}

(* The order in which a forced refresh reads its sources: the current      *)
(* index after the session began, and the archive after the current        *)
(* index; nothing that was fetched earlier is reused.                      *)
Ordered ==
    /\ session.began \in Surfaces /\ Before(session.began, mirror)
    /\ session.pc = "current" => session.history = None /\ session.bulk \in {None, Failed}
    /\ session.pc \in Asking =>
          /\ session.current \in Surfaces
          /\ Before(session.began, session.current) /\ Before(session.current, mirror)
          /\ session.history = Absent => "history" \in absent
          /\ session.history \notin {None, Absent, Failed} =>
                session.history \in Surfaces /\ Before(session.current, session.history)
          /\ session.pc \in Bulky \/ session.bulk \notin {None, Failed} => Cran!HistoryAvailable
    /\ session.pc = "unsupported" => "index" \in absent

(* No answer lacks what the repository had when the session began.         *)
Complete ==
    ~({"history", "index"} \subseteq absent) =>
        \A p \in CranPackages : session.result[p] # None => 1 .. session.began[p] \subseteq session.result[p]

(* The invariant is only about forced refreshes.                           *)
CranInvariant == session.refresh => Ordered /\ Complete

(* What each step is shown to keep.                                        *)
CranKeeps == CranTyped' /\ CranInvariant'

(* What a step of the session changes in its local state.                  *)
LEMMA CranGoing ==
  ASSUME CranTyped, NEW changes, Cran!Set(changes)
  PROVE  /\ DOMAIN session' = CranFields
         /\ \A f \in CranFields : f \in DOMAIN changes => session'[f] = changes[f]
         /\ \A f \in CranFields : f \notin DOMAIN changes => session'[f] = session[f]
BY DEF Cran!Set, CranTyped

(* The invariant holds at first.                                           *)
LEMMA CranStarts == CranConfigured /\ Cran!Init => CranTyped /\ CranInvariant
<1> SUFFICES ASSUME CranConfigured, Cran!Init PROVE CranTyped /\ CranInvariant
  OBVIOUS
<1>1. canonical \in Surfaces /\ \A p \in CranPackages : canonical[p] = 2
  BY DEF Cran!Init, Surfaces
<1>2. \A b \in Cran!Behind : b \in Surfaces /\ \A p \in CranPackages : b[p] <= 2
  BY DEF Cran!Behind, Surfaces
<1>3. mirror \in Surfaces /\ Before(mirror, canonical)
  BY <1>1, <1>2 DEF Cran!Init, Before
<1>4. DOMAIN Cran!NoSession = CranFields /\ DOMAIN Cran!NoSession.result = CranPackages /\ Cran!NoSession.refresh = FALSE
  BY DEF Cran!NoSession, CranFields
<1> QED
  BY <1>1, <1>3, <1>4 DEF Cran!Init, CranTyped, CranInvariant

(* A surface is no older than itself.                                      *)
LEMMA BeforeItself ==
  ASSUME NEW a \in Surfaces PROVE Before(a, a)
<1>1. ASSUME NEW p \in CranPackages PROVE a[p] <= a[p]
  <2>1. a[p] \in Nat
    BY DEF Surfaces
  <2> QED
    BY <2>1
<1> QED
  BY <1>1 DEF Before

(* What is no older than a surface is no older than what came before it.   *)
LEMMA BeforeTrans ==
  ASSUME NEW a \in Surfaces, NEW b \in Surfaces, NEW c \in Surfaces, Before(a, b), Before(b, c)
  PROVE  Before(a, c)
<1>1. ASSUME NEW p \in CranPackages PROVE a[p] <= c[p]
  <2>1. a[p] \in Nat /\ b[p] \in Nat /\ c[p] \in Nat
    BY DEF Surfaces
  <2> QED
    BY <2>1 DEF Before
<1> QED
  BY <1>1 DEF Before

(* A step of the session that keeps its surfaces and its results.            *)
LEMMA CranGoesOn ==
  ASSUME CranTyped, CranInvariant, NEW changes, Cran!Set(changes), DOMAIN changes \subseteq {"pc", "todo", "bulk"},
         "pc" \in DOMAIN changes, changes["pc"] \in Asking \cup {"done"}, changes["pc"] # "unsupported",
         session.pc \in Asking \/ changes["pc"] = "done",
         session.refresh /\ Ordered /\ changes["pc"] \in Bulky => Cran!HistoryAvailable,
         session.refresh /\ Ordered /\ "bulk" \in DOMAIN changes =>
            Cran!HistoryAvailable \/ changes["bulk"] \in {None, Failed},
         UNCHANGED <<clock, canonical, mirror, absent>>, record' # None => record'.compared = record'.validated
  PROVE  CranKeeps
<1>1. /\ DOMAIN session' = CranFields /\ session'.pc = changes["pc"] /\ session'.refresh = session.refresh
      /\ session'.current = session.current /\ session'.history = session.history
      /\ session'.result = session.result /\ session'.began = session.began
      /\ session'.bulk = IF "bulk" \in DOMAIN changes THEN changes["bulk"] ELSE session.bulk
  BY CranGoing DEF CranFields
<1>2. CranTyped'
  BY <1>1 DEF CranTyped, Before
<1>3. session.refresh /\ Ordered => Ordered'
  BY <1>1 DEF Ordered, Before, Asking, Bulky, Cran!HistoryAvailable
<1>4. Complete => Complete'
  BY <1>1 DEF Complete
<1> QED
  BY <1>1, <1>2, <1>3, <1>4 DEF CranKeeps, CranInvariant

(* Answering for a package.                                                  *)
LEMMA AnswerKeeps ==
  ASSUME CranTyped, CranInvariant, session.pc \in Asking, NEW versions, Cran!Candidates(session.todo, versions),
         UNCHANGED <<clock, canonical, mirror, absent, record>>,
         session.refresh /\ Ordered /\ session.todo \in CranPackages /\ ~({"history", "index"} \subseteq absent) =>
            1 .. session.began[session.todo] \subseteq versions
  PROVE  CranKeeps
<1> DEFINE p == session.todo
           changes == [pc |-> "package", todo |-> p + 1, result |-> [session.result EXCEPT ![p] = versions]]
<1>0. Cran!Set(changes)
  BY DEF Cran!Candidates
<1>1. /\ DOMAIN session' = CranFields /\ session'.pc = "package" /\ session'.refresh = session.refresh
      /\ session'.current = session.current /\ session'.history = session.history
      /\ session'.result = [session.result EXCEPT ![p] = versions] /\ session'.began = session.began
      /\ session'.bulk = session.bulk
  BY <1>0, CranGoing DEF CranFields
<1>2. CranTyped'
  BY <1>1 DEF CranTyped, Before
<1>3. session.refresh /\ Ordered => Ordered'
  BY <1>1 DEF Ordered, Before, Asking, Bulky, Cran!HistoryAvailable
<1>4. session.refresh /\ Ordered /\ Complete => Complete'
  BY <1>1 DEF Complete, CranTyped
<1> QED
  BY <1>1, <1>2, <1>3, <1>4 DEF CranKeeps, CranInvariant

(* What the history has, with the current release, is what there was.        *)
LEMMA HistoryIsEnough ==
  ASSUME NEW began \in Nat, NEW current \in Nat, NEW latest \in Nat, began <= current, current <= latest
  PROVE  1 .. began \subseteq {current} \cup ((1 .. (latest - 1)) \ {current})
OBVIOUS

(* A listing that was read after the current index has, with it, every     *)
(* release there was.                                                      *)
LEMMA OlderIsEnough ==
  ASSUME CranTyped, session.refresh, Ordered, session.pc \in Asking, Cran!HistoryAvailable, NEW p \in CranPackages
  PROVE  1 .. session.began[p] \subseteq Cran!candidates(p) \cup Cran!Older(session.history, p)
<1>1. /\ session.began[p] \in Nat /\ session.current[p] \in Nat /\ session.history[p] \in Nat
      /\ session.began[p] <= session.current[p] /\ session.current[p] <= session.history[p]
  BY DEF Ordered, Before, Surfaces, Cran!HistoryAvailable
<1> QED
  BY <1>1, HistoryIsEnough DEF Cran!Older, Cran!archived, Cran!candidates

(* A session begins with the surface of the repository and nothing in      *)
(* hand.                                                                   *)
LEMMA CranStart ==
  ASSUME CranTyped, CranInvariant, NEW refresh \in BOOLEAN, Cran!Start(refresh)
  PROVE  CranKeeps
<1>1. /\ DOMAIN session' = CranFields /\ session'.pc = "current" /\ session'.refresh = refresh
      /\ session'.history = None /\ session'.began = mirror /\ session'.bulk \in {None, Failed}
      /\ session'.result = [p \in CranPackages |-> None]
      /\ UNCHANGED <<clock, canonical, mirror, absent, record>>
  BY DEF Cran!Start, Cran!NoSession, CranFields, Cran!world
<1>2. CranTyped'
  BY <1>1 DEF CranTyped, Before
<1>3. Ordered'
  BY <1>1 DEF Ordered, CranTyped, Before, Asking, Surfaces
<1>4. Complete'
  BY <1>1 DEF Complete
<1> QED
  BY <1>2, <1>3, <1>4 DEF CranKeeps, CranInvariant

(* A forced refresh reuses nothing.                                          *)
LEMMA NothingReused ==
  ASSUME session.refresh, NEW s, NEW now PROVE Cran!Acquired(s, now) = now
BY DEF Cran!Acquired, Cran!Reusable

(* The current index is read.                                              *)
LEMMA CranCurrent ==
  ASSUME CranConfigured, CranTyped, CranInvariant, Cran!EnsureCurrent
  PROVE  CranKeeps
<1>1. UNCHANGED <<clock, canonical, mirror, absent, record>> /\ session.pc = "current"
  BY DEF Cran!EnsureCurrent, Cran!world
<1>2. CASE Cran!Abort
  BY <1>1, <1>2, CranGoesOn DEF Cran!Abort, CranTyped, Bulky
<1>3. CASE Cran!Set([pc |-> "package", todo |-> 1, current |-> Cran!Acquired(<<"current">>, mirror)])
  <2>1. /\ DOMAIN session' = CranFields /\ session'.pc = "package" /\ session'.refresh = session.refresh
        /\ session'.current = Cran!Acquired(<<"current">>, mirror)
        /\ session'.history = session.history /\ session'.began = session.began /\ session'.result = session.result
        /\ session'.bulk = session.bulk
    BY <1>3, CranGoing DEF CranFields
  <2>2. CranTyped'
    BY <1>1, <2>1 DEF CranTyped, Before
  <2>3. ASSUME session.refresh, Ordered PROVE Ordered'
    <3>1. session'.current = mirror
      BY <2>1, <2>3, NothingReused
    <3>2. Before(mirror, mirror)
      BY BeforeItself DEF CranTyped
    <3>3. session.history = None /\ None # Absent /\ session.bulk \in {None, Failed}
      BY <1>1, <2>3 DEF Ordered, CranConfigured
    <3>4. mirror \in Surfaces /\ mirror' = mirror /\ session.began \in Surfaces /\ Before(session.began, mirror)
      BY <1>1, <2>3 DEF Ordered, CranTyped
    <3> QED
      BY <2>1, <3>1, <3>2, <3>3, <3>4 DEF Ordered, Before, Bulky
  <2>4. Complete => Complete'
    BY <1>1, <2>1 DEF Complete
  <2> QED
    BY <2>1, <2>2, <2>3, <2>4 DEF CranKeeps, CranInvariant
<1> QED
  BY <1>2, <1>3 DEF Cran!EnsureCurrent

(* The history is read after the current index, or not at all.               *)
LEMMA HistoryKeeps ==
  ASSUME CranConfigured, CranTyped, CranInvariant, session.pc \in Asking,
         NEW next \in {"qualify", "unsupported", "invalid"}, next = "unsupported" => "index" \in absent,
         Cran!EnsureHistory(next), UNCHANGED <<clock, canonical, mirror, absent, record>>
  PROVE  CranKeeps
<1>1. /\ DOMAIN session' = CranFields /\ session'.pc = next /\ session'.refresh = session.refresh
      /\ session'.current = session.current /\ session'.began = session.began /\ session'.result = session.result
      /\ session'.bulk = session.bulk
      /\ session.history # None => session'.history = session.history
      /\ \/ session'.history = session.history
         \/ session'.history = Absent /\ "history" \in absent
         \/ session'.history = Cran!Acquired(<<"history">>, mirror)
         \/ session'.history = Failed
  <2>1. CASE Cran!Set([pc |-> next])
    BY <2>1, CranGoing DEF CranFields
  <2>2. CASE session.history = None /\ "history" \in absent /\ Cran!Set([pc |-> next, history |-> Absent])
    BY <2>2, CranGoing DEF CranFields
  <2>3. CASE session.history = None /\ Cran!Set([pc |-> next, history |-> Cran!Acquired(<<"history">>, mirror)])
    BY <2>3, CranGoing DEF CranFields
  <2>4. CASE session.history = None /\ Cran!Set([pc |-> next, history |-> Failed])
    BY <2>4, CranGoing DEF CranFields
  <2> QED
    BY <2>1, <2>2, <2>3, <2>4 DEF Cran!EnsureHistory
<1>2. CranTyped'
  BY <1>1 DEF CranTyped, Before
<1>3. ASSUME session.refresh, Ordered PROVE Ordered'
  <2>1. Cran!Acquired(<<"history">>, mirror) = mirror /\ mirror \in Surfaces
    BY <1>3, NothingReused DEF CranTyped
  <2>2. Absent # None /\ Absent # Failed /\ Absent # mirror
    BY <2>1 DEF CranConfigured
  <2>3. /\ session.began \in Surfaces /\ Before(session.began, mirror)
        /\ session.current \in Surfaces
        /\ Before(session.began, session.current) /\ Before(session.current, mirror)
        /\ session.history = Absent => "history" \in absent
        /\ session.history \notin {None, Absent, Failed} =>
              session.history \in Surfaces /\ Before(session.current, session.history)
    BY <1>3 DEF Ordered
  <2>4. /\ session'.history = Absent => "history" \in absent
        /\ session'.history \notin {None, Absent, Failed} =>
              session'.history \in Surfaces /\ Before(session.current, session'.history)
    BY <1>1, <2>1, <2>2, <2>3
  <2>5. next \notin Bulky /\ (session.bulk \notin {None, Failed} => Cran!HistoryAvailable')
    BY <1>1, <1>3 DEF Ordered, Cran!HistoryAvailable, Bulky
  <2> QED
    BY <1>1, <2>3, <2>4, <2>5 DEF Ordered, Before
<1>4. Complete => Complete'
  BY <1>1 DEF Complete
<1> QED
  BY <1>1, <1>2, <1>3, <1>4 DEF CranKeeps, CranInvariant

(* The next package, for which the session may have what it needs.         *)
LEMMA CranPackage ==
  ASSUME CranConfigured, CranTyped, CranInvariant, Cran!Package
  PROVE  CranKeeps
<1>1. UNCHANGED <<clock, canonical, mirror, absent, record>> /\ session.pc = "package"
  BY DEF Cran!Package, Cran!world
<1>2. CASE Cran!Abort
  BY <1>1, <1>2, CranGoesOn DEF Cran!Abort, CranTyped, Asking, Bulky
<1>3. CASE Cran!Set([pc |-> "index"])
  BY <1>1, <1>3, CranGoesOn DEF CranTyped, Asking, Bulky
<1>5. CASE session.bulk \notin {None, Failed} /\ Cran!Set([pc |-> "bulk"])
  <2>1. session.refresh /\ Ordered => Cran!HistoryAvailable
    BY <1>1, <1>5 DEF Ordered, Asking
  <2> QED
    BY <1>1, <1>5, <2>1, CranGoesOn DEF CranTyped, Asking
<1>4. CASE Cran!EnsureHistory("qualify")
  BY <1>1, <1>4, HistoryKeeps DEF Asking
<1> QED
  BY <1>2, <1>3, <1>4, <1>5 DEF Cran!Package

(* The repository is qualified only where the archive listing is there.    *)
LEMMA CranQualify ==
  ASSUME CranTyped, CranInvariant, Cran!Qualify
  PROVE  CranKeeps
<1>1. UNCHANGED <<clock, canonical, mirror, absent, record>> /\ session.pc = "qualify"
  BY DEF Cran!Qualify, Cran!world
<1>2. CASE Cran!Set([pc |-> "index"]) \/ Cran!Set([pc |-> "index", bulk |-> Failed])
  BY <1>1, <1>2, CranGoesOn DEF CranTyped, Asking, Bulky
<1>3. CASE Cran!HistoryAvailable /\ Cran!Set([pc |-> "feed"])
  BY <1>1, <1>3, CranGoesOn DEF CranTyped, Asking
<1> QED
  BY <1>2, <1>3 DEF Cran!Qualify

(* A failure is recorded with the moment of the comparison.                  *)
LEMMA FailureIsDated ==
  ASSUME NEW status, NEW fed, Cran!Failure(status, fed)
  PROVE  record'.compared = record'.validated
BY DEF Cran!Failure

(* The feed is read, or given up.                                          *)
LEMMA CranFeed ==
  ASSUME CranTyped, CranInvariant, Cran!Feed
  PROVE  CranKeeps
<1>1. UNCHANGED <<clock, canonical, mirror, absent>> /\ session.pc = "feed"
  BY DEF Cran!Feed, Cran!world
<1>2. record' # None => record'.compared = record'.validated
  BY FailureIsDated DEF Cran!Feed, CranTyped
<1>3. \/ Cran!Set([pc |-> "index"]) \/ Cran!Set([pc |-> "index", bulk |-> Failed])
      \/ Cran!Set([pc |-> "compare", bulk |-> Cran!Acquired(<<"feed">>, feed)])
  BY DEF Cran!Feed
<1>4. session.refresh /\ Ordered => Cran!HistoryAvailable
  BY <1>1 DEF Ordered, Asking, Bulky
<1> QED
  BY <1>1, <1>2, <1>3, <1>4, CranGoesOn DEF Asking

(* The surfaces are compared, or a recent comparison is reused.            *)
LEMMA CranCompare ==
  ASSUME CranTyped, CranInvariant, Cran!Compare
  PROVE  CranKeeps
<1>1. UNCHANGED <<clock, canonical, mirror, absent>> /\ session.pc = "compare"
  BY DEF Cran!Compare, Cran!world
<1>2. record' # None => record'.compared = record'.validated
  BY FailureIsDated DEF Cran!Compare, CranTyped, Cran!positive
<1>3. Cran!Set([pc |-> "bulk"]) \/ Cran!Set([pc |-> "index", bulk |-> None])
  BY DEF Cran!Compare
<1>4. session.refresh /\ Ordered => Cran!HistoryAvailable
  BY <1>1 DEF Ordered, Asking, Bulky
<1> QED
  BY <1>1, <1>2, <1>3, <1>4, CranGoesOn DEF Asking

(* A package the bulk feed answers for: the archive listing is as          *)
(* complete as ever.                                                       *)
LEMMA CranBulk ==
  ASSUME CranTyped, CranInvariant, Cran!Bulk
  PROVE  CranKeeps
<1> DEFINE p == session.todo
<1>1. UNCHANGED <<clock, canonical, mirror, absent, record>> /\ session.pc = "bulk"
  BY DEF Cran!Bulk, Cran!world
<1>2. CASE Cran!Abort
  BY <1>1, <1>2, CranGoesOn DEF Cran!Abort, CranTyped, Asking, Bulky
<1>3. CASE Cran!Set([pc |-> "index"])
  BY <1>1, <1>3, CranGoesOn DEF CranTyped, Asking, Bulky
<1>4. CASE Cran!Candidates(p, Cran!candidates(p) \cup Cran!Older(session.history, p))
  <2>1. session.refresh /\ Ordered => Cran!HistoryAvailable
    BY <1>1 DEF Ordered, Asking, Bulky
  <2>2. session.refresh /\ Ordered /\ p \in CranPackages =>
            1 .. session.began[p] \subseteq Cran!candidates(p) \cup Cran!Older(session.history, p)
    BY <1>1, <2>1, OlderIsEnough DEF Asking
  <2> QED
    BY <1>1, <1>4, <2>2, AnswerKeeps DEF Asking
<1> QED
  BY <1>2, <1>3, <1>4 DEF Cran!Bulk

(* The archive index is read after the current index too.                    *)
LEMMA IndexIsEnough ==
  ASSUME CranTyped, session.refresh, Ordered, session.pc \in Asking, NEW p \in CranPackages
  PROVE  1 .. session.began[p] \subseteq Cran!load(p, Cran!Acquired(Cran!Index(p), mirror[p]))
<1>1. /\ session.began[p] \in Nat /\ session.current[p] \in Nat /\ mirror[p] \in Nat
      /\ session.began[p] <= session.current[p] /\ session.current[p] <= mirror[p]
  BY DEF Ordered, Before, Surfaces, CranTyped
<1>2. Cran!Acquired(Cran!Index(p), mirror[p]) = mirror[p]
  BY NothingReused
<1> QED
  BY <1>1, <1>2, HistoryIsEnough DEF Cran!load, Cran!archived, Cran!candidates

(* The archive index of the package, or the listing in its place.          *)
LEMMA CranFastPath ==
  ASSUME CranConfigured, CranTyped, CranInvariant, Cran!FastPath
  PROVE  CranKeeps
<1> DEFINE p == session.todo
<1>1. UNCHANGED <<clock, canonical, mirror, absent, record>> /\ session.pc = "index"
  BY DEF Cran!FastPath, Cran!world
<1>2. CASE Cran!Candidates(p, Cran!load(p, Cran!Acquired(Cran!Index(p), mirror[p])))
  <2>1. session.refresh /\ Ordered /\ p \in CranPackages =>
            1 .. session.began[p] \subseteq Cran!load(p, Cran!Acquired(Cran!Index(p), mirror[p]))
    BY <1>1, IndexIsEnough DEF Asking
  <2> QED
    BY <1>1, <1>2, <2>1, AnswerKeeps DEF Asking
<1>3. CASE Cran!EnsureHistory(IF "index" \in absent THEN "unsupported" ELSE "invalid")
  BY <1>1, <1>3, HistoryKeeps DEF Asking
<1>4. CASE Cran!Abort
  BY <1>1, <1>4, CranGoesOn DEF Cran!Abort, CranTyped, Asking, Bulky
<1> QED
  BY <1>2, <1>3, <1>4 DEF Cran!FastPath

(* The archive listing, or the current release alone where the repository  *)
(* has no archive at all.                                                  *)
LEMMA CranFallback ==
  ASSUME CranTyped, CranInvariant, Cran!Fallback
  PROVE  CranKeeps
<1> DEFINE p == session.todo
<1>1. UNCHANGED <<clock, canonical, mirror, absent, record>> /\ session.pc \in {"unsupported", "invalid"}
  BY DEF Cran!Fallback, Cran!world
<1>2. CASE Cran!HistoryAvailable /\ Cran!Candidates(p, Cran!load_fallback(p))
  <2>1. session.refresh /\ Ordered /\ p \in CranPackages => 1 .. session.began[p] \subseteq Cran!load_fallback(p)
    BY <1>1, <1>2, OlderIsEnough DEF Asking, Cran!load_fallback
  <2> QED
    BY <1>1, <1>2, <2>1, AnswerKeeps DEF Asking
<1>3. CASE session.pc = "unsupported" /\ session.history = Absent /\ Cran!Candidates(p, Cran!candidates(p))
  <2>1. session.refresh /\ Ordered => {"history", "index"} \subseteq absent
    BY <1>3 DEF Ordered, Asking
  <2> QED
    BY <1>1, <1>3, <2>1, AnswerKeeps DEF Asking
<1>4. CASE Cran!Abort
  BY <1>1, <1>4, CranGoesOn DEF Cran!Abort, CranTyped, Asking, Bulky
<1> QED
  BY <1>2, <1>3, <1>4 DEF Cran!Fallback

(* The session ends and forgets.                                           *)
LEMMA CranEnd ==
  ASSUME CranTyped, CranInvariant, Cran!End
  PROVE  CranKeeps
<1>1. session' = Cran!NoSession /\ UNCHANGED <<clock, canonical, mirror, absent, record>>
  BY DEF Cran!End, Cran!world
<1>2. DOMAIN Cran!NoSession = CranFields /\ DOMAIN Cran!NoSession.result = CranPackages /\ Cran!NoSession.refresh = FALSE
  BY DEF Cran!NoSession, CranFields
<1> QED
  BY <1>1, <1>2 DEF CranKeeps, CranTyped, CranInvariant, Before

(* The servers only add releases, and the mirror only catches up.            *)
LEMMA WorldKeeps ==
  ASSUME CranConfigured, CranTyped, CranInvariant, UNCHANGED <<absent, record, session>>, clock' \in Nat,
         canonical' \in Surfaces, mirror' \in Surfaces, Before(mirror, mirror'), Before(mirror', canonical')
  PROVE  CranKeeps
<1>1. CranTyped'
  BY DEF CranTyped, Before
<1>2. ASSUME session.refresh, Ordered PROVE Ordered'
  <2>1. mirror \in Surfaces
    BY DEF CranTyped
  <2>2. Before(session.began, mirror')
    BY <1>2, <2>1, BeforeTrans DEF Ordered
  <2>3. session.pc \in Asking => Before(session.current, mirror')
    BY <1>2, <2>1, BeforeTrans DEF Ordered
  <2> QED
    BY <1>2, <2>2, <2>3 DEF Ordered, Before, Cran!HistoryAvailable
<1>3. Complete => Complete'
  BY DEF Complete
<1> QED
  BY <1>1, <1>2, <1>3 DEF CranKeeps, CranInvariant

(* Time passes, CRAN releases, and the repository and the feed catch up.   *)
LEMMA CranWorld ==
  ASSUME CranConfigured, CranTyped, CranInvariant,
         Cran!Tick \/ (\E p \in Releasing : Cran!Release(p)) \/ Cran!SyncMirror \/ Cran!SyncFeed
  PROVE  CranKeeps
<1>0. canonical \in Surfaces /\ mirror \in Surfaces /\ Before(mirror, canonical) /\ clock \in Nat
  BY DEF CranTyped
<1>1. Before(mirror, mirror) /\ Before(canonical, canonical)
  BY <1>0, BeforeItself
<1>2. CASE Cran!Tick
  BY <1>0, <1>1, <1>2, WorldKeeps DEF Cran!Tick, Cran!world
<1>3. CASE Cran!SyncFeed
  BY <1>0, <1>1, <1>3, WorldKeeps DEF Cran!SyncFeed
<1>4. CASE Cran!SyncMirror
  BY <1>0, <1>1, <1>4, WorldKeeps DEF Cran!SyncMirror
<1>5. ASSUME NEW p \in Releasing, Cran!Release(p) PROVE CranKeeps
  <2>1. p \in CranPackages /\ canonical' = [canonical EXCEPT ![p] = @ + 1] /\ UNCHANGED <<clock, absent, record, session>>
    BY <1>5 DEF Cran!Release, CranConfigured
  <2>2. canonical' \in Surfaces
    BY <1>0, <2>1 DEF Surfaces
  <2>3. ASSUME NEW q \in CranPackages PROVE canonical[q] <= canonical'[q]
    <3>1. canonical[q] \in Nat /\ canonical'[q] = IF q = p THEN canonical[q] + 1 ELSE canonical[q]
      BY <1>0, <2>1 DEF Surfaces
    <3> QED
      BY <3>1
  <2>4. Before(canonical, canonical')
    BY <2>3 DEF Before
  <2>5. Before(mirror, canonical') /\ Before(canonical', canonical')
    BY <1>0, <2>2, <2>4, BeforeTrans, BeforeItself
  <2>6. mirror' = mirror \/ mirror' = canonical'
    BY <1>5 DEF Cran!Release
  <2> QED
    BY <1>0, <1>1, <2>1, <2>2, <2>5, <2>6, WorldKeeps
<1> QED
  BY <1>2, <1>3, <1>4, <1>5

(* Every step keeps the invariant.                                         *)
LEMMA CranStep == CranConfigured /\ CranTyped /\ CranInvariant /\ [Cran!Next]_(Cran!vars) => CranTyped' /\ CranInvariant'
<1> SUFFICES ASSUME CranConfigured, CranTyped, CranInvariant, [Cran!Next]_(Cran!vars) PROVE CranKeeps
  BY DEF CranKeeps
<1>1. CASE UNCHANGED Cran!vars
  <2>1. Before(mirror, mirror)
    BY BeforeItself DEF CranTyped
  <2> QED
    BY <1>1, <2>1, WorldKeeps DEF CranTyped, Cran!vars
<1>2. CASE Cran!Finished
  BY <1>1, <1>2 DEF Cran!Finished
<1> QED
  BY <1>1, <1>2, CranStart, CranCurrent, CranPackage, CranQualify, CranFeed, CranCompare, CranBulk,
     CranFastPath,
     CranFallback, CranEnd, CranWorld DEF Cran!Next

LEMMA ReuseStep == CranConfigured /\ CranTyped /\ [Cran!Next]_(Cran!vars) => Cran!ReuseIsRecent
<1> SUFFICES ASSUME CranConfigured, CranTyped, [Cran!Next]_(Cran!vars),
                    session.pc = "compare", session'.pc = "bulk", kind # "cran"
             PROVE  /\ record'.current = session.current /\ record'.archive = session.history
                    /\ clock - record'.compared <= CranTTL
  BY DEF Cran!ReuseIsRecent
<1>1. Cran!Compare
  <2>1. session' # session
    OBVIOUS
  <2> QED
    BY <2>1 DEF Cran!Next, Cran!vars, Cran!Start, Cran!EnsureCurrent, Cran!Package, Cran!Qualify,
       Cran!Feed, Cran!Bulk, Cran!FastPath, Cran!Fallback, Cran!End, Cran!Tick,
       Cran!Release, Cran!SyncMirror, Cran!SyncFeed, Cran!Finished
<1>2. CASE Cran!qualification_reusable /\ UNCHANGED record
  <2>1. record # None /\ record.current = session.current /\ record.archive = session.history
        /\ clock - record.validated <= CranTTL
    BY <1>2 DEF Cran!qualification_reusable, Cran!matches, Cran!positive_reusable
  <2> QED
    BY <1>2, <2>1 DEF CranTyped
<1>3. CASE record' = Cran!positive(clock, clock)
  <2>1. record'.compared = clock /\ record'.current = session.current /\ record'.archive = session.history
    BY <1>3 DEF Cran!positive
  <2>2. clock \in Nat /\ CranTTL \in Nat
    BY DEF CranTyped, CranConfigured
  <2>3. clock - clock <= CranTTL
    BY <2>2
  <2> QED
    BY <2>1, <2>3
<1>4. CASE Cran!Set([pc |-> "index", bulk |-> None])
  <2>1. session'.pc = "index"
    BY <1>4, CranGoing DEF CranFields
  <2> QED
    BY <2>1
<1> QED
  BY <1>1, <1>2, <1>3, <1>4 DEF Cran!Compare

(* What the session assumes is what the composition assumes.               *)
LEMMA SessionConfigured == CranConfigured
  BY CranAssumption DEF CranConfigured, Surfaces

(* In the composition the other components leave what the session uses      *)
(* alone.                                                                   *)
LEMMA SessionNow ==
  ASSUME [Next]_vars, which = "cran" \/ which' = "cran"
  PROVE  which = "cran" /\ which' = "cran" /\ [Cran!Next]_(Cran!vars)
BY DEF Next, RawNext, CranNext, UniverseNext, GitNext, vars, cranOnly, Cran!vars

LEMMA SessionInit == Init => (which = "cran" => CranTyped /\ CranInvariant)
  BY SessionConfigured, CranStarts DEF Init

LEMMA SessionNext ==
    [Next]_vars /\ (which = "cran" => CranTyped /\ CranInvariant) => (which = "cran" => CranTyped /\ CranInvariant)'
  BY SessionNow, SessionConfigured, CranStep

(***************************************************************************)
(* A forced refresh loses no release that the repository had when the       *)
(* session began, for any number of packages and of sessions before it,     *)
(* although the index, the archive and the bulk feed are read one after     *)
(* the other from servers that change and lag behind each other meanwhile.  *)
(***************************************************************************)
THEOREM NoReleaseLost == Spec => []NoReleaseVanishes
<1>1. (which = "cran" => CranTyped /\ CranInvariant) => NoReleaseVanishes
  BY DEF CranInvariant, Complete, NoReleaseVanishes, Cran!NoReleaseVanishes
<1> QED
  BY <1>1, SessionInit, SessionNext, PTL DEF Spec

(***************************************************************************)
(* A repository is trusted with the bulk feed only on the ground of a       *)
(* comparison of the very surface the session sees, made no longer than     *)
(* the lifetime of the metadata ago, however many sessions reused the       *)
(* decision.                                                                *)
(***************************************************************************)
THEOREM QualificationsAreRecent == Spec => QualificationsExpire
<1>1. (which = "cran" => CranTyped /\ CranInvariant) /\ [Next]_vars => [which = "cran" => Cran!ReuseIsRecent]_vars
  BY SessionNow, SessionConfigured, ReuseStep
<1> QED
  BY <1>1, SessionInit, SessionNext, PTL DEF Spec, QualificationsExpire


-----------------------------------------------------------------------------
(* The r-universe provider (RUniverse): a catalogue read in several         *)
(* requests without a lock is still a catalogue that was offered, and a     *)
(* view that another call published answers no worse than a fetch of one's  *)
(* own.                                                                     *)

(* A server has something, or nothing, for each package, and an allowlist  *)
(* names packages.                                                         *)
Configured ==
    /\ FirstEntries \subseteq [Packages -> Offerable]
    /\ Changing \subseteq Endpoints
    /\ \A scope \in Scopes : scope = All \/ scope \subseteq Packages

States == [Endpoints -> [Packages -> Offerable]]
Fields == {"pc", "endpoint", "scope", "mode", "todo", "got", "began", "view", "error"}
ViewFields == {"sequence", "intact", "scope", "endpoint", "content", "began", "ended"}
ViewKeys == Endpoints \X Scopes

Typed ==
    /\ history \in Seq(States) /\ Len(history) > 0
    /\ DOMAIN views = ViewKeys
    /\ DOMAIN call = Calls /\ \A c \in Calls : DOMAIN call[c] = Fields

Names(i, endpoint) == {p \in Packages : history[i][endpoint][p] # Absent}
AskedFor(scope) == IF scope = All THEN Packages ELSE scope

(* Every offered a call holds was there since the call began.                *)
Fetched(c) ==
    \A p \in DOMAIN call[c].got : \E i \in call[c].began .. Len(history) :
        /\ history[i][call[c].endpoint][p] # Absent
        /\ call[c].got[p] = history[i][call[c].endpoint][p]

(* These were all the names there were at a moment since the call began.   *)
Catalogue(c, names) ==
    \E i \in call[c].began .. Len(history) : names = Names(i, call[c].endpoint)

Active == {"open", "fetch", "single", "list", "bulk", "publish"}

(* How far a call is, and what it has gathered there.                      *)
Fetching(c) ==
    /\ call[c].pc \in Active =>
          /\ call[c].endpoint \in Endpoints /\ call[c].scope \in Scopes
          /\ call[c].began \in 1 .. Len(history)
    /\ call[c].pc = "open" => call[c].mode # "refresh"
    /\ call[c].pc \in {"list", "bulk"} => call[c].scope = All
    /\ call[c].pc = "single" =>
          /\ call[c].scope # All /\ call[c].todo \subseteq call[c].scope
          /\ DOMAIN call[c].got = call[c].scope \ call[c].todo /\ Fetched(c)
    /\ call[c].pc = "bulk" => Catalogue(c, call[c].todo)
    /\ call[c].pc = "publish" =>
          /\ Fetched(c)
          /\ call[c].scope = All => Catalogue(c, DOMAIN call[c].got)
          /\ call[c].scope # All => DOMAIN call[c].got = call[c].scope

(* What a view promises about the packages it covers.                      *)
Offers(view, packages) ==
    /\ view.began \in 1 .. Len(history) /\ view.ended \in view.began .. Len(history)
    /\ \A p \in packages : \E i \in view.began .. view.ended :
          Universe!Answer(view, p) = Universe!Offered(history[i][view.endpoint], p)

GoodView(view, k) ==
    /\ DOMAIN view = ViewFields /\ view.endpoint = k[1]
    /\ Offers(view, AskedFor(k[2]))
    /\ k[2] = All => \E i \in view.began .. view.ended : DOMAIN view.content = Names(i, k[1])

Answered(c) ==
    /\ call[c].pc # "done" => call[c].view = None
    /\ call[c].view # None =>
          /\ Offers(call[c].view, AskedFor(call[c].scope))
          /\ call[c].mode = "refresh" => call[c].view.began >= call[c].began

GoodCall(c) == Fetching(c) /\ Answered(c)

FetchInvariant ==
    /\ \A c \in Calls : GoodCall(c)
    /\ \A k \in ViewKeys : views[k] # None => GoodView(views[k], k)

-----------------------------------------------------------------------------
(* Calls.                                                                  *)

(* What a step of a call changes in its local state.                       *)
LEMMA Going ==
  ASSUME Typed, NEW c \in Calls, NEW changes, Universe!Goto(c, changes)
  PROVE  /\ DOMAIN call' = Calls /\ \A d \in Calls : DOMAIN call'[d] = Fields
         /\ \A d \in Calls : d # c => call'[d] = call[d]
         /\ \A f \in Fields : f \in DOMAIN changes => call'[c][f] = changes[f]
         /\ \A f \in Fields : f \notin DOMAIN changes => call'[c][f] = call[c][f]
<1>1. call' = [call EXCEPT ![c] = [f \in Fields |-> IF f \in DOMAIN changes THEN changes[f] ELSE call[c][f]]]
  BY DEF Universe!Goto, Typed
<1>2. call'[c] = [f \in Fields |-> IF f \in DOMAIN changes THEN changes[f] ELSE call[c][f]]
  BY <1>1 DEF Typed
<1> QED
  BY <1>1, <1>2 DEF Typed

(* A call that fails is left with nothing.                                 *)
LEMMA Failing ==
  ASSUME Typed, NEW c \in Calls, NEW error, Universe!Fail(c, error)
  PROVE  /\ DOMAIN call' = Calls /\ \A d \in Calls : DOMAIN call'[d] = Fields
         /\ \A d \in Calls : d # c => call'[d] = call[d]
         /\ call'[c].pc = "done" /\ call'[c].view = None
<1>1. call' = [call EXCEPT ![c] = [Universe!NotStarted EXCEPT !.pc = "done", !.error = error]]
  BY DEF Universe!Fail
<1>2. DOMAIN Universe!NotStarted = Fields
  BY DEF Universe!NotStarted, Fields
<1>3. DOMAIN [Universe!NotStarted EXCEPT !.pc = "done", !.error = error] = Fields
  BY <1>2
<1>4. /\ [Universe!NotStarted EXCEPT !.pc = "done", !.error = error].pc = "done"
      /\ [Universe!NotStarted EXCEPT !.pc = "done", !.error = error].view = None
  BY DEF Universe!NotStarted
<1> QED
  BY <1>1, <1>3, <1>4 DEF Typed

(* A call that failed holds no answer to judge.                            *)
LEMMA FailedIsGood ==
  ASSUME NEW c \in Calls, call'[c].pc = "done", call'[c].view = None
  PROVE  GoodCall(c)'
BY DEF GoodCall, Fetching, Answered, Active

-----------------------------------------------------------------------------
(* The past does not change.                                               *)

(* The servers may only have gone through more states.                     *)
Grows ==
    /\ history' \in Seq(States) /\ Len(history') >= Len(history)
    /\ \A i \in 1 .. Len(history) : history'[i] = history[i]

(* What a view offers, it has offered for ever.                            *)
LEMMA ViewKept ==
  ASSUME Typed, Grows, NEW view, NEW packages, Offers(view, packages)
  PROVE  Offers(view, packages)'
<1>1. Len(history) \in Nat /\ Len(history') \in Nat /\ Len(history') >= Len(history)
  BY DEF Typed, Grows
<1>2. view.began \in 1 .. Len(history) /\ view.ended \in view.began .. Len(history)
  BY DEF Offers
<1>3. \A i \in view.began .. view.ended : i \in 1 .. Len(history) /\ history'[i] = history[i]
  BY <1>1, <1>2 DEF Grows
<1>4. view.began \in 1 .. Len(history') /\ view.ended \in view.began .. Len(history')
  BY <1>1, <1>2
<1> QED
  BY <1>3, <1>4 DEF Offers

(* So a good view stays good.                                              *)
LEMMA GoodViewKept ==
  ASSUME Typed, Grows, NEW view, NEW k, GoodView(view, k)
  PROVE  GoodView(view, k)'
<1>1. Offers(view, AskedFor(k[2]))'
  BY ViewKept DEF GoodView
<1>2. Len(history) \in Nat
  BY DEF Typed
<1>3. \A i \in view.began .. view.ended : history'[i] = history[i]
  BY <1>2 DEF Grows, GoodView, Offers
<1>4. \A i \in view.began .. view.ended : Names(i, k[1]) = Names(i, k[1])'
  BY <1>3 DEF Names
<1>5. AskedFor(k[2])' = AskedFor(k[2])
  BY DEF AskedFor
<1> QED
  BY <1>1, <1>4, <1>5 DEF GoodView

(* And so does what a call has gathered.                                   *)
LEMMA CallKept ==
  ASSUME Typed, Grows, NEW c \in Calls, GoodCall(c), call'[c] = call[c]
  PROVE  GoodCall(c)'
<1>1. Len(history) \in Nat /\ Len(history') \in Nat /\ Len(history') >= Len(history)
  BY DEF Typed, Grows
<1>2. call[c].began \in 1 .. Len(history) => call[c].began \in 1 .. Len(history')
  BY <1>1
<1>3. ASSUME call[c].began \in 1 .. Len(history), NEW i \in call[c].began .. Len(history)
      PROVE  i \in call[c].began .. Len(history') /\ history'[i] = history[i]
  BY <1>1, <1>3 DEF Grows
<1>4. call[c].began \in 1 .. Len(history) /\ Fetched(c) => Fetched(c)'
  BY <1>3 DEF Fetched
<1>5. ASSUME call[c].began \in 1 .. Len(history), NEW names, Catalogue(c, names)
      PROVE  Catalogue(c, names)'
  <2>1. PICK i \in call[c].began .. Len(history) : names = Names(i, call[c].endpoint)
    BY <1>5 DEF Catalogue
  <2>2. i \in call[c].began .. Len(history') /\ history'[i] = history[i]
    BY <1>3, <1>5
  <2> QED
    BY <2>1, <2>2 DEF Catalogue, Names
<1>6. Fetching(c)'
  <2>1. Fetching(c)
    BY DEF GoodCall
  <2>2. \A names : call[c].began \in 1 .. Len(history) /\ Catalogue(c, names) => Catalogue(c, names)'
    BY <1>5
  <2>3. call[c].pc = "bulk" => Catalogue(c, call[c].todo)'
    BY <2>1, <2>2 DEF Fetching, Active, Catalogue
  <2>4. call[c].pc = "publish" /\ call[c].scope = All => Catalogue(c, DOMAIN call[c].got)'
    BY <2>1, <2>2 DEF Fetching, Active, Catalogue
  <2>5. call[c].pc \in Active => call[c].began \in 1 .. Len(history)
    BY <2>1 DEF Fetching
  <2> QED
    BY <2>1, <2>3, <2>4, <2>5, <1>2, <1>4 DEF Fetching, Active
<1>7. Answered(c)'
  <2>1. Answered(c)
    BY DEF GoodCall
  <2>2. call[c].view # None => Offers(call[c].view, AskedFor(call[c].scope))'
    BY <2>1, ViewKept DEF Answered
  <2> QED
    BY <2>1, <2>2 DEF Answered, AskedFor, Offers
<1> QED
  BY <1>6, <1>7 DEF GoodCall

(* The servers change, and the past is kept.                               *)
LEMMA ChangeGrows ==
  ASSUME Configured, Typed, NEW e \in Changing, NEW p \in Packages, NEW offered \in Entries \cup {Absent},
         Universe!Change(e, p, offered)
  PROVE  Typed' /\ Grows
<1>1. e \in Endpoints
  BY DEF Configured
<1>2. Universe!universe \in States
  BY DEF Typed, Universe!universe
<1>3. [Universe!universe EXCEPT ![e][p] = offered] \in States
  <2>1. offered \in Offerable
    BY DEF Offerable
  <2> QED
    BY <1>1, <1>2, <2>1 DEF States
<1>4. PICK s \in States : history' = Append(history, s)
  BY <1>3 DEF Universe!Change
<1>5. history \in Seq(States) /\ Len(history) > 0 /\ UNCHANGED <<views, call>>
  BY DEF Typed, Universe!Change
<1>6. /\ history' \in Seq(States) /\ Len(history') = Len(history) + 1
      /\ \A i \in 1 .. Len(history) : history'[i] = history[i]
  BY <1>4, <1>5
<1> QED
  BY <1>5, <1>6 DEF Typed, Grows

(* Nothing changes at the servers.                                         *)
LEMMA SameGrows ==
  ASSUME Typed, UNCHANGED history
  PROVE  Grows
BY DEF Typed, Grows

(* The initial state.                                                      *)
LEMMA InitFetch == Configured /\ Universe!Init => Typed /\ FetchInvariant
<1> SUFFICES ASSUME Configured, Universe!Init PROVE Typed /\ FetchInvariant
  OBVIOUS
<1>1. PICK first \in FirstEntries : history = <<[e \in Endpoints |-> first]>>
  BY DEF Universe!Init
<1>2. [e \in Endpoints |-> first] \in States
  BY DEF Configured, States
<1>3. history \in Seq(States) /\ Len(history) > 0
  BY <1>1, <1>2
<1>4. DOMAIN Universe!NotStarted = Fields /\ Universe!NotStarted.pc = "start" /\ Universe!NotStarted.view = None
  BY DEF Universe!NotStarted, Fields
<1>5. DOMAIN call = Calls /\ \A c \in Calls : call[c] = Universe!NotStarted
  BY DEF Universe!Init
<1>6. Typed
  BY <1>3, <1>4, <1>5 DEF Typed, Universe!Init, ViewKeys
<1>7. \A c \in Calls : GoodCall(c)
  BY <1>4, <1>5 DEF GoodCall, Fetching, Answered, Active
<1> QED
  BY <1>6, <1>7 DEF FetchInvariant, Universe!Init, ViewKeys

(* A step of one call, all in one: what its new local state must satisfy.  *)
LEMMA OneCall ==
  ASSUME Typed, FetchInvariant, NEW c \in Calls, UNCHANGED <<history, views>>,
         DOMAIN call' = Calls, \A d \in Calls : DOMAIN call'[d] = Fields,
         \A d \in Calls : d # c => call'[d] = call[d],
         GoodCall(c)'
  PROVE  Typed' /\ FetchInvariant'
<1>1. Grows
  BY SameGrows
<1>2. \A d \in Calls : GoodCall(d)'
  <2>1. ASSUME NEW d \in Calls, d # c PROVE GoodCall(d)'
    BY <1>1, <2>1, CallKept DEF FetchInvariant
  <2> QED
    BY <2>1
<1>3. ASSUME NEW k \in ViewKeys, views[k] # None PROVE GoodView(views[k], k)'
  BY <1>3 DEF FetchInvariant, GoodView, Offers, Names
<1>4. Typed'
  BY DEF Typed
<1> QED
  BY <1>2, <1>3, <1>4 DEF FetchInvariant

(* A call starts: nothing it could have gathered is older than itself.     *)
LEMMA FetchStartKeeps ==
  ASSUME Typed, FetchInvariant, NEW c \in Calls,
         NEW e \in Endpoints, NEW scope \in Scopes, NEW mode \in {"online", "offline", "refresh"},
         Universe!Start(c, e, scope, mode)
  PROVE  Typed' /\ FetchInvariant'
<1>0. UNCHANGED <<history, views>> /\ Len(history) \in Nat \ {0}
  BY DEF Universe!Start, Typed
<1>1. CASE Universe!Fail(c, "invalid_allowlist")
  BY <1>0, <1>1, Failing, FailedIsGood, OneCall
<1>2. CASE Universe!Goto(c, [pc |-> IF mode = "refresh" THEN "fetch" ELSE "open",
                    endpoint |-> e, scope |-> scope, mode |-> mode, began |-> Len(history)])
  <2> DEFINE to == IF mode = "refresh" THEN "fetch" ELSE "open"
             ch == [pc |-> to, endpoint |-> e, scope |-> scope, mode |-> mode, began |-> Len(history)]
  <2>1. Universe!Goto(c, ch)
    BY <1>2
  <2>2. /\ DOMAIN ch = {"pc", "endpoint", "scope", "mode", "began"} /\ ch["pc"] = to /\ ch["endpoint"] = e
        /\ ch["scope"] = scope /\ ch["mode"] = mode /\ ch["began"] = Len(history)
    OBVIOUS
  <2> HIDE DEF ch
  <2>3. /\ call'[c]["pc"] = to /\ call'[c]["endpoint"] = e /\ call'[c]["scope"] = scope
        /\ call'[c]["mode"] = mode /\ call'[c]["began"] = Len(history) /\ call'[c]["view"] = call[c]["view"]
    BY <2>1, <2>2, Going DEF Fields
  <2>4. call[c].view = None
    BY DEF FetchInvariant, GoodCall, Answered, Universe!Start
  <2>5. GoodCall(c)'
    BY <1>0, <2>3, <2>4 DEF GoodCall, Answered, Fetching, Active
  <2> QED
    BY <1>0, <2>1, <2>5, Going, OneCall
<1> QED
  BY <1>1, <1>2 DEF Universe!Start

(* A view that covers a request offers what the request asks for.          *)
LEMMA CoveringOffers ==
  ASSUME Configured, NEW k \in ViewKeys, NEW view, GoodView(view, k), NEW scope \in Scopes, Universe!covers(k[2], scope)
  PROVE  Offers(view, AskedFor(scope))
<1>1. AskedFor(scope) \subseteq AskedFor(k[2])
  BY DEF AskedFor, Universe!covers, Configured
<1> QED
  BY <1>1 DEF GoodView, Offers

(* A call opens a view another call published, falls back to a fetch, or   *)
(* fails.                                                                  *)
LEMMA OpenKeeps ==
  ASSUME Configured, Typed, FetchInvariant, NEW c \in Calls, Universe!Open(c)
  PROVE  Typed' /\ FetchInvariant'
<1>0. UNCHANGED <<history, views>> /\ call[c].pc = "open"
  BY DEF Universe!Open
<1>1. GoodCall(c)
  BY DEF FetchInvariant
<1>2. call[c].scope \in Scopes /\ call[c].mode # "refresh" /\ call[c].view = None
  BY <1>0, <1>1 DEF GoodCall, Fetching, Answered, Active
<1>3. ASSUME NEW k \in Universe!Compatible(c), Universe!Return(c, views[k])
      PROVE  Typed' /\ FetchInvariant'
  <2>1. k \in ViewKeys /\ GoodView(views[k], k) /\ Universe!covers(k[2], call[c].scope)
    BY <1>3 DEF Universe!Compatible, Universe!Heads, FetchInvariant, Typed
  <2>2. Offers(views[k], AskedFor(call[c].scope))
    BY <1>2, <2>1, CoveringOffers
  <2> DEFINE ch == [pc |-> "done", view |-> views[k], todo |-> None, got |-> None]
  <2>3. Universe!Goto(c, ch)
    BY <1>3 DEF Universe!Return
  <2>4. DOMAIN ch = {"pc", "view", "todo", "got"} /\ ch["pc"] = "done" /\ ch["view"] = views[k]
    OBVIOUS
  <2> HIDE DEF ch
  <2>5. /\ call'[c]["pc"] = "done" /\ call'[c]["view"] = views[k]
        /\ call'[c]["scope"] = call[c]["scope"] /\ call'[c]["mode"] = call[c]["mode"]
    BY <2>3, <2>4, Going DEF Fields
  <2>6. Offers(views[k], AskedFor(call[c].scope))'
    BY <1>0, <2>2, <2>5 DEF Offers, AskedFor
  <2>7. GoodCall(c)'
    BY <1>0, <1>2, <2>5, <2>6 DEF GoodCall, Answered, Fetching, Active
  <2> QED
    BY <1>0, <2>3, <2>7, Going, OneCall
<1>4. CASE Universe!Goto(c, [pc |-> "fetch"])
  <2> DEFINE ch == [pc |-> "fetch"]
  <2>1. DOMAIN ch = {"pc"} /\ ch["pc"] = "fetch" /\ Universe!Goto(c, ch)
    BY <1>4
  <2> HIDE DEF ch
  <2>2. /\ call'[c]["pc"] = "fetch" /\ call'[c]["endpoint"] = call[c]["endpoint"]
        /\ call'[c]["scope"] = call[c]["scope"] /\ call'[c]["began"] = call[c]["began"]
        /\ call'[c]["view"] = call[c]["view"]
    BY <2>1, Going DEF Fields
  <2>3. GoodCall(c)'
    BY <1>0, <1>1, <1>2, <2>2 DEF GoodCall, Answered, Fetching, Active
  <2> QED
    BY <1>0, <2>1, <2>3, Going, OneCall
<1>5. ASSUME NEW error, Universe!Fail(c, error)
      PROVE  Typed' /\ FetchInvariant'
  BY <1>0, <1>5, Failing, FailedIsGood, OneCall
<1> QED
  BY <1>3, <1>4, <1>5 DEF Universe!Open

(* The fetch of an allowlist begins with nothing gathered.                 *)
LEMMA FetchKeeps ==
  ASSUME Typed, FetchInvariant, NEW c \in Calls, Universe!Fetch(c)
  PROVE  Typed' /\ FetchInvariant'
<1>0. UNCHANGED <<history, views>> /\ call[c].pc = "fetch"
  BY DEF Universe!Fetch
<1>1. GoodCall(c)
  BY DEF FetchInvariant
<1>2. CASE call[c].scope = All
  <2> DEFINE ch == [pc |-> "list"]
  <2>1. DOMAIN ch = {"pc"} /\ ch["pc"] = "list" /\ Universe!Goto(c, ch)
    BY <1>2 DEF Universe!Fetch
  <2> HIDE DEF ch
  <2>2. /\ call'[c]["pc"] = "list" /\ call'[c]["endpoint"] = call[c]["endpoint"]
        /\ call'[c]["scope"] = call[c]["scope"] /\ call'[c]["began"] = call[c]["began"]
        /\ call'[c]["view"] = call[c]["view"]
    BY <2>1, Going DEF Fields
  <2>3. GoodCall(c)'
    BY <1>0, <1>1, <1>2, <2>2 DEF GoodCall, Answered, Fetching, Active
  <2> QED
    BY <1>0, <2>1, <2>3, Going, OneCall
<1>3. CASE call[c].scope # All
  <2> DEFINE ch == [pc |-> "single", todo |-> call[c].scope, got |-> [p \in {} |-> None]]
  <2>1. /\ DOMAIN ch = {"pc", "todo", "got"} /\ ch["pc"] = "single" /\ ch["todo"] = call[c].scope
        /\ DOMAIN ch["got"] = {} /\ Universe!Goto(c, ch)
    BY <1>3 DEF Universe!Fetch
  <2> HIDE DEF ch
  <2>2. /\ call'[c]["pc"] = "single" /\ call'[c]["endpoint"] = call[c]["endpoint"]
        /\ call'[c]["scope"] = call[c]["scope"] /\ call'[c]["began"] = call[c]["began"]
        /\ call'[c]["view"] = call[c]["view"] /\ call'[c]["todo"] = call[c]["scope"]
        /\ DOMAIN call'[c]["got"] = {}
    BY <2>1, Going DEF Fields
  <2>3. Fetched(c)'
    BY <2>2 DEF Fetched
  <2>4. GoodCall(c)'
    BY <1>0, <1>1, <1>3, <2>2, <2>3 DEF GoodCall, Answered, Fetching, Active
  <2> QED
    BY <1>0, <2>1, <2>4, Going, OneCall
<1> QED
  BY <1>2, <1>3

(* What an endpoint answers now is what it has at a moment since the call  *)
(* began.                                                                  *)
LEMMA NowIsSince ==
  ASSUME Typed, NEW c \in Calls, call[c].began \in 1 .. Len(history)
  PROVE  Len(history) \in call[c].began .. Len(history) /\ Universe!universe = history[Len(history)]
BY DEF Typed, Universe!universe

(* The answer for one package is what the endpoint has now.                *)
LEMMA SingleKeeps ==
  ASSUME Typed, FetchInvariant, NEW c \in Calls, Universe!Single(c)
  PROVE  Typed' /\ FetchInvariant'
<1>0. UNCHANGED <<history, views>> /\ call[c].pc = "single"
  BY DEF Universe!Single
<1>1. GoodCall(c)
  BY DEF FetchInvariant
<1>2. /\ call[c].began \in 1 .. Len(history) /\ call[c].scope # All /\ call[c].todo \subseteq call[c].scope
      /\ DOMAIN call[c].got = call[c].scope \ call[c].todo /\ Fetched(c) /\ call[c].view = None
      /\ call[c].endpoint \in Endpoints /\ call[c].scope \in Scopes
  BY <1>0, <1>1 DEF GoodCall, Fetching, Answered, Active
<1>3. CASE call[c].todo = {} /\ Universe!Goto(c, [pc |-> "publish"])
  <2> DEFINE ch == [pc |-> "publish"]
  <2>1. DOMAIN ch = {"pc"} /\ ch["pc"] = "publish" /\ Universe!Goto(c, ch)
    BY <1>3
  <2> HIDE DEF ch
  <2>2. /\ call'[c]["pc"] = "publish" /\ call'[c]["endpoint"] = call[c]["endpoint"]
        /\ call'[c]["scope"] = call[c]["scope"] /\ call'[c]["began"] = call[c]["began"]
        /\ call'[c]["view"] = call[c]["view"] /\ call'[c]["got"] = call[c]["got"]
    BY <2>1, Going DEF Fields
  <2>3. Fetched(c)'
    BY <1>0, <1>2, <2>2 DEF Fetched
  <2>4. GoodCall(c)'
    BY <1>0, <1>2, <1>3, <2>2, <2>3 DEF GoodCall, Answered, Fetching, Active
  <2> QED
    BY <1>0, <2>1, <2>4, Going, OneCall
<1>4. ASSUME NEW p \in call[c].todo, Universe!universe[call[c].endpoint][p] # Absent,
             Universe!Goto(c, [todo |-> call[c].todo \ {p},
                      got |-> [q \in DOMAIN call[c].got \cup {p} |->
                                 IF q = p THEN Universe!universe[call[c].endpoint][p] ELSE call[c].got[q]]])
      PROVE  Typed' /\ FetchInvariant'
  <2> DEFINE got == [q \in DOMAIN call[c].got \cup {p} |->
                                 IF q = p THEN Universe!universe[call[c].endpoint][p] ELSE call[c].got[q]]
             ch == [todo |-> call[c].todo \ {p}, got |-> got]
  <2>1. DOMAIN ch = {"todo", "got"} /\ ch["todo"] = call[c].todo \ {p} /\ ch["got"] = got /\ Universe!Goto(c, ch)
    BY <1>4
  <2>2. /\ DOMAIN got = DOMAIN call[c].got \cup {p} /\ got[p] = Universe!universe[call[c].endpoint][p]
        /\ \A q \in DOMAIN call[c].got : q # p => got[q] = call[c].got[q]
    OBVIOUS
  <2> HIDE DEF ch, got
  <2>3. /\ call'[c]["pc"] = "single" /\ call'[c]["endpoint"] = call[c]["endpoint"]
        /\ call'[c]["scope"] = call[c]["scope"] /\ call'[c]["began"] = call[c]["began"]
        /\ call'[c]["view"] = call[c]["view"] /\ call'[c]["got"] = got
        /\ call'[c]["todo"] = call[c].todo \ {p}
    BY <1>0, <2>1, Going DEF Fields
  <2>4. Fetched(c)'
    <3> SUFFICES ASSUME NEW q \in DOMAIN got
                 PROVE  \E i \in call[c].began .. Len(history) :
                          /\ history[i][call[c].endpoint][q] # Absent
                          /\ got[q] = history[i][call[c].endpoint][q]
      BY <1>0, <2>3 DEF Fetched
    <3>1. CASE q = p
      BY <1>2, <1>4, <2>2, <3>1, NowIsSince
    <3>2. CASE q # p
      BY <1>2, <2>2, <3>2 DEF Fetched
    <3> QED
      BY <3>1, <3>2
  <2>5. DOMAIN got = call[c].scope \ (call[c].todo \ {p})
    BY <1>2, <1>4, <2>2
  <2>6. GoodCall(c)'
    BY <1>0, <1>2, <2>3, <2>4, <2>5 DEF GoodCall, Answered, Fetching, Active
  <2> QED
    BY <1>0, <2>1, <2>6, Going, OneCall
<1>5. ASSUME NEW error, Universe!Fail(c, error)
      PROVE  Typed' /\ FetchInvariant'
  BY <1>0, <1>5, Failing, FailedIsGood, OneCall
<1> QED
  BY <1>3, <1>4, <1>5 DEF Universe!Single

(* The list has the names of this moment.                                  *)
LEMMA ListKeeps ==
  ASSUME Typed, FetchInvariant, NEW c \in Calls, Universe!List(c)
  PROVE  Typed' /\ FetchInvariant'
<1>0. UNCHANGED <<history, views>> /\ call[c].pc = "list"
  BY DEF Universe!List
<1>1. /\ call[c].began \in 1 .. Len(history) /\ call[c].scope = All /\ call[c].view = None
      /\ call[c].endpoint \in Endpoints /\ call[c].scope \in Scopes
  BY <1>0 DEF FetchInvariant, GoodCall, Fetching, Answered, Active
<1> DEFINE ch == [pc |-> "bulk", todo |-> Universe!Present(call[c].endpoint)]
<1>2. DOMAIN ch = {"pc", "todo"} /\ ch["pc"] = "bulk" /\ ch["todo"] = Universe!Present(call[c].endpoint) /\ Universe!Goto(c, ch)
  BY DEF Universe!List
<1> HIDE DEF ch
<1>3. /\ call'[c]["pc"] = "bulk" /\ call'[c]["endpoint"] = call[c]["endpoint"]
      /\ call'[c]["scope"] = call[c]["scope"] /\ call'[c]["began"] = call[c]["began"]
      /\ call'[c]["view"] = call[c]["view"] /\ call'[c]["todo"] = Universe!Present(call[c].endpoint)
  BY <1>2, Going DEF Fields
<1>4. Universe!Present(call[c].endpoint) = Names(Len(history), call[c].endpoint)
  BY DEF Universe!Present, Names, Universe!universe
<1>5. Catalogue(c, call[c].todo)'
  BY <1>0, <1>1, <1>3, <1>4, NowIsSince DEF Catalogue, Names
<1>6. GoodCall(c)'
  BY <1>0, <1>1, <1>3, <1>5 DEF GoodCall, Answered, Fetching, Active
<1> QED
  BY <1>0, <1>2, <1>6, Going, OneCall

(* The packages a response has are among those the endpoint has.           *)
LEMMA LimitedIsSubset ==
  ASSUME NEW packages, NEW limit, NEW s \in Universe!limited(packages, limit)
  PROVE  s \subseteq packages
BY DEF Universe!limited

(* The packages come later, and must have the names of the list.           *)
LEMMA BulkKeeps ==
  ASSUME Typed, FetchInvariant, NEW c \in Calls, Universe!Bulk(c)
  PROVE  Typed' /\ FetchInvariant'
<1>0. UNCHANGED <<history, views>> /\ call[c].pc = "bulk"
  BY DEF Universe!Bulk
<1>1. /\ call[c].began \in 1 .. Len(history) /\ call[c].scope = All /\ call[c].view = None
      /\ call[c].endpoint \in Endpoints /\ call[c].scope \in Scopes /\ Catalogue(c, call[c].todo)
  BY <1>0 DEF FetchInvariant, GoodCall, Fetching, Answered, Active
<1>2. ASSUME NEW packages \in Universe!limited(Universe!Present(call[c].endpoint), Universe!Cardinality(call[c].todo)),
             Universe!validate_bulk_coverage(packages, call[c].todo),
             Universe!Goto(c, [pc |-> "publish", got |-> Universe!Respond(call[c].endpoint, packages)])
      PROVE  Typed' /\ FetchInvariant'
  <2> DEFINE got == Universe!Respond(call[c].endpoint, packages)
             ch == [pc |-> "publish", got |-> got]
  <2>1. DOMAIN ch = {"pc", "got"} /\ ch["pc"] = "publish" /\ ch["got"] = got /\ Universe!Goto(c, ch)
    BY <1>2
  <2>2. DOMAIN got = packages /\ \A p \in packages : got[p] = Universe!universe[call[c].endpoint][p]
    BY DEF Universe!Respond
  <2> HIDE DEF ch, got
  <2>3. /\ call'[c]["pc"] = "publish" /\ call'[c]["endpoint"] = call[c]["endpoint"]
        /\ call'[c]["scope"] = call[c]["scope"] /\ call'[c]["began"] = call[c]["began"]
        /\ call'[c]["view"] = call[c]["view"] /\ call'[c]["got"] = got
    BY <2>1, Going DEF Fields
  <2>4. packages = call[c].todo
    BY <1>2 DEF Universe!validate_bulk_coverage
  <2>5. \A p \in packages : Universe!universe[call[c].endpoint][p] # Absent
    BY <1>2, LimitedIsSubset DEF Universe!Present
  <2>6. Fetched(c)'
    <3> SUFFICES ASSUME NEW q \in DOMAIN got
                 PROVE  \E i \in call[c].began .. Len(history) :
                          /\ history[i][call[c].endpoint][q] # Absent
                          /\ got[q] = history[i][call[c].endpoint][q]
      BY <1>0, <2>3 DEF Fetched
    <3> QED
      BY <1>1, <2>2, <2>5, NowIsSince
  <2>7. Catalogue(c, DOMAIN call[c].got)'
    <3>1. PICK i \in call[c].began .. Len(history) : call[c].todo = Names(i, call[c].endpoint)
      BY <1>1 DEF Catalogue
    <3>2. Names(i, call[c].endpoint)' = Names(i, call[c].endpoint)
      BY <1>0, <2>3 DEF Names
    <3>3. DOMAIN call'[c].got = call[c].todo
      BY <2>2, <2>3, <2>4
    <3> QED
      BY <1>0, <2>3, <3>1, <3>2, <3>3 DEF Catalogue
  <2>8. GoodCall(c)'
    BY <1>0, <1>1, <2>3, <2>6, <2>7 DEF GoodCall, Answered, Fetching, Active
  <2> QED
    BY <1>0, <2>1, <2>8, Going, OneCall
<1>3. ASSUME NEW error, Universe!Fail(c, error)
      PROVE  Typed' /\ FetchInvariant'
  BY <1>0, <1>3, Failing, FailedIsGood, OneCall
<1> QED
  BY <1>2, <1>3 DEF Universe!Bulk

(* A request fails.                                                        *)
LEMMA RequestFailsKeeps ==
  ASSUME Typed, FetchInvariant, NEW c \in Calls, Universe!RequestFails(c)
  PROVE  Typed' /\ FetchInvariant'
<1>1. UNCHANGED <<history, views>> /\ Universe!Fail(c, "transport")
  BY DEF Universe!RequestFails
<1> QED
  BY <1>1, Failing, FailedIsGood, OneCall

(* What a call gathered, whichever way, makes a good view.                 *)
LEMMA PublishedIsGood ==
  ASSUME Configured, Typed, NEW c \in Calls, Fetching(c), call[c].pc = "publish", NEW view,
         DOMAIN view = ViewFields, view.endpoint = call[c].endpoint,
         view.content = [p \in DOMAIN call[c].got |-> Universe!to_wire_release(call[c].got[p])],
         view.began = call[c].began, view.ended = Len(history)
  PROVE  GoodView(view, <<call[c].endpoint, call[c].scope>>)
<1> DEFINE k == <<call[c].endpoint, call[c].scope>>
           e == call[c].endpoint
<1>1. /\ Len(history) \in Nat /\ call[c].began \in 1 .. Len(history) /\ Fetched(c)
      /\ call[c].scope = All => Catalogue(c, DOMAIN call[c].got)
      /\ call[c].scope # All => DOMAIN call[c].got = call[c].scope
      /\ call[c].scope \in Scopes
  BY DEF Fetching, Active, Typed
<1>2. view.began \in 1 .. Len(history) /\ view.ended \in view.began .. Len(history)
  BY <1>1
<1>3. DOMAIN view.content = DOMAIN call[c].got
  OBVIOUS
<1>4. ASSUME NEW p \in DOMAIN call[c].got
      PROVE  \E i \in view.began .. view.ended : Universe!Answer(view, p) = Universe!Offered(history[i][e], p)
  <2>1. PICK i \in view.began .. view.ended : history[i][e][p] # Absent /\ call[c].got[p] = history[i][e][p]
    BY <1>1, <1>4 DEF Fetched
  <2>2. Universe!Answer(view, p) = Universe!to_wire_release(history[i][e][p])
    BY <1>4, <2>1 DEF Universe!Answer
  <2>3. Universe!Offered(history[i][e], p) = Universe!to_wire_release(history[i][e][p])
    BY <2>1 DEF Universe!Offered
  <2> QED
    BY <2>2, <2>3
<1>5. ASSUME call[c].scope = All, NEW p \in Packages, p \notin DOMAIN call[c].got
      PROVE  \E i \in view.began .. view.ended : Universe!Answer(view, p) = Universe!Offered(history[i][e], p)
  <2>1. PICK i \in view.began .. view.ended : DOMAIN call[c].got = Names(i, e)
    BY <1>1, <1>5 DEF Catalogue
  <2>2. history[i][e][p] = Absent
    BY <1>5, <2>1 DEF Names
  <2> QED
    BY <1>3, <1>5, <2>2 DEF Universe!Answer, Universe!Offered
<1>6. Offers(view, AskedFor(call[c].scope))
  BY <1>1, <1>2, <1>4, <1>5 DEF Offers, AskedFor
<1>7. call[c].scope = All => \E i \in view.began .. view.ended : DOMAIN view.content = Names(i, e)
  BY <1>1, <1>3 DEF Catalogue
<1>8. k[1] = e /\ k[2] = call[c].scope
  OBVIOUS
<1> QED
  BY <1>6, <1>7, <1>8 DEF GoodView

(* A call publishes what it gathered, and answers with it.                 *)
LEMMA FetchPublishKeeps ==
  ASSUME Configured, Typed, FetchInvariant, NEW c \in Calls, Universe!Publish(c)
  PROVE  Typed' /\ FetchInvariant'
<1>0. UNCHANGED history /\ call[c].pc = "publish"
  BY DEF Universe!Publish
<1>1. /\ call[c].view = None /\ Fetching(c) /\ call[c].began \in 1 .. Len(history)
      /\ call[c].endpoint \in Endpoints /\ call[c].scope \in Scopes
  BY <1>0 DEF FetchInvariant, GoodCall, Fetching, Answered, Active
<1>2. CASE Universe!Fail(c, "snapshot") /\ UNCHANGED views
  BY <1>0, <1>2, Failing, FailedIsGood, OneCall
<1>3. CASE ~(Universe!Fail(c, "snapshot") /\ UNCHANGED views)
  <2> DEFINE k == <<call[c].endpoint, call[c].scope>>
  <2>0. PICK w : w =
                  [sequence |-> Universe!NextSequence, intact |-> TRUE, scope |-> call[c].scope, endpoint |-> call[c].endpoint,
                   content |-> [p \in DOMAIN call[c].got |-> Universe!to_wire_release(call[c].got[p])],
                   began |-> call[c].began, ended |-> Len(history)]
    OBVIOUS
  <2>1. views' = [views EXCEPT ![k] = w] /\ Universe!Return(c, w)
    BY <1>3, <2>0 DEF Universe!Publish
  <2>2. /\ DOMAIN w = ViewFields /\ w.endpoint = call[c].endpoint
        /\ w.content = [p \in DOMAIN call[c].got |-> Universe!to_wire_release(call[c].got[p])]
        /\ w.began = call[c].began /\ w.ended = Len(history)
    BY <2>0 DEF ViewFields
  <2>3. GoodView(w, k)
    BY <1>0, <1>1, <2>2, PublishedIsGood
  <2>4. k \in ViewKeys /\ k[2] = call[c].scope
    BY <1>1 DEF ViewKeys
  <2> HIDE DEF k
  <2> DEFINE ch == [pc |-> "done", view |-> w, todo |-> None, got |-> None]
  <2>5. DOMAIN ch = {"pc", "view", "todo", "got"} /\ ch["pc"] = "done" /\ ch["view"] = w /\ Universe!Goto(c, ch)
    BY <2>1 DEF Universe!Return
  <2> HIDE DEF ch
  <2>6. /\ call'[c]["pc"] = "done" /\ call'[c]["view"] = w /\ call'[c]["scope"] = call[c]["scope"]
        /\ call'[c]["mode"] = call[c]["mode"] /\ call'[c]["began"] = call[c]["began"]
    BY <2>5, Going DEF Fields
  <2>7. Offers(w, AskedFor(call[c].scope))
    BY <2>3, <2>4 DEF GoodView
  <2>8. Offers(w, AskedFor(call[c].scope))'
    BY <1>0, <2>6, <2>7 DEF Offers, AskedFor
  <2>9. w.began >= call[c].began
    BY <1>1, <2>2 DEF Typed
  <2>10. GoodCall(c)'
    BY <2>6, <2>8, <2>9 DEF GoodCall, Answered, Fetching, Active
  <2>11. Grows
    BY <1>0, SameGrows
  <2>12. ASSUME NEW d \in Calls, d # c PROVE GoodCall(d)'
    <3>1. call'[d] = call[d]
      BY <2>5, <2>12, Going
    <3> QED
      BY <2>11, <3>1, CallKept DEF FetchInvariant
  <2>13. Typed'
    BY <1>0, <2>1, <2>5, Going DEF Typed
  <2>14. ASSUME NEW h \in ViewKeys, views'[h] # None PROVE GoodView(views'[h], h)
    BY <2>1, <2>3, <2>4, <2>14 DEF Typed, FetchInvariant
  <2>15. ASSUME NEW h \in ViewKeys, views'[h] # None PROVE GoodView(views[h], h)'
    BY <1>0, <2>14, <2>15 DEF GoodView, Offers, Names
  <2> QED
    BY <2>10, <2>12, <2>13, <2>15 DEF FetchInvariant
<1> QED
  BY <1>2, <1>3

(* A damaged head keeps its content in the model; Open passes over it.     *)
LEMMA FetchDamageKeeps ==
  ASSUME Typed, FetchInvariant, NEW k \in DOMAIN views, Universe!Damage(k)
  PROVE  Typed' /\ FetchInvariant'
<1>1. /\ views' = [views EXCEPT ![k].intact = FALSE] /\ UNCHANGED <<history, call>>
      /\ views[k] # None /\ k \in ViewKeys
  BY DEF Universe!Damage, Universe!Heads, Typed
<1>2. GoodView(views[k], k)
  BY <1>1 DEF FetchInvariant
<1>3. PICK w : w = [views[k] EXCEPT !.intact = FALSE]
  OBVIOUS
<1>4. views' = [views EXCEPT ![k] = w]
  BY <1>1, <1>3
<1>5. /\ DOMAIN w = ViewFields /\ w.endpoint = views[k].endpoint /\ w.content = views[k].content
      /\ w.began = views[k].began /\ w.ended = views[k].ended
  BY <1>2, <1>3 DEF GoodView, ViewFields
<1>6. GoodView(w, k)
  BY <1>2, <1>5 DEF GoodView, Offers, Universe!Answer
<1>7. ASSUME NEW h \in ViewKeys, views'[h] # None PROVE GoodView(views'[h], h)
  BY <1>1, <1>4, <1>6, <1>7 DEF Typed, FetchInvariant
<1>8. ASSUME NEW h \in ViewKeys, views'[h] # None PROVE GoodView(views[h], h)'
  <2>1. PICK view : view = views'[h]
    OBVIOUS
  <2>2. GoodView(view, h)
    BY <1>7, <1>8, <2>1
  <2>3. GoodView(view, h)'
    BY <1>1, <2>2, SameGrows, GoodViewKept
  <2> QED
    BY <2>1, <2>3 DEF GoodView, Offers, Universe!Answer, Names
<1>9. Typed'
  BY <1>1, <1>4 DEF Typed
<1>10. ASSUME NEW c \in Calls PROVE GoodCall(c)'
  <2>1. Grows /\ call'[c] = call[c]
    BY <1>1, SameGrows
  <2> QED
    BY <2>1, CallKept DEF FetchInvariant
<1> QED
  BY <1>8, <1>9, <1>10 DEF FetchInvariant

(* The servers change.                                                     *)
LEMMA ChangeKeeps ==
  ASSUME Configured, Typed, FetchInvariant,
         NEW e \in Changing, NEW p \in Packages, NEW offered \in Entries \cup {Absent}, Universe!Change(e, p, offered)
  PROVE  Typed' /\ FetchInvariant'
<1>1. Typed' /\ Grows /\ UNCHANGED <<views, call>>
  BY ChangeGrows DEF Universe!Change
<1>2. ASSUME NEW c \in Calls PROVE GoodCall(c)'
  BY <1>1, CallKept DEF FetchInvariant
<1>3. ASSUME NEW k \in ViewKeys, views[k] # None PROVE GoodView(views[k], k)'
  <2>1. PICK view : view = views[k]
    OBVIOUS
  <2>2. GoodView(view, k)'
    BY <1>1, <1>3, <2>1, GoodViewKept DEF FetchInvariant
  <2>3. view = views'[k]
    BY <1>1, <2>1
  <2> QED
    BY <2>2, <2>3 DEF GoodView, Offers, Universe!Answer, Names
<1> QED
  BY <1>1, <1>2, <1>3 DEF FetchInvariant

(* Every step keeps the invariant.                                         *)
LEMMA NextFetch == Configured /\ Typed /\ FetchInvariant /\ [Universe!Next]_(Universe!vars) => Typed' /\ FetchInvariant'
<1> SUFFICES ASSUME Configured, Typed, FetchInvariant, [Universe!Next]_(Universe!vars) PROVE Typed' /\ FetchInvariant'
  OBVIOUS
<1>1. CASE UNCHANGED Universe!vars
  <2>1. Typed'
    BY <1>1 DEF Typed, Universe!vars
  <2>2. Grows /\ UNCHANGED <<history, views, call>>
    BY <1>1, SameGrows DEF Universe!vars
  <2>3. ASSUME NEW c \in Calls PROVE GoodCall(c)'
    BY <2>2, CallKept DEF FetchInvariant
  <2>4. ASSUME NEW k \in ViewKeys, views[k] # None PROVE GoodView(views[k], k)'
    BY <2>2, <2>4 DEF FetchInvariant, GoodView, Offers, Names
  <2> QED
    BY <2>1, <2>2, <2>3, <2>4 DEF FetchInvariant
<1>2. ASSUME NEW c \in Calls, NEW e \in Endpoints, NEW scope \in Scopes,
             NEW mode \in {"online", "offline", "refresh"}, Universe!Start(c, e, scope, mode)
      PROVE  Typed' /\ FetchInvariant'
  BY <1>2, FetchStartKeeps
<1>3. ASSUME NEW c \in Calls, Universe!Open(c) \/ Universe!Fetch(c) \/ Universe!Single(c) \/ Universe!List(c)
      PROVE  Typed' /\ FetchInvariant'
  BY <1>3, OpenKeeps, FetchKeeps, SingleKeeps, ListKeeps
<1>4. ASSUME NEW c \in Calls, Universe!Bulk(c) \/ Universe!RequestFails(c) \/ Universe!Publish(c)
      PROVE  Typed' /\ FetchInvariant'
  BY <1>4, BulkKeeps, RequestFailsKeeps, FetchPublishKeeps
<1>5. ASSUME NEW e \in Changing, NEW p \in Packages, NEW offered \in Entries \cup {Absent}, Universe!Change(e, p, offered)
      PROVE  Typed' /\ FetchInvariant'
  BY <1>5, ChangeKeeps
<1>6. ASSUME NEW k \in DOMAIN views, Universe!Damage(k) PROVE Typed' /\ FetchInvariant'
  BY <1>6, FetchDamageKeeps
<1>7. CASE Universe!Finished
  BY <1>1, <1>7 DEF Universe!Finished
<1> QED
  BY <1>1, <1>2, <1>3, <1>4, <1>5, <1>6, <1>7 DEF Universe!Next

-----------------------------------------------------------------------------
(* In the composition, where the other components leave what the provider   *)
(* uses alone.                                                              *)

LEMMA ProviderConfigured == Configured
  BY UniverseAssumption DEF Configured

LEMMA ProviderInit == Init => (which = "r-universe" => Typed /\ FetchInvariant)
  BY ProviderConfigured, InitFetch DEF Init

LEMMA ProviderNext ==
    [Next]_vars /\ (which = "r-universe" => Typed /\ FetchInvariant)
        => (which = "r-universe" => Typed /\ FetchInvariant)'
<1> SUFFICES ASSUME [Next]_vars, which = "r-universe" => Typed /\ FetchInvariant, which' = "r-universe"
             PROVE  Typed' /\ FetchInvariant'
  OBVIOUS
<1>1. which = "r-universe" /\ [Universe!Next]_(Universe!vars)
  BY DEF Next, RawNext, CranNext, UniverseNext, GitNext, vars, universeOnly, Universe!vars
<1> QED
  BY <1>1, ProviderConfigured, NextFetch

(***************************************************************************)
(* What a call answers for a package was offered for it, by the endpoint    *)
(* of the view and while the view was fetched, whether the call fetched the *)
(* view or opened one that covers its request, and a refresh answers with   *)
(* nothing older than itself; for any number of concurrent calls, changes   *)
(* of the servers and damaged heads.                                        *)
(***************************************************************************)
THEOREM OfferedAnswers == Spec => []AnswersWereOffered
<1>1. (which = "r-universe" => Typed /\ FetchInvariant) => AnswersWereOffered
  BY DEF FetchInvariant, GoodCall, Answered, Offers, AskedFor, AnswersWereOffered, Universe!AnswersWereOffered
<1> QED
  BY <1>1, ProviderInit, ProviderNext, PTL DEF Spec

(***************************************************************************)
(* A view of the whole catalogue has exactly the names the endpoint had at  *)
(* one moment of the fetch, although the names and the packages were two    *)
(* requests between which the server may change: validate_bulk_coverage     *)
(* refuses a response with other names than the list.                       *)
(***************************************************************************)
THEOREM WholeCatalogues == Spec => []CataloguesAreWhole
<1>1. (which = "r-universe" => Typed /\ FetchInvariant) => CataloguesAreWhole
  BY DEF Typed, FetchInvariant, GoodView, Names, CataloguesAreWhole, Universe!CataloguesAreWhole,
     Universe!Heads
<1> QED
  BY <1>1, ProviderInit, ProviderNext, PTL DEF Spec
=============================================================================
