-------------------------- MODULE RawMetadataCache --------------------------
(***************************************************************************)
(* Acquisition of one CRAN metadata source over the raw response cache     *)
(* (rsolve-provider/src/cran/provider: session/acquisition.rs,             *)
(* session/current.rs, cache_policy.rs, raw_cache/).  A call tries the     *)
(* representations of the source in order.  For each it consults the raw   *)
(* entry, asks the server when the entry may not be reused, projects the   *)
(* body into a package database, and records what the server said.         *)
(*                                                                         *)
(* The server has one version at a time, the same in every representation. *)
(* A body is the number of its version, and the entity tag of a version is *)
(* that number too.                                                        *)
(***************************************************************************)
EXTENDS Naturals

CONSTANTS
    Sessions,       \* concurrent refresh sessions, one call each
    Keys,           \* 1 .. n, the representations in the order they are tried
    MaxVersion,     \* versions are 0 .. MaxVersion
    Bad,            \* versions that do not parse
    NoStore,        \* versions served with Cache-Control: no-store
    NoCache,        \* versions served with Cache-Control: no-cache
    TTL,            \* DEFAULT_COMPATIBLE_GENERATION_TTL
    MaxTime,        \* bound on the clock
    Serial,         \* whether sessions exclude each other (the refresh lock)
    FirstEntries,   \* raw entries that an earlier release may have left
    Missing, Corrupt

VARIABLES
    server,         \* the version the server has
    clock,          \* the time in ticks
    entry,          \* the raw cache entry of each key
    projections,    \* <<key, body>>: the projection files
    temporaries,    \* <<key, session>>: the files projections are written to
    session         \* the local state of each session

vars == <<server, clock, entry, projections, temporaries, session>>

Entry(body, etag, cc, observed, validated) ==
    [body |-> body, etag |-> etag, cc |-> cc, observed |-> observed, validated |-> validated]

(* cache_control_policy and permits_reuse.                                 *)
cache_control_policy(v) ==
    IF v \in NoStore THEN "NoStore" ELSE IF v \in NoCache THEN "Revalidate" ELSE "Fallback"
permits_reuse(e) == e.validated <= clock /\ e.cc = "Fallback" /\ clock - e.validated < TTL

Idle == [pc |-> "idle", key |-> 1, seen |-> Missing, body |-> 0, etag |-> 0, cc |-> "Fallback", at |-> 0,
         origin |-> "none", retried |-> FALSE, refresh |-> FALSE, started |-> 0, fault |-> FALSE]

Init ==
    /\ server = 0 /\ clock = 0
    /\ entry \in [Keys -> FirstEntries \cup {Missing}]
    /\ projections = {} /\ temporaries = {}
    /\ session = [i \in Sessions |-> Idle]

Running(i) == session[i].pc \notin {"idle", "ok", "failed", "dead"}
Step(i, changes) ==
    session' = [session EXCEPT ![i] = [f \in DOMAIN @ |-> IF f \in DOMAIN changes THEN changes[f] ELSE @[f]]]
Key(i) == session[i].key
ProjectionPath(i) == <<Key(i), session[i].body>>
Temporary(i) == <<Key(i), i>>

(* read_entry and validate_header: an entry that is damaged, or that       *)
(* belongs to another key, is corrupt.                                     *)
Readable(e) == e \notin {Missing, Corrupt}

Start(i, refresh) ==
    /\ session[i].pc = "idle"
    /\ Serial => \A j \in Sessions : ~Running(j)
    /\ Step(i, [pc |-> "lookup", refresh |-> refresh, started |-> server])
    /\ UNCHANGED <<server, clock, entry, projections, temporaries>>

(* RawCache::lookup and the decision it leads to.  A missing and a corrupt *)
(* entry both lead to an unconditional request.                            *)
Lookup(i) ==
    /\ session[i].pc = "lookup"
    /\ LET e == entry[Key(i)] IN
       IF ~Readable(e) THEN Step(i, [pc |-> "request", seen |-> Missing])
       ELSE IF ~session[i].refresh /\ permits_reuse(e)
            THEN Step(i, [pc |-> "project", origin |-> "cached", body |-> e.body, etag |-> e.etag, cc |-> e.cc])
            ELSE Step(i, [pc |-> "request", seen |-> e])
    /\ UNCHANGED <<server, clock, entry, projections, temporaries>>

Answer200 ==
    [pc |-> "project", origin |-> "200", body |-> server, etag |-> server,
     cc |-> cache_control_policy(server), at |-> clock]

(* Every answer to a conditional request is taken for a 304.               *)
RespondIgnoringStatus(i) ==
    /\ session[i].pc = "request"
    /\ LET e == session[i].seen IN
       IF e # Missing
       THEN Step(i, [pc |-> "project", origin |-> "304", body |-> e.body, etag |-> server,
                     cc |-> cache_control_policy(server)])
       ELSE Step(i, Answer200)
    /\ UNCHANGED <<server, clock, entry, projections, temporaries>>

(* The server answers a conditional request with 304 when it still has the *)
(* version of the entity tag; the body is then the cached one and the      *)
(* headers are those of the answer.                                        *)
Respond(i) ==
    /\ session[i].pc = "request"
    /\ LET e == session[i].seen IN
       IF e # Missing /\ e.etag = server
       THEN Step(i, [pc |-> "project", origin |-> "304", body |-> e.body, etag |-> server,
                     cc |-> cache_control_policy(server)])
       ELSE Step(i, Answer200)
    /\ UNCHANGED <<server, clock, entry, projections, temporaries>>

(* One representation has failed: the next one is tried, or the call fails.*)
NextRepresentation(i, fault) ==
    IF Key(i) + 1 \in Keys
    THEN Step(i, [pc |-> "lookup", key |-> Key(i) + 1, retried |-> FALSE, fault |-> fault \/ session[i].fault])
    ELSE Step(i, [pc |-> "failed", fault |-> fault \/ session[i].fault])

RequestFails(i) ==
    /\ session[i].pc \in {"request", "retry"}
    /\ NextRepresentation(i, TRUE)
    /\ UNCHANGED <<server, clock, entry, projections, temporaries>>

(* PackageProjection::open_or_build: an existing projection of the body is *)
(* reused; a body that does not parse is asked for once more if it came    *)
(* from the cache.                                                         *)
Project(i) ==
    /\ session[i].pc = "project"
    /\ \/ /\ ProjectionPath(i) \in projections
          /\ Step(i, [pc |-> "retain"]) /\ UNCHANGED temporaries
       \/ /\ ProjectionPath(i) \notin projections /\ session[i].body \in Bad
          /\ IF session[i].origin \in {"cached", "304"} /\ ~session[i].retried
             THEN Step(i, [pc |-> "retry", retried |-> TRUE])
             ELSE NextRepresentation(i, FALSE)
          /\ UNCHANGED temporaries
       \/ /\ ProjectionPath(i) \notin projections /\ session[i].body \notin Bad
          /\ temporaries' = temporaries \cup {Temporary(i)}
          /\ Step(i, [pc |-> "rename"])
    /\ UNCHANGED <<server, clock, entry, projections>>

Retry(i) ==
    /\ session[i].pc = "retry"
    /\ Step(i, Answer200)
    /\ UNCHANGED <<server, clock, entry, projections, temporaries>>

(* PackageProjection::write renames its temporary file, and rebuild opens  *)
(* the result.  Another session's retention may have removed either.       *)
Rename(i) ==
    /\ session[i].pc = "rename"
    /\ IF Temporary(i) \in temporaries
       THEN projections' = projections \cup {ProjectionPath(i)} /\ Step(i, [pc |-> "open"])
       ELSE Step(i, [pc |-> "failed"]) /\ UNCHANGED projections
    /\ temporaries' = temporaries \ {Temporary(i)}
    /\ UNCHANGED <<server, clock, entry>>

Open(i) ==
    /\ session[i].pc = "open"
    /\ Step(i, [pc |-> IF ProjectionPath(i) \in projections THEN "retain" ELSE "failed"])
    /\ UNCHANGED <<server, clock, entry, projections, temporaries>>

(* retain_projection_files removes every other file of the directory, the  *)
(* temporary files of a dead or a running session included.                *)
Retain(i) ==
    /\ session[i].pc = "retain"
    /\ IF ProjectionPath(i) \in projections
       THEN /\ projections' = {p \in projections : p[1] # Key(i) \/ p[2] = session[i].body}
            /\ temporaries' = {t \in temporaries : t[1] # Key(i)}
       ELSE UNCHANGED <<projections, temporaries>>
    /\ Step(i, [pc |-> "store"])
    /\ UNCHANGED <<server, clock, entry>>

(* RawCache::publish after a 200.                                          *)
Publish(i) ==
    /\ session[i].pc = "store" /\ session[i].origin = "200"
    /\ entry' = [entry EXCEPT ![Key(i)] =
                    IF session[i].cc = "NoStore" THEN Missing
                    ELSE Entry(session[i].body, session[i].etag, session[i].cc, session[i].at, session[i].at)]
    /\ Step(i, [pc |-> "ok"])
    /\ UNCHANGED <<server, clock, projections, temporaries>>

(* RawCache::update_validated_at_with_headers after a 304: it reads the    *)
(* entry again and writes what it then finds with the headers of the       *)
(* answer.                                                                 *)
UpdateValidatedAt(i) ==
    /\ session[i].pc = "store" /\ session[i].origin = "304"
    /\ LET e == entry[Key(i)] IN
       IF ~Readable(e) \/ clock < e.validated
       THEN Step(i, [pc |-> "failed"]) /\ UNCHANGED entry
       ELSE /\ entry' = [entry EXCEPT ![Key(i)] =
                            IF session[i].cc = "NoStore" THEN Missing
                            ELSE Entry(e.body, session[i].etag, session[i].cc, e.observed, clock)]
            /\ Step(i, [pc |-> "ok"])
    /\ UNCHANGED <<server, clock, projections, temporaries>>

UseCached(i) ==
    /\ session[i].pc = "store" /\ session[i].origin = "cached"
    /\ Step(i, [pc |-> "ok"])
    /\ UNCHANGED <<server, clock, entry, projections, temporaries>>

(* A file operation on the projection or on the entry fails.               *)
StorageFails(i) ==
    /\ session[i].pc \in {"rename", "store"}
    /\ Step(i, [pc |-> "failed", fault |-> TRUE])
    /\ temporaries' = temporaries \ {Temporary(i)}
    /\ UNCHANGED <<server, clock, entry, projections>>

Die(i) ==
    /\ session[i].pc \in {"rename", "store"}
    /\ Step(i, [pc |-> "dead"])
    /\ UNCHANGED <<server, clock, entry, projections, temporaries>>

Tick == clock < MaxTime /\ clock' = clock + 1 /\ UNCHANGED <<server, entry, projections, temporaries, session>>

ServerChanges ==
    /\ server < MaxVersion
    /\ server' = server + 1
    /\ UNCHANGED <<clock, entry, projections, temporaries, session>>

(* An entry is damaged on disk between two calls.                          *)
Damage(k) ==
    /\ Readable(entry[k]) /\ \A i \in Sessions : ~Running(i)
    /\ entry' = [entry EXCEPT ![k] = Corrupt]
    /\ UNCHANGED <<server, clock, projections, temporaries, session>>

Finished == \A i \in Sessions : session[i].pc \in {"ok", "failed", "dead"}
Done == Finished /\ UNCHANGED vars

Acquire(i) ==
    \/ \E refresh \in BOOLEAN : Start(i, refresh)
    \/ Lookup(i) \/ Respond(i) \/ RequestFails(i) \/ Project(i) \/ Retry(i) \/ Rename(i) \/ Open(i) \/ Retain(i)
    \/ Publish(i) \/ UpdateValidatedAt(i) \/ UseCached(i) \/ StorageFails(i) \/ Die(i)

Next == (\E i \in Sessions : Acquire(i)) \/ Tick \/ ServerChanges \/ (\E k \in Keys : Damage(k)) \/ Done

Spec == Init /\ [][Next]_vars

----------------------------------------------------------------------------
(* A call that asked the server answers with a version that the server had *)
(* during the call, however the entry came about: a 304 that confirms a    *)
(* cached body confirms the body it was cached with.  Sessions exclude     *)
(* each other here.                                                        *)
RevalidatedIsCurrent ==
    Serial => \A i \in Sessions :
        session[i].pc \in {"store", "ok"} /\ session[i].origin \in {"200", "304"} => session[i].body >= session[i].started

=============================================================================
