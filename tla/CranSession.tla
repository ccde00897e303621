---------------------------- MODULE CranSession ----------------------------
(***************************************************************************)
(* A CRAN refresh session (rsolve-provider/src/cran/provider/session/,     *)
(* qualification.rs, allpackages.rs, negative.rs): for each package asked  *)
(* for, the session combines the current index with the history of the     *)
(* package, from the bulk ALLPACKAGES feed when the repository qualifies   *)
(* as a mirror of CRAN and otherwise from the archive index of the package *)
(* or from the archive listing.  Each of these sources is cached and       *)
(* refreshed at its own time.                                              *)
(*                                                                         *)
(* A surface is the number of the latest release of every package: that    *)
(* release is in the current index and the earlier ones are in the         *)
(* archive.  Digests of a surface are the surface itself.                  *)
(***************************************************************************)
EXTENDS Naturals, Sequences

CONSTANTS
    Packages,       \* 1 .. n, in the order they are refreshed
    Releasing,      \* bound: the packages that get new releases
    Latest,         \* bound on the releases of a package
    TTL,            \* DEFAULT_COMPATIBLE_GENERATION_TTL
    MaxTime,        \* bound on the clock
    MaxSessions,    \* bound on the sessions, one after the other
    Asked,          \* bound: how many of the packages each session is asked for
    Repositories,   \* kinds of repositories, each with the sources it lacks
    Backoffs,       \* the delays failure_probe_at may draw
    None, Absent, Failed    \* no value yet; an archive listing answered with 404; a feed not to be tried

VARIABLES
    clock,
    canonical,      \* the surface of CRAN itself
    mirror,         \* the surface of the configured repository
    feed,           \* the surface of the ALLPACKAGES feed
    absent,         \* sources the repository answers with 404
    kind,           \* CRAN itself, a repository that may mirror it, or one without the bulk feed
    raw,            \* the raw cache: what was last fetched of each source
    record,         \* the persisted qualification
    session,        \* the local state of the session
    sessions        \* how many sessions ran

vars == <<clock, canonical, mirror, feed, absent, kind, raw, record, session, sessions>>
world == <<canonical, mirror, feed, absent, kind>>

Index(p) == <<"index", p>>
Sources == {<<"current">>, <<"history">>, <<"feed">>, <<"canonical">>} \cup {Index(p) : p \in Packages}
archived(n) == 1 .. (n - 1)

Behind == {[p \in Packages |-> IF p \in Releasing THEN n ELSE 2] : n \in 1 .. 2}   \* up to a release behind

NoSession == [pc |-> "idle", refresh |-> FALSE, todo |-> 0, current |-> None, history |-> None, bulk |-> None,
              result |-> [p \in Packages |-> None], began |-> None]

Init ==
    /\ clock = 0
    /\ canonical = [p \in Packages |-> 2]
    /\ \E r \in Repositories : kind = r.kind /\ absent = r.lacks
    /\ mirror \in IF kind = "cran" THEN {canonical} ELSE Behind
    /\ feed \in Behind
    /\ raw = [s \in Sources |-> None]
    /\ record = None
    /\ session = NoSession /\ sessions = 0

Set(changes) == session' = [f \in DOMAIN session |-> IF f \in DOMAIN changes THEN changes[f] ELSE session[f]]

(* acquire_metadata: a cached response is reused while it is fresh and no  *)
(* refresh is forced, and a new one is fetched otherwise.                  *)
Reusable(s) == raw[s] # None /\ ~session.refresh /\ clock - raw[s].at < TTL
Acquired(s, now) == IF Reusable(s) THEN raw[s].surface ELSE now
Remember(s, now) == IF Reusable(s) THEN raw ELSE [raw EXCEPT ![s] = [surface |-> now, at |-> clock]]

Start(refresh) ==
    /\ session.pc = "idle" /\ sessions < MaxSessions
    /\ session' = [NoSession EXCEPT !.pc = "current", !.refresh = refresh, !.began = mirror,
                              !.bulk = IF kind = "plain" THEN Failed ELSE None]
    /\ sessions' = sessions + 1
    /\ UNCHANGED <<world, clock, raw, record>>

End == session.pc = "done" /\ session' = NoSession /\ UNCHANGED <<world, clock, raw, record, sessions>>
Abort == Set([pc |-> "done"])

(* A request fails or answers with something unexpected.                   *)
Fails(s) == ~Reusable(s)

(* ensure_current, once per session: its error ends the refresh.           *)
EnsureCurrent ==
    /\ session.pc = "current"
    /\ \/ /\ Set([pc |-> "package", todo |-> 1, current |-> Acquired(<<"current">>, mirror)])
          /\ raw' = Remember(<<"current">>, mirror)
       \/ Fails(<<"current">>) /\ Abort /\ UNCHANGED raw
    /\ UNCHANGED <<world, clock, record, sessions>>

(* ensure_history, memoized: available, absent or an error.                *)
EnsureHistory(next) ==
    IF session.history # None THEN Set([pc |-> next]) /\ UNCHANGED raw
    ELSE IF "history" \in absent THEN Set([pc |-> next, history |-> Absent]) /\ UNCHANGED raw
    ELSE \/ /\ Set([pc |-> next, history |-> Acquired(<<"history">>, mirror)])
            /\ raw' = Remember(<<"history">>, mirror)
         \/ Fails(<<"history">>) /\ Set([pc |-> next, history |-> Failed]) /\ UNCHANGED raw

HistoryAvailable == session.history \notin {None, Absent, Failed}

(* refresh_package: the bulk feed is tried first, once per session.        *)
Package ==
    /\ session.pc = "package"
    /\ IF session.todo > Asked[sessions] THEN Abort /\ UNCHANGED raw
       ELSE IF session.bulk = Failed THEN Set([pc |-> "index"]) /\ UNCHANGED raw
       ELSE IF session.bulk # None THEN Set([pc |-> "bulk"]) /\ UNCHANGED raw
       ELSE EnsureHistory("qualify")
    /\ UNCHANGED <<world, clock, record, sessions>>

----------------------------------------------------------------------------
(* The qualification of the repository as a mirror of CRAN.                *)

matches(r) == r # None /\ r.current = session.current /\ r.archive = session.history
ReusableAtAnyAge(r) == clock >= r.validated
positive_reusable(r) == clock - r.validated <= TTL
backing_off(r) == matches(r) /\ ~session.refresh /\ r.status # "positive" /\ clock < r.next

failure_probe_at(delay) == clock + delay

Failure(status, fed) ==
    \E delay \in Backoffs :
        record' = [status |-> status, current |-> session.current, archive |-> session.history, feed |-> fed,
                   validated |-> clock, compared |-> clock, next |-> failure_probe_at(delay)]

(* ensure_allpackages up to the request: without an archive listing there  *)
(* is no digest to qualify against, and a failed qualification is not      *)
(* tried again before its time.                                            *)
Qualify ==
    /\ session.pc = "qualify"
    /\ IF ~HistoryAvailable THEN Set([pc |-> "index"])
       ELSE IF backing_off(record) THEN Set([pc |-> "index", bulk |-> Failed])
       ELSE Set([pc |-> "feed"])
    /\ UNCHANGED <<world, clock, raw, record, sessions>>

(* The feed is fetched and projected; a failure is recorded, so that it is *)
(* not tried again before its time, unless the record cannot be written.   *)
Feed ==
    /\ session.pc = "feed"
    /\ \/ /\ "feed" \in absent
          /\ Failure("negative", None) /\ Set([pc |-> "index", bulk |-> Failed]) /\ UNCHANGED raw
       \/ /\ "feed" \notin absent /\ Fails(<<"feed">>)
          /\ Failure("unknown", None) /\ Set([pc |-> "index", bulk |-> Failed]) /\ UNCHANGED raw
       \/ /\ "feed" \notin absent
          /\ Set([pc |-> "compare", bulk |-> Acquired(<<"feed">>, feed)])
          /\ raw' = Remember(<<"feed">>, feed) /\ UNCHANGED record
       \/ /\ "feed" \in absent \/ Fails(<<"feed">>)
          /\ Set([pc |-> "index"]) /\ UNCHANGED <<raw, record>>
    /\ UNCHANGED <<world, clock, sessions>>

positive(validated, compared) ==
    [status |-> "positive", current |-> session.current, archive |-> session.history, feed |-> session.bulk,
     validated |-> validated, compared |-> compared, next |-> clock]

qualification_reusable ==
    ~session.refresh /\ matches(record) /\ record.status = "positive" /\ record.feed = session.bulk
        /\ positive_reusable(record)

custom_surface_matches_canonical ==
    LET surface == Acquired(<<"canonical">>, canonical) IN session.current = surface /\ session.history = surface

(* The decision once the feed is there: a matching positive record is      *)
(* reused as it is; CRAN itself qualifies; another repository must have    *)
(* the surface of CRAN, and is refused for a while if it has not.  The     *)
(* refusal is not memoized, nor is the failure to fetch the surface of     *)
(* CRAN or to write the record: the next package tries again.              *)
Compare ==
    /\ session.pc = "compare"
    /\ \/ /\ qualification_reusable
          /\ Set([pc |-> "bulk"]) /\ UNCHANGED <<raw, record>>
       \/ /\ ~qualification_reusable /\ kind = "cran"
          /\ record' = positive(clock, clock) /\ Set([pc |-> "bulk"]) /\ UNCHANGED raw
       \/ /\ ~qualification_reusable /\ kind # "cran"
          /\ raw' = Remember(<<"canonical">>, canonical)
          /\ IF custom_surface_matches_canonical
             THEN record' = positive(clock, clock) /\ Set([pc |-> "bulk"])
             ELSE Failure("negative", session.bulk) /\ Set([pc |-> "index", bulk |-> None])
       \/ /\ ~qualification_reusable
          /\ Set([pc |-> "index", bulk |-> None]) /\ UNCHANGED <<raw, record>>
    /\ UNCHANGED <<world, clock, sessions>>

----------------------------------------------------------------------------
(* The candidates of one package.                                          *)

candidates(p) == {session.current[p]}

Candidates(p, versions) ==
    Set([pc |-> "package", todo |-> p + 1, result |-> [session.result EXCEPT ![p] = versions]])

Historical(s, p) == (1 .. s[p]) \ candidates(p)
Older(s, p) == archived(s[p]) \ candidates(p)

(* The feed is taken as it is.                                             *)
BulkOfFeed ==
    /\ session.pc = "bulk"
    /\ LET p == session.todo IN
       Candidates(p, candidates(p) \cup Historical(session.bulk, p))
    /\ UNCHANGED <<world, clock, raw, record, sessions>>

(* bulk_candidates_for_package: the feed is adopted for a package when its *)
(* historical rows are exactly those that the archive listing has.  The    *)
(* feed lists every release, the listing only the archived ones.  A        *)
(* projection that cannot be decoded, not even rebuilt, ends the refresh.  *)
Bulk ==
    /\ session.pc = "bulk"
    /\ LET p == session.todo IN
       \/ Abort
       \/ IF Historical(session.bulk, p) = Older(session.history, p)
          THEN Candidates(p, candidates(p) \cup Older(session.history, p))
          ELSE Set([pc |-> "index"])
    /\ UNCHANGED <<world, clock, raw, record, sessions>>

(* CranProvider: what the archive index lists, or what the tarballs in the *)
(* archive listing describe.                                               *)
load(p, n) == candidates(p) \cup (archived(n) \ candidates(p))
load_fallback(p) == candidates(p) \cup Older(session.history, p)

(* The archive index of the package; without it, the archive listing and   *)
(* the description in every archived tarball.                              *)
FastPath ==
    /\ session.pc = "index"
    /\ LET p == session.todo IN
       \/ /\ "index" \notin absent
          /\ Candidates(p, load(p, Acquired(Index(p), mirror[p])))
          /\ raw' = Remember(Index(p), mirror[p])
       \/ /\ "index" \in absent \/ Fails(Index(p))
          /\ EnsureHistory(IF "index" \in absent THEN "unsupported" ELSE "invalid")
       \/ "index" \notin absent /\ Fails(Index(p)) /\ Abort /\ UNCHANGED raw
    /\ UNCHANGED <<world, clock, record, sessions>>

(* resolve_fast_path_failure and load_fallback.                            *)
Fallback ==
    /\ session.pc \in {"unsupported", "invalid"}
    /\ LET p == session.todo IN
       \/ /\ HistoryAvailable
          /\ Candidates(p, load_fallback(p))
       \/ HistoryAvailable /\ archived(session.history[p]) # {} /\ Abort
       \/ /\ ~HistoryAvailable
          /\ IF session.pc = "unsupported" /\ session.history = Absent THEN Candidates(p, candidates(p)) ELSE Abort
    /\ UNCHANGED <<world, clock, raw, record, sessions>>

----------------------------------------------------------------------------
Over == session.pc \in {"idle", "done"} /\ sessions = MaxSessions
Tick == ~Over /\ clock < MaxTime /\ clock' = clock + 1 /\ UNCHANGED <<world, raw, record, session, sessions>>

(* CRAN releases, and the repository and the feed catch up in their time.  *)
Release(p) ==
    /\ ~Over /\ canonical[p] < Latest
    /\ canonical' = [canonical EXCEPT ![p] = @ + 1]
    /\ mirror' = IF kind = "cran" THEN canonical' ELSE mirror
    /\ UNCHANGED <<clock, feed, absent, kind, raw, record, session, sessions>>
SyncMirror == ~Over /\ mirror # canonical /\ mirror' = canonical /\ UNCHANGED <<clock, canonical, feed, absent, kind, raw, record, session, sessions>>
SyncFeed == ~Over /\ feed # canonical /\ feed' = canonical /\ UNCHANGED <<clock, canonical, mirror, absent, kind, raw, record, session, sessions>>

Finished == session.pc = "idle" /\ sessions = MaxSessions /\ UNCHANGED vars

Next ==
    \/ \E refresh \in BOOLEAN : Start(refresh)
    \/ EnsureCurrent \/ Package \/ Qualify \/ Feed \/ Compare \/ Bulk \/ FastPath \/ Fallback \/ End
    \/ Tick \/ (\E p \in Releasing : Release(p)) \/ SyncMirror \/ SyncFeed \/ Finished

Spec == Init /\ [][Next]_vars

----------------------------------------------------------------------------
(* A forced refresh loses no release: what the repository had when the     *)
(* session began is among the candidates of every package it answered for, *)
(* although the sources are read at different times, from servers that lag *)
(* behind each other.                                                      *)
NoReleaseVanishes ==
    session.refresh /\ ~({"history", "index"} \subseteq absent) =>
        \A p \in Packages : session.result[p] # None => 1 .. session.began[p] \subseteq session.result[p]

(* A repository is trusted with the bulk feed of CRAN only while its       *)
(* surface was compared with that of CRAN no longer than the lifetime of   *)
(* the metadata ago, however often the decision was reused since, and only *)
(* for the surface that this session sees.                                 *)
ReuseIsRecent ==
    session.pc = "compare" /\ session'.pc = "bulk" /\ kind # "cran" =>
        /\ record'.current = session.current /\ record'.archive = session.history
        /\ clock - record'.compared <= TTL
QualificationsExpire == [][ReuseIsRecent]_vars
=============================================================================
