------------------------------ MODULE Metadata ------------------------------
(***************************************************************************)
(* The components that obtain metadata and sources over the network, in    *)
(* one specification: `which` says the one that runs.  A variable belongs  *)
(* to every component that has one of its name, and is <<>> where the      *)
(* component that runs has none.                                           *)
(***************************************************************************)
EXTENDS Integers, Sequences, FiniteSets

CONSTANTS
    Explored,       \* the components that run
    Calls,          \* concurrent calls, each of a process of its own
    MaxTime,        \* bound on the clock
    None, Absent, Failed, Missing, Corrupt, All,
    \* RawMetadataCache
    Representations, MaxVersion, Bad, NoStore, NoCache, RawTTL, Serial, StoredEntries,
    \* CranSession
    CranPackages, Releasing, Latest, CranTTL, MaxSessions, Asked, Repositories, Backoffs,
    \* RUniverse
    Packages, Endpoints, Entries, Scopes, FirstEntries, Changing, MaxChanges, MaxDamage,
    \* GitCache
    Requests, Trees, Unsupported, Lower, Slash, Description, Mismatched, OtherFormat, Movements, MaxFaults

VARIABLES
    which,
    server, clock, entry, projections, temporaries, session,
    canonical, mirror, feed, absent, kind, raw, record, sessions,
    history, views, call, damage,
    refs, moved, objects, format, origin, staging, writer, readers, sources, faults

rawOnly == <<server, entry, projections, temporaries>>
cranOnly == <<canonical, mirror, feed, absent, kind, raw, record, sessions>>
universeOnly == <<history, damage>>
gitOnly == <<refs, moved, objects, format, origin, staging, writer, readers, sources, faults>>

vars == <<which, rawOnly, clock, session, cranOnly, universeOnly, views, call, gitOnly>>

Raw == INSTANCE RawMetadataCache WITH
    Sessions <- Calls, Keys <- Representations, TTL <- RawTTL, FirstEntries <- StoredEntries
Cran == INSTANCE CranSession WITH Packages <- CranPackages, TTL <- CranTTL
Universe == INSTANCE RUniverse
Git == INSTANCE GitCache

-----------------------------------------------------------------------------
(* What the components assume.                                              *)

(* The representations are tried from the first, and the entity tag of an   *)
(* entry that an earlier release left is that of its body.                  *)
ASSUME RawAssumption ==
    /\ Representations \subseteq Nat /\ 1 \in Representations
    /\ \A e \in StoredEntries : e.body = e.etag /\ e.etag \in Nat

(* A listing that was answered with 404 is told apart from every surface.   *)
ASSUME CranAssumption ==
    /\ CranTTL \in Nat /\ Releasing \subseteq CranPackages
    /\ Absent \notin [CranPackages -> Nat] /\ Absent \notin {None, Failed}

(* What a server may have for a package.                                    *)
Offerable == Entries \cup {Absent} \cup {first[p] : first \in FirstEntries, p \in Packages}

(* A server has something, or nothing, for each package, and an allowlist   *)
(* names packages.                                                          *)
ASSUME UniverseAssumption ==
    /\ FirstEntries \subseteq [Packages -> Offerable]
    /\ Changing \subseteq Endpoints
    /\ \A scope \in Scopes : scope = All \/ scope \subseteq Packages

(* A lock that nobody holds is told apart from one that a call holds.       *)
ASSUME GitAssumption == None \notin Calls

-----------------------------------------------------------------------------
NoRaw == server = <<>> /\ entry = <<>> /\ projections = <<>> /\ temporaries = <<>>
NoCran ==
    /\ canonical = <<>> /\ mirror = <<>> /\ feed = <<>> /\ absent = <<>> /\ kind = <<>> /\ raw = <<>>
    /\ record = <<>> /\ sessions = <<>>
NoUniverse == history = <<>> /\ damage = <<>>
NoGit ==
    /\ refs = <<>> /\ moved = <<>> /\ objects = <<>> /\ format = <<>> /\ origin = <<>> /\ staging = <<>>
    /\ writer = <<>> /\ readers = <<>> /\ sources = <<>> /\ faults = <<>>

Init ==
    /\ which \in Explored
    /\ \/ which = "raw" /\ Raw!Init /\ NoCran /\ NoUniverse /\ views = <<>> /\ call = <<>> /\ NoGit
       \/ which = "cran" /\ Cran!Init /\ NoRaw /\ NoUniverse /\ views = <<>> /\ call = <<>> /\ NoGit
       \/ which = "r-universe" /\ Universe!Init /\ NoRaw /\ clock = <<>> /\ session = <<>> /\ NoCran /\ NoGit
       \/ which = "git" /\ Git!Init /\ NoRaw /\ clock = <<>> /\ session = <<>> /\ NoCran /\ NoUniverse

RawNext == which = "raw" /\ Raw!Next /\ UNCHANGED <<which, cranOnly, universeOnly, views, call, gitOnly>>
CranNext == which = "cran" /\ Cran!Next /\ UNCHANGED <<which, rawOnly, universeOnly, views, call, gitOnly>>
UniverseNext ==
    which = "r-universe" /\ Universe!Next /\ UNCHANGED <<which, rawOnly, clock, session, cranOnly, gitOnly>>
GitNext == which = "git" /\ Git!Next /\ UNCHANGED <<which, rawOnly, clock, session, cranOnly, universeOnly>>

Next == RawNext \/ CranNext \/ UniverseNext \/ GitNext
Spec == Init /\ [][Next]_vars

-----------------------------------------------------------------------------
(* The properties of the components, where they are the ones that run.      *)

(* A refresh that asked the server answers with what the server had during  *)
(* it (RawMetadataCache).                                                   *)
RevalidatedIsCurrent == which = "raw" => Raw!RevalidatedIsCurrent

(* A forced refresh loses no release that the repository had when it began  *)
(* (CranSession).                                                           *)
NoReleaseVanishes == which = "cran" => Cran!NoReleaseVanishes

(* A repository is trusted with the bulk feed only as long as the metadata  *)
(* lives (CranSession).                                                     *)
QualificationsExpire == [][which = "cran" => Cran!ReuseIsRecent]_vars

(* What a call answers with was offered by the endpoint it asked            *)
(* (RUniverse).                                                             *)
AnswersWereOffered == which = "r-universe" => Universe!AnswersWereOffered

(* A published catalogue is whole (RUniverse).                              *)
CataloguesAreWhole == which = "r-universe" => Universe!CataloguesAreWhole

(* A view that can be opened holds its whole commit (GitCache).             *)
ViewsAreWhole == which = "git" => Git!ViewsAreWhole

(* A mutable selector is answered with a commit it named after it was       *)
(* fetched (GitCache).                                                      *)
AnswersAreStable == which = "git" => Git!AnswersAreStable

(* The DESCRIPTION that is projected is the one of the commit (GitCache).   *)
DescriptionIsTheCommits == which = "git" => Git!DescriptionIsTheCommits

(* No view holds two paths that collide when case is ignored (GitCache).    *)
CollisionsAreRejected == which = "git" => Git!CollisionsAreRejected

=============================================================================
