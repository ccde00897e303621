------------------------------ MODULE Resolver ------------------------------
(***************************************************************************)
(* One resolution of rsolve-resolver: the PubGrub adapter (adapter.rs), the *)
(* candidate preference, lock policies and base-package overlay (lib.rs)    *)
(* and the eligibility of prepared candidates (core, candidates.rs).        *)
(*                                                                         *)
(* A release is an identity; Facts gives what is immutable about it and the *)
(* current catalogue its repository occurrences.  A version constraint is   *)
(* the set of versions it admits.  A requirement is [name, source, allowed] *)
(* with source <<"any">>, <<"registry", namespace>>, <<"repository", id>>,  *)
(* <<"exact", identity>> or <<"git">>; a Bioconductor source is a registry  *)
(* whose namespace includes its release.  A PubGrub package is <<"root">>,  *)
(* <<"R">>, a solver key or <<"occupancy", name>>, and a PubGrub version is *)
(* "root", "R" or an identity.                                              *)
(*                                                                         *)
(* PubGrub itself is external.  It decides the pending package of highest   *)
(* priority, and after a conflict it forgets some of its last decisions and *)
(* never again makes all of those that led to the conflict: which ones it   *)
(* forgets is left open.                                                    *)
(***************************************************************************)
EXTENDS Naturals, Sequences, FiniteSets, FiniteSetsExt

CONSTANTS
    Facts,      \* [identity -> [name, version, namespace, edges, date, exposure, order]]
    Catalogs,   \* sequence of [candidates, quarantined, broken], oldest first
    Ranks,      \* [repository -> its rank in the manifest]
    BaseNames,  \* the packages an R installation contains
    RVersion,   \* the R version of the target
    None

VARIABLES
    catalog,    \* the catalogue the loader answers from
    request,    \* [roots, cutoff]: cutoff 0 when none, date 0 when unknown
    policy,     \* "unlocked", "prefer" or "require"
    locked,     \* [solver key -> identity] of the lock, on some keys
    decided,    \* PubGrub's decisions, [package, version, needs]
    nogoods,    \* the sets of decisions found to be incompatible
    interned,   \* [identity -> occurrences] of the candidates seen so far
    outcome     \* "solving", or how the resolution ended

solverVars == <<catalog, request, policy, locked, decided, nogoods, interned,
                outcome>>

Base(id) == Facts[id].namespace = "base"
Candidates == Catalogs[catalog].candidates

-----------------------------------------------------------------------------
(* Candidates of a solver key.                                              *)

subject_name(s) ==
    CASE s[1] = "installed" -> s[2]
      [] s[1] \in {"registry", "repository"} -> s[3]
      [] s[1] = "exact" -> Facts[s[2]].name

provenance_matches(id, s) == s[1] = "registry" => Facts[id].namespace = s[2]

applicable_occurrences(id, s) ==
    {o \in IF id \in DOMAIN Candidates THEN Candidates[id] ELSE {} :
        /\ o.available
        /\ Facts[id].name = subject_name(s)
        /\ s[1] = "exact" => s[2] = id
        /\ provenance_matches(id, s)
        /\ s[1] = "repository" => o.repository = s[2]}

is_eligible_for(id, s) ==
    /\ Facts[id].name = subject_name(s)
    /\ IF s[1] = "exact"
       THEN s[2] = id /\ \/ Facts[id].exposure # "none"
                         \/ \E o \in Candidates[id] : o.available
       ELSE \/ Facts[id].exposure = "runtime" /\ s[1] = "installed"
            \/ applicable_occurrences(id, s) # {}

repository_rank_for(id, s) ==
    LET ranks == {Ranks[o.repository] + 1 : o \in applicable_occurrences(id, s)}
    IN  IF ranks = {} THEN 0 ELSE Min(ranks)

(* RBasePackageOverlay::load: a base package is the one R provides, unless  *)
(* the key names a source.                                                  *)
OverlayLoad(s) ==
    IF s[1] = "installed" /\ s[2] \in BaseNames
    THEN {id \in DOMAIN Facts : Base(id) /\ Facts[id].name = s[2]}
    ELSE {id \in DOMAIN Candidates : Facts[id].name = subject_name(s)}

LoadFails(s) == /\ ~ (s[1] = "installed" /\ s[2] \in BaseNames)
                /\ subject_name(s) \in Catalogs[catalog].broken

loaded(s) == {id \in OverlayLoad(s) : is_eligible_for(id, s)}

(* The occurrences a candidate carries under a key.  For a repository key   *)
(* the loaders of the other repositories answer nothing, so the union has   *)
(* those of that repository alone.                                          *)
View(id, s) ==
    IF id \notin DOMAIN Candidates THEN {}
    ELSE {o \in Candidates[id] : s[1] = "repository" => o.repository = s[2]}

(* CandidateInterner::intern over the candidates of some keys: an identity  *)
(* seen before must have the same occurrences.                              *)
Interning(keys) ==
    LET ids == UNION {loaded(s) : s \in keys}
    IN  [id \in DOMAIN interned \cup ids |->
            IF id \in DOMAIN interned THEN interned[id]
            ELSE View(id, CHOOSE s \in keys : id \in loaded(s))]

ViewsDiffer(keys) ==
    \E s \in keys : \E id \in loaded(s) : Interning(keys)[id] # View(id, s)

-----------------------------------------------------------------------------
(* Requirements: the solver key of a requirement, and its candidates.       *)

exact_root_identity(name) ==
    {r.source[2] : r \in {q \in request.roots : q.name = name /\ q.source[1] = "exact"}}

subject_for_package(p) ==
    IF p.name = "R" THEN <<"R">>
    ELSE CASE p.source[1] = "any" ->
                IF exact_root_identity(p.name) = {} THEN <<"installed", p.name>>
                ELSE <<"exact", CHOOSE id \in exact_root_identity(p.name) : TRUE>>
           [] p.source[1] = "exact" -> p.source
           [] OTHER -> <<p.source[1], p.source[2], p.name>>

LockedIdentity(s) == IF s \in DOMAIN locked /\ policy # "unlocked" THEN locked[s] ELSE None
Required(s) == IF policy = "require" THEN LockedIdentity(s) ELSE None

ranges_for_subject(s, allowed) ==
    IF s = <<"R">> THEN (IF RVersion \in allowed THEN {"R"} ELSE {})
    ELSE {id \in loaded(s) : Facts[id].version \in allowed}

(* candidate_ranges fails where only quarantined releases would do.         *)
RangeFails(s, allowed) ==
    /\ s # <<"R">>
    /\ \/ LoadFails(s)
       \/ /\ Required(s) = None
          /\ ranges_for_subject(s, allowed) = {}
          /\ \E q \in Catalogs[catalog].quarantined :
                q.name = subject_name(s) /\ q.version \in allowed

project_dependency_edges(id, suggests) ==
    {e \in Facts[id].edges : \/ e.kind \in {"depends", "imports", "linking"}
                             \/ e.kind = "suggests" /\ suggests}

expansion_for_subject(s) ==
    \E r \in request.roots : r.suggests /\ subject_for_package(r) = s

publication_rejections(ids, lockedId) ==
    {id \in ids : /\ request.cutoff # 0
                  /\ ~ Base(id)
                  /\ id # lockedId
                  /\ Facts[id].date = 0 \/ Facts[id].date > request.cutoff}

-----------------------------------------------------------------------------
(* The preference among the eligible candidates of a key.                   *)

preference_rank(id, s) ==
    IF id = LockedIdentity(s) THEN 3
    ELSE IF \E o \in applicable_occurrences(id, s) : o.current THEN 2 ELSE 1

(* DefaultCandidatePreference::compare = Less: b is tried before a.         *)
Prefers(a, b, s) ==
    LET key(id) == <<preference_rank(id, s), Facts[id].version,
                     Cardinality(DOMAIN Ranks) + 1 - repository_rank_for(id, s),
                     Facts[id].order>>
    IN  \E i \in 1..4 : /\ key(a)[i] < key(b)[i]
                        /\ \A j \in 1..(i - 1) : key(a)[j] = key(b)[j]

with_eligible_candidates(s, range) ==
    LET eligible == {id \in loaded(s) \cap range : Required(s) \in {None, id}}
        kept     == eligible \ publication_rejections(eligible, LockedIdentity(s))
    IN  IF kept = {} THEN eligible ELSE kept

choose_version(p, range) ==
    CASE p = <<"root">> -> "root"
      [] p = <<"R">> -> IF "R" \in range THEN "R" ELSE None
      [] p[1] = "occupancy" -> IF range = {} THEN None ELSE CHOOSE id \in range : TRUE
      [] OTHER -> LET eligible == with_eligible_candidates(p, range)
                  IN  IF eligible = {} THEN None
                      ELSE CHOOSE id \in eligible : \A o \in eligible \ {id} : Prefers(o, id, p)

(* get_dependencies: the packages a decision requires, with their ranges.   *)
Requirements(p, v) ==
    CASE p = <<"root">> -> request.roots
      [] p = <<"R">> \/ p[1] = "occupancy" -> {}
      [] OTHER -> project_dependency_edges(v, expansion_for_subject(p))

(* The publication policy rules the candidate out.                          *)
Rejected(p, v) ==
    /\ p \notin {<<"root">>, <<"R">>} /\ p[1] # "occupancy"
    /\ Required(p) \in {None, v}
    /\ publication_rejections({v}, LockedIdentity(p)) # {}

(* A dependency on a Git source makes a candidate unavailable; a root on    *)
(* one, and a requirement whose candidates cannot be loaded, are errors.    *)
Unavailable(p, v) ==
    \/ Rejected(p, v)
    \/ p # <<"root">> /\ \E e \in Requirements(p, v) : e.source = <<"git">>

Keys(p, v) == {subject_for_package(e) : e \in {d \in Requirements(p, v) : d.source # <<"git">>}}
              \ {<<"R">>}

DependenciesFail(p, v) ==
    /\ ~ Rejected(p, v)
    /\ \E e \in Requirements(p, v) :
        IF e.source = <<"git">> THEN p = <<"root">>
        ELSE RangeFails(subject_for_package(e), e.allowed)

RequiredPackages(p, v) ==
    {<<subject_for_package(e), ranges_for_subject(subject_for_package(e), e.allowed)>> :
        e \in Requirements(p, v)}
    \cup (IF p = <<"root">> THEN {<< <<"R">>, ranges_for_subject(<<"R">>, request.allowed)>>} ELSE {})

(* A mutant: releases do not occupy their installed name.                   *)
WithoutOccupancy(p, v) == RequiredPackages(p, v)

get_dependencies(p, v) ==
    RequiredPackages(p, v)
    \cup (IF p \in {<<"root">>, <<"R">>} \/ p[1] = "occupancy" THEN {}
          ELSE {<< <<"occupancy", Facts[v].name>>, {v}>>})

-----------------------------------------------------------------------------
(* PubGrub, by its contract.                                                *)

Decision(i) == <<decided[i].package, decided[i].version>>
Decisions == {Decision(i) : i \in DOMAIN decided}
Ranges == UNION {decided[i].needs : i \in DOMAIN decided}
Pending == IF decided = <<>> THEN {<<"root">>}
           ELSE {r[1] : r \in Ranges} \ {d[1] : d \in Decisions}

(* What the decisions and the conflicts met so far leave of a package.      *)
Allowed(p) ==
    LET ranges == {r[2] : r \in {q \in Ranges : q[1] = p}}
    IN  {v \in IF ranges = {} THEN {"root"} ELSE CHOOSE r \in ranges : TRUE :
            /\ \A r \in ranges : v \in r
            /\ ~ \E n \in nogoods : n \subseteq Decisions \cup {<<p, v>>}}

(* The fewest candidates first, then the greatest debug name, of which only *)
(* the variant is kept.                                                     *)
Variants == <<"occupancy", "root", "exact", "installed", "R", "registry", "repository">>
prioritize(p) ==
    LET count == IF p[1] \in {"root", "occupancy"} THEN 1
                 ELSE IF p = <<"R">> THEN Cardinality(Allowed(p) \cap {"R"})
                 ELSE Cardinality(Allowed(p) \cap loaded(p))
    IN  Len(Variants) * count - CHOOSE i \in DOMAIN Variants : Variants[i] = p[1]

(* With what v needs, some package is left without a version.               *)
Conflicts(p, v, needs) ==
    LET all    == Decisions \cup {<<p, v>>}
        ranges == Ranges \cup needs
    IN  \E r \in ranges :
            \/ \A w \in r[2] : \E q \in ranges : q[1] = r[1] /\ w \notin q[2]
            \/ \E d \in all : d[1] = r[1] /\ d[2] \notin r[2]

(* Forget the decisions after the first k: none holds a known conflict.     *)
Backtrack(conflict) ==
    /\ nogoods' = nogoods \cup {conflict}
    /\ IF conflict \subseteq {<< <<"root">>, "root">>}
       THEN outcome' = "no solution" /\ decided' = <<>>
       ELSE /\ outcome' = outcome
            /\ \E k \in 0..Len(decided) :
                /\ ~ conflict \subseteq {Decision(i) : i \in 1..k}
                /\ decided' = SubSeq(decided, 1, k)

Decide ==
    /\ outcome = "solving"
    /\ \E p \in Pending :
        /\ \A q \in Pending : prioritize(p) <= prioritize(q)
        /\ LET v == choose_version(p, Allowed(p))
           IN  IF v = None THEN Backtrack(Decisions) /\ interned' = interned
               ELSE \/ /\ Unavailable(p, v)
                       /\ \E keys \in IF Rejected(p, v) THEN {{}} ELSE SUBSET Keys(p, v) :
                            interned' = Interning(keys)
                       /\ Backtrack(Decisions \cup {<<p, v>>})
                    \/ /\ DependenciesFail(p, v)
                       /\ outcome' = "load failed"
                       /\ UNCHANGED <<decided, nogoods, interned>>
                    \/ /\ ~ Unavailable(p, v) /\ ViewsDiffer(Keys(p, v))
                       /\ outcome' = "views differ"
                       /\ UNCHANGED <<decided, nogoods, interned>>
                    \/ /\ ~ Unavailable(p, v) /\ ~ DependenciesFail(p, v)
                       /\ ~ ViewsDiffer(Keys(p, v))
                       /\ interned' = Interning(Keys(p, v))
                       /\ LET needs == get_dependencies(p, v)
                          IN  IF Conflicts(p, v, needs)
                              THEN Backtrack(Decisions \cup {<<p, v>>})
                              ELSE /\ decided' = Append(decided,
                                        [package |-> p, version |-> v, needs |-> needs])
                                   /\ UNCHANGED <<nogoods, outcome>>
    /\ UNCHANGED <<catalog, request, policy, locked>>

-----------------------------------------------------------------------------
(* solve: the selected releases by name, base packages left out.            *)

Subjects(name) ==
    {d[1] : d \in {e \in Decisions : /\ e[1][1] \notin {"root", "R", "occupancy"}
                                     /\ ~ Base(e[2]) /\ Facts[e[2]].name = name}}
SelectedNames == {n \in {Facts[id].name : id \in DOMAIN Facts} : Subjects(n) # {}}
Selected(name) == {d[2] : d \in {e \in Decisions : e[1] \in Subjects(name)}}

projected_package(name) ==
    LET id == CHOOSE i \in Selected(name) : TRUE
    IN  [identity |-> id,
         edges    |-> project_dependency_edges(id,
                        \E s \in Subjects(name) : expansion_for_subject(s)),
         visible  |-> {o.repository : o \in UNION {applicable_occurrences(id, s) :
                                                     s \in Subjects(name)}}]

solve ==
    /\ outcome = "solving" /\ decided # <<>> /\ Pending = {}
    /\ outcome' = IF \E n \in SelectedNames : Cardinality(Selected(n)) > 1
                  THEN "name conflict" ELSE "solved"
    /\ UNCHANGED <<catalog, request, policy, locked, decided, nogoods, interned>>

Solution == [n \in SelectedNames |-> projected_package(n)]

-----------------------------------------------------------------------------
(* reconstruct_comparison: why each selected release was chosen, and why    *)
(* the other candidates of its key were not.                                *)

(* canonical_subject_cmp: the key a merged package is reported under.       *)
subject_rank(s) == CASE s[1] = "installed" -> 0 [] s[1] = "registry" -> 1
                     [] s[1] = "repository" -> 3 [] s[1] = "exact" -> 4
CanonicalSubject(name) ==
    CHOOSE s \in Subjects(name) : \A t \in Subjects(name) : subject_rank(s) <= subject_rank(t)

root_expansion_for_package(name) == \E r \in request.roots : r.name = name /\ r.suggests
RAllows(id, name) == \A e \in project_dependency_edges(id, root_expansion_for_package(name)) :
                        e.name = "R" => RVersion \in e.allowed

assignment_basis(name) ==
    LET s  == CanonicalSubject(name)
        id == projected_package(name).identity
    IN  IF s[1] = "installed" THEN "installed name reservation"
        ELSE IF id = LockedIdentity(s) THEN "locked preference"
        ELSE IF \E o \in applicable_occurrences(id, s) : o.current THEN "repository current"
        ELSE IF Cardinality({c \in loaded(s) : RAllows(c, name)}) = 1
             THEN "only statically compatible"
        ELSE IF \E r \in request.roots : /\ subject_for_package(r) = s
                                         /\ r.allowed = {Facts[id].version}
             THEN "exact root requirement"
        ELSE "highest compatible"

(* dependency_key, and the selected package reported under that key.        *)
AssignedTo(e) ==
    {projected_package(n).identity : n \in
        {m \in SelectedNames : e.source # <<"git">> /\ CanonicalSubject(m) = subject_for_package(e)}}

(* A mutant: what was published on the day of the cutoff is too new.        *)
CooldownOnTheDay(id, s) ==
    IF request.cutoff = 0 \/ Base(id) \/ id = LockedIdentity(s) THEN None
    ELSE IF Facts[id].date >= request.cutoff THEN "publication cooldown"
    ELSE IF Facts[id].date = 0 THEN "publication unknown" ELSE None

PublicationDifference(id, s) ==
    IF request.cutoff = 0 \/ Base(id) \/ id = LockedIdentity(s) THEN None
    ELSE IF Facts[id].date > request.cutoff THEN "publication cooldown"
    ELSE IF Facts[id].date = 0 THEN "publication unknown" ELSE None

difference_for_candidate(id, name) ==
    LET s        == CanonicalSubject(name)
        selected == projected_package(name).identity
        edges    == project_dependency_edges(id, root_expansion_for_package(name))
    IN  IF Required(s) \notin {None, id} THEN "required lock mismatch"
        ELSE IF PublicationDifference(id, s) # None THEN PublicationDifference(id, s)
        ELSE IF \E r \in request.roots : /\ r.source # <<"git">> /\ subject_for_package(r) = s
                                         /\ Facts[id].version \notin r.allowed
             THEN "root requirement mismatch"
        ELSE IF ~ RAllows(id, name) THEN "constraint violated"
        ELSE IF \E e \in edges : e.name # "R" /\ \E other \in AssignedTo(e) :
                                    Facts[other].version \notin e.allowed
             THEN "constraint violated"
        ELSE IF LockedIdentity(s) \notin {None, id} \/ Prefers(id, selected, s)
             THEN "lower preference" ELSE None

reconstruct_comparison ==
    [n \in SelectedNames |->
        [basis        |-> assignment_basis(n),
         alternatives |-> [c \in loaded(CanonicalSubject(n)) \ {projected_package(n).identity} |->
                             difference_for_candidate(c, n)]]]

=============================================================================
