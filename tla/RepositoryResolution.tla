------------------------ MODULE RepositoryResolution ------------------------
(***************************************************************************)
(* Resolution of a composed manifest against CRAN, r-universe and git      *)
(* sources (rsolve/src/repository_resolution.rs and its demand and         *)
(* direct_source modules, with the closure collection of                   *)
(* prepared_snapshot.rs).  The call alternates between planning, which     *)
(* walks the candidates seen so far, and preparing the snapshots that the  *)
(* plan asks for, until a plan asks for nothing new.                       *)
(*                                                                         *)
(* A package name is a number, its place in the order of names.  A         *)
(* registry maps a package to the set of its releases, empty for a package *)
(* it does not have; a release is its hard and its suggested dependencies. *)
(***************************************************************************)
EXTENDS Naturals, FiniteSets

CONSTANTS
    Packages,       \* package names
    RBase,          \* the names that R itself supplies
    AnySource,      \* a requirement that names no source
    None,           \* no snapshot
    Environments    \* the composed environments a call may be given

VARIABLES
    env,        \* the composed environment and the state of the registries
    pc,         \* the next step of the call
    snap,       \* the snapshot bound to each repository entry
    cranRoots,  \* the packages CRAN was asked to prepare
    prepared,   \* whether CRAN was prepared once (iteration > 0)
    work,       \* the closure under collection
    plan,       \* entry_demands of the last plan
    groups,     \* the r-universe endpoints that are prepared
    outcome     \* how the call ended

vars == <<env, pc, snap, cranRoots, prepared, work, plan, groups, outcome>>

Entries == DOMAIN env.repos
CranEntries == {e \in Entries : env.repos[e].kind = "cran"}
cranIndex == CHOOSE e \in CranEntries : TRUE
package_allowed(e, p) == p \in env.repos[e].allow

is_remote_name(p) == p \notin RBase
is_remote_root(r) == r.source # "git" /\ (r.source # AnySource \/ is_remote_name(r.name))

(* eligible_entries and eligible_dependency_entries: the entries that may  *)
(* answer for a package under a source constraint.                         *)
eligible_dependency_entries(source, p) ==
    {e \in Entries : (source = AnySource \/ source = env.repos[e].id) /\ package_allowed(e, p)}

direct_releases == env.direct
direct_root_override(p) == p \in DOMAIN direct_releases

(* The dependencies of a set of releases that expansion follows.           *)
Followed(releases, promote) ==
    {p \in UNION {r.hard \cup (IF promote THEN r.suggests ELSE {}) : r \in releases} : is_remote_name(p)}

----------------------------------------------------------------------------
(* A snapshot holds the releases of the packages it covers.  One of CRAN   *)
(* is partial, and asking it for a package it does not hold is an error;   *)
(* one of r-universe is complete for its scope, and answers NotFound.      *)

Lookup(s, p) == IF p \in DOMAIN s.held THEN s.held[p] ELSE {}
Undecided(s, p) == p \notin DOMAIN s.held /\ ~s.complete

(* SnapshotDemandSource::load: what an entry answers in the plan.          *)
Load == [e \in Entries |-> [p \in Packages |->
            IF package_allowed(e, p) /\ snap[e] # None THEN Lookup(snap[e], p) ELSE {}]]
LoadFails(e, p) == package_allowed(e, p) /\ snap[e] # None /\ Undecided(snap[e], p)
raw_package_is_covered(e, p) == snap[e] # None /\ Lookup(snap[e], p) # {}

----------------------------------------------------------------------------
(* The plan: everything reachable from the roots over the candidates that  *)
(* the entries answer with.  Only a root promotes its suggestions.         *)

Node(p, source, promote) == [name |-> p, source |-> source, promote |-> promote]

RootNodes ==
    {Node(r.name, r.source, r.suggests) : r \in {x \in env.roots : is_remote_root(x)}}
DirectNodes ==
    {Node(p, AnySource, FALSE) : p \in
        {d \in UNION {Followed({direct_releases[r.name]}, r.suggests) : r \in {x \in env.roots : x.source = "git"}} :
            ~direct_root_override(d)}}

Answers(n, load) == UNION {load[e][n.name] : e \in eligible_dependency_entries(n.source, n.name)}
NextNodes(n, load) ==
    {Node(p, AnySource, FALSE) : p \in {d \in Followed(Answers(n, load), n.promote) : ~direct_root_override(d)}}

Reach(load) ==
    LET walk[k \in 0 .. Cardinality(Packages) + 1] ==
            IF k = 0 THEN RootNodes \cup DirectNodes
            ELSE walk[k - 1] \cup UNION {NextNodes(n, load) : n \in walk[k - 1]}
    IN walk[Cardinality(Packages) + 1]

Demands(nodes) ==
    [e \in Entries |-> {n.name : n \in {x \in nodes : e \in eligible_dependency_entries(x.source, x.name)}}]

initial_repository_demands_with_direct == Demands(RootNodes \cup DirectNodes)
resolve_repository_demands_with_direct == Demands(Reach(Load))
PlanFails ==
    \E n \in Reach(Load) : \E e \in eligible_dependency_entries(n.source, n.name) : LoadFails(e, n.name)

validate_cran_demand_count(demands) ==
    (\E e \in CranEntries : demands[e] # {}) => Cardinality(CranEntries) = 1

(* cran_optional_demands: a package CRAN may turn out not to have.         *)
cran_optional_demands(demands) ==
    {p \in demands[cranIndex] :
        ~\E r \in env.roots : r.name = p /\ r.source = env.repos[cranIndex].id}

----------------------------------------------------------------------------
Fail(why) == pc' = "done" /\ outcome' = why

Init ==
    /\ env \in Environments
    /\ pc = "start"
    /\ snap = [e \in DOMAIN env.repos |-> None]
    /\ cranRoots = {} /\ prepared = FALSE /\ groups = {}
    /\ work = [closure |-> {}, refreshed |-> {}, optional |-> {}, required |-> {}, then |-> "start"]
    /\ plan = [e \in DOMAIN env.repos |-> {}]
    /\ outcome = "running"

(* validate_repository_set and plan_repository_acquisition.                *)
validate_repository_set ==
    (\E r \in env.roots : is_remote_root(r)) => Cardinality(CranEntries) = 1
plan_repository_acquisition ==
    \A r \in env.roots : r.source # "git" =>
        \/ eligible_dependency_entries(r.source, r.name) # {}
        \/ r.source = AnySource /\ ~is_remote_name(r.name)

Start ==
    /\ pc = "start"
    /\ IF validate_repository_set /\ plan_repository_acquisition
       THEN pc' = "direct" /\ UNCHANGED outcome
       ELSE Fail("composition")
    /\ UNCHANGED <<env, snap, cranRoots, prepared, work, plan, groups>>

(* direct_source::prepare: the git roots are acquired one after another    *)
(* and the first error ends the call.                                      *)
AcquireDirect ==
    /\ pc = "direct"
    /\ pc' = "seed"
    /\ UNCHANGED <<env, snap, cranRoots, prepared, work, plan, groups, outcome>>

AcquireDirectFails ==
    /\ pc = "direct" /\ DOMAIN direct_releases # {}
    /\ Fail("direct")
    /\ UNCHANGED <<env, snap, cranRoots, prepared, work, plan, groups>>

(* The request to prepare CRAN for cranRoots; `then` is where the call     *)
(* goes on afterwards.                                                     *)
Request(roots, optional, then) ==
    /\ cranRoots' = roots
    /\ work' = [closure |-> {}, refreshed |-> {}, optional |-> optional, required |-> {}, then |-> then]

Seed ==
    /\ pc = "seed"
    /\ LET demands == initial_repository_demands_with_direct IN
       \/ /\ ~validate_cran_demand_count(demands)
          /\ Fail("composition") /\ UNCHANGED <<cranRoots, work>>
       \/ /\ validate_cran_demand_count(demands) /\ \A e \in Entries : demands[e] = {}
          /\ pc' = "solve" /\ UNCHANGED <<cranRoots, work, outcome>>
       \/ /\ validate_cran_demand_count(demands) /\ \E e \in Entries : demands[e] # {}
          /\ IF CranEntries # {} /\ demands[cranIndex] # {}
             THEN pc' = "prepare" /\ Request(demands[cranIndex], cran_optional_demands(demands), "plan")
             ELSE pc' = "plan" /\ UNCHANGED <<cranRoots, work>>
          /\ UNCHANGED outcome
    /\ UNCHANGED <<env, snap, prepared, plan, groups>>

----------------------------------------------------------------------------
(* prepare_cran_repository_loader_with_optional_demands                    *)

Required == {p \in cranRoots : is_remote_name(p) /\ package_allowed(cranIndex, p)}
AllowedDeps(releases) == {p \in Followed(releases, FALSE) : package_allowed(cranIndex, p)}

(* ensure_cran_closure_is_covered: a view that misses a package of the     *)
(* closure is not covered, and neither is one that misses an optional one. *)
ensure_cran_closure_is_covered(s) ==
    LET reach[k \in 0 .. Cardinality(Packages)] ==
            IF k = 0 THEN Required ELSE reach[k - 1] \cup UNION {AllowedDeps(Lookup(s, p)) : p \in reach[k - 1]}
    IN \A p \in reach[Cardinality(Packages)] : p \in DOMAIN s.held

refresh_requested == env.force /\ ~prepared
Reusable == env.view # None /\ ensure_cran_closure_is_covered(env.view)

Prepare ==
    /\ pc = "prepare"
    /\ \/ /\ env.offline /\ ~Reusable
          /\ Fail("cache") /\ UNCHANGED <<snap, prepared, work>>
       \/ /\ Reusable /\ (env.offline \/ (~refresh_requested /\ env.fresh))
          /\ snap' = [snap EXCEPT ![cranIndex] = env.view]
          /\ prepared' = TRUE
          /\ pc' = work.then /\ UNCHANGED <<work, outcome>>
       \/ /\ ~env.offline /\ ~(Reusable /\ ~refresh_requested /\ env.fresh)
          /\ work' = [work EXCEPT !.required = Required,
                                  !.closure = Required \cup {p \in work.optional : package_allowed(cranIndex, p)}]
          /\ pc' = "collect" /\ UNCHANGED <<snap, prepared, outcome>>
    /\ UNCHANGED <<env, cranRoots, plan, groups>>

(* The batch of packages not yet refreshed, visited in the order of their  *)
(* names: the dependencies of each enter the closure, as optional ones     *)
(* unless they are required, and an optional package without releases      *)
(* leaves the closure, to come back only with a later one's dependencies.  *)
Batch == work.closure \ work.refreshed
DepsOf(packages) == UNION {AllowedDeps(env.cran[p]) : p \in packages}
Dropped ==
    {p \in Batch : /\ env.cran[p] = {}
                   /\ p \in work.optional \cup (DepsOf({q \in Batch : q < p}) \ work.required)
                   /\ p \notin DepsOf({q \in Batch : q > p})}
Visit ==
    [work EXCEPT !.closure = (@ \cup DepsOf(Batch)) \ Dropped, !.refreshed = @ \cup Batch,
                 !.optional = @ \cup (DepsOf(Batch) \ work.required)]

(* collect_cran_dependency_closure_with_metrics_and_optional, one batch.   *)
Collect ==
    /\ pc = "collect"
    /\ Batch # {}
    /\ work' = Visit
    /\ UNCHANGED <<env, pc, snap, cranRoots, prepared, plan, groups, outcome>>

(* A request fails, or a package of the batch is quarantined as a whole.   *)
CollectFails ==
    /\ pc = "collect"
    /\ Batch # {}
    /\ env.faulty
    /\ Fail("refresh")
    /\ UNCHANGED <<env, snap, cranRoots, prepared, work, plan, groups>>

(* refresh_and_publish_snapshot: the published view holds the packages of  *)
(* the closure that CRAN has; an empty closure publishes nothing, and a    *)
(* closure without any observation is an error.                            *)
Publish ==
    /\ pc = "collect"
    /\ Batch = {}
    /\ LET present == {p \in work.closure : env.cran[p] # {}} IN
       IF work.closure # {} /\ present = {}
       THEN Fail("publish") /\ UNCHANGED <<snap, prepared>>
       ELSE /\ snap' = IF work.closure = {} THEN snap
                       ELSE [snap EXCEPT ![cranIndex] =
                                [held |-> [p \in present |-> env.cran[p]], complete |-> FALSE]]
            /\ prepared' = TRUE
            /\ pc' = work.then /\ UNCHANGED outcome
    /\ UNCHANGED <<env, cranRoots, work, plan, groups>>

----------------------------------------------------------------------------
(* One turn of the loop: plan, then CRAN if the plan asks it for a package *)
(* that it was never asked for, then the r-universe endpoints.             *)

MissingCranDemand(demands) ==
    IF CranEntries = {} THEN {}
    ELSE {p \in demands[cranIndex] : ~raw_package_is_covered(cranIndex, p) /\ p \notin cranRoots}

Plan ==
    /\ pc = "plan"
    /\ LET demands == resolve_repository_demands_with_direct
           missing == MissingCranDemand(demands)
       IN \/ /\ PlanFails
             /\ Fail("refresh") /\ UNCHANGED <<plan, cranRoots, work>>
          \/ /\ ~PlanFails /\ ~validate_cran_demand_count(demands)
             /\ Fail("composition") /\ UNCHANGED <<plan, cranRoots, work>>
          \/ /\ ~PlanFails /\ validate_cran_demand_count(demands)
             /\ plan' = demands
             /\ IF missing # {}
                THEN /\ Request(cranRoots \cup missing, cran_optional_demands(demands), "universe again")
                     /\ pc' = "prepare"
                ELSE pc' = "universe" /\ UNCHANGED <<cranRoots, work>>
             /\ UNCHANGED outcome
    /\ UNCHANGED <<env, snap, prepared, groups>>

(* r_universe_group_scope: the union of the allowlists of an endpoint.     *)
GroupEntries(g) == {e \in Entries : env.repos[e].kind = "r-universe" /\ env.repos[e].group = g}
r_universe_group_scope(g) ==
    IF \E e \in GroupEntries(g) : ~env.repos[e].restricted THEN Packages
    ELSE UNION {env.repos[e].allow : e \in GroupEntries(g)}

Unprepared ==
    {g \in {env.repos[e].group : e \in {x \in Entries : env.repos[x].kind = "r-universe" /\ plan[x] # {}}} :
        g \notin groups}

(* A restricted scope is asked for package by package, and one that the    *)
(* endpoint does not have is an error.                                     *)
GroupReadable(g) ==
    \/ r_universe_group_scope(g) = Packages
    \/ \A p \in r_universe_group_scope(g) : env.univ[p] # {}

Universe ==
    /\ pc \in {"universe", "universe again"}
    /\ \E g \in Unprepared :
         IF \/ env.offline /\ ~env.univCached
            \/ ~env.offline /\ (env.force \/ ~env.univCached) /\ ~GroupReadable(g)
         THEN Fail("r-universe") /\ UNCHANGED <<snap, groups>>
         ELSE /\ snap' = [e \in Entries |->
                            IF e \in GroupEntries(g)
                            THEN [held |-> [p \in {q \in r_universe_group_scope(g) : env.univ[q] # {}} |-> env.univ[p]],
                                  complete |-> TRUE]
                            ELSE snap[e]]
              /\ groups' = groups \cup {g}
              /\ pc' = "universe again" /\ UNCHANGED outcome
    /\ UNCHANGED <<env, cranRoots, prepared, work, plan>>

UniverseFails ==
    /\ pc \in {"universe", "universe again"}
    /\ Unprepared # {} /\ env.faulty
    /\ Fail("r-universe")
    /\ UNCHANGED <<env, snap, cranRoots, prepared, work, plan, groups>>

(* A single turn.                                                          *)
EndFirstTurn ==
    /\ pc \in {"universe", "universe again"}
    /\ Unprepared = {}
    /\ pc' = "qualified"
    /\ UNCHANGED <<env, snap, cranRoots, prepared, work, plan, groups, outcome>>

(* The loop goes round when something was prepared, and ends otherwise.    *)
EndTurn ==
    /\ pc \in {"universe", "universe again"}
    /\ Unprepared = {}
    /\ pc' = IF pc = "universe again" THEN "plan" ELSE "qualified"
    /\ UNCHANGED <<env, snap, cranRoots, prepared, work, plan, groups, outcome>>

(* A root qualified with an r-universe entry must be there.                *)
Qualified ==
    /\ pc = "qualified"
    /\ LET absent == {r \in env.roots : \E e \in Entries :
                        /\ env.repos[e].kind = "r-universe" /\ env.repos[e].id = r.source
                        /\ (snap[e] = None \/ Lookup(snap[e], r.name) = {})}
       IN IF absent # {} THEN Fail("package not found")
          ELSE pc' = "solve" /\ UNCHANGED outcome
    /\ UNCHANGED <<env, snap, cranRoots, prepared, work, plan, groups>>

(* The composite loader asks every repository for every key of the solver. *)
(* All keys but those of the git roots are nodes of the last plan; a git   *)
(* root is an exact key, for which each entry looks up its name.           *)
SolverMeetsError ==
    \E d \in DOMAIN direct_releases : \E e \in Entries : LoadFails(e, d)

Solve ==
    /\ pc = "solve"
    /\ Fail(IF SolverMeetsError THEN "solver load" ELSE "ok")
    /\ UNCHANGED <<env, snap, cranRoots, prepared, work, plan, groups>>

Done == pc = "done" /\ UNCHANGED vars

Next ==
    \/ Start \/ AcquireDirect \/ AcquireDirectFails \/ Seed \/ Prepare \/ Collect \/ CollectFails
    \/ Publish \/ Plan \/ Universe \/ UniverseFails \/ EndTurn \/ Qualified \/ Solve \/ Done

Spec == Init /\ [][Next]_vars
FairSpec == Spec /\ WF_vars(Next)

----------------------------------------------------------------------------
Outcomes == {"running", "ok", "composition", "direct", "cache", "refresh", "publish", "r-universe",
             "package not found", "solver load"}

TypeOK ==
    /\ pc \in {"start", "direct", "seed", "prepare", "collect", "plan", "universe", "universe again",
               "qualified", "solve", "done"}
    /\ cranRoots \subseteq Packages /\ prepared \in BOOLEAN /\ outcome \in Outcomes

(* What an entry would answer with if all of its registry were at hand.    *)
RegistryLoad ==
    [e \in Entries |-> [p \in Packages |->
        IF ~package_allowed(e, p) THEN {} ELSE IF env.repos[e].kind = "cran" THEN env.cran[p] ELSE env.univ[p]]]

(* The fixed point is the right one: when the loop of                      *)
(* resolve_composed_with_prepared_direct ends, every package that can be   *)
(* reached over the full contents of the registries, not only over what    *)
(* the snapshots happen to hold, is in the snapshot of every entry that    *)
(* has it and may answer for it.                                           *)
SnapshotsCoverTheClosure ==
    pc \in {"qualified", "solve"} =>
        \A n \in Reach(RegistryLoad) : \A e \in eligible_dependency_entries(n.source, n.name) :
            RegistryLoad[e][n.name] # {} => snap[e] # None /\ Lookup(snap[e], n.name) = RegistryLoad[e][n.name]

(* The absence of a package from CRAN is an ordinary answer when another   *)
(* source supplies it: online, with no failing request, and with every     *)
(* package of the closure available from some eligible entry, the call     *)
(* does not end with an error.                                             *)
Supplied ==
    /\ \A n \in Reach(RegistryLoad) : \E e \in eligible_dependency_entries(n.source, n.name) : RegistryLoad[e][n.name] # {}
    /\ \A e \in Entries : env.repos[e].kind = "r-universe" => ~env.repos[e].restricted
AbsenceIsOrdinary ==
    Supplied /\ ~env.offline /\ ~env.faulty /\ validate_repository_set /\ plan_repository_acquisition
        /\ Cardinality(CranEntries) = 1 =>
        outcome \in {"running", "ok", "direct"}
=============================================================================
