----------------------------- MODULE LockUpdate -----------------------------
(***************************************************************************)
(* The life of a lock file around two resolutions: the first resolution is  *)
(* projected to a lock (lock.rs), and a later one, of a possibly edited     *)
(* manifest and against a possibly newer catalogue, runs under one of the   *)
(* lock policies (orchestration.rs, resolve_with_lock_policy).  The target, *)
(* the environment and the R requirement are those of the lock; the other   *)
(* applicability facts are the request, which stands for its digest.        *)
(***************************************************************************)
EXTENDS Resolver

CONSTANT Requests   \* the requests a manifest may state

VARIABLES
    lock,       \* None, or [packages, request]
    phase       \* what is being done, or how it ended

vars == <<solverVars, lock, phase>>

-----------------------------------------------------------------------------
(* The lock of a resolution, and what its reader checks.                    *)

Name(package) == Facts[package.identity].name

(* LockedPackage::from_resolved, and the retain of                          *)
(* from_resolution_with_applicability: edges to the selected packages only. *)

LockedEdges(edges, names) == {<<e.kind, e.name>> : e \in {d \in edges : d.name \in names}}

from_resolution(solution) ==
    {[identity |-> solution[n].identity,
      edges    |-> LockedEdges(solution[n].edges, DOMAIN solution),
      visible  |-> solution[n].visible] : n \in DOMAIN solution}

validate_contents(packages) ==
    /\ \A p \in packages : ~ Base(p.identity)
    /\ \A p, q \in packages : Name(p) = Name(q) => p = q
    /\ \A p \in packages : \A e \in p.edges : \E q \in packages : Name(q) = e[2]

(* Each level adds what the packages marked so far depend on.               *)
mark_reachable(packages, names) ==
    LET marked[k \in 0..Cardinality(packages)] ==
            IF k = 0 THEN names
            ELSE LET before == marked[k - 1]
                 IN  before \cup {e[2] : e \in UNION {p.edges : p \in {q \in packages : Name(q) \in before}}}
    IN  marked[Cardinality(packages)]

(* consume_roots; configured: the repositories of the manifest are given.   *)
consume_roots(packages, roots, configured) ==
    LET runtime(r) == r.source = <<"any">> /\ r.name \in BaseNames \cup {"R"}
        direct     == {r.name : r \in {q \in roots : q.source[1] = "exact"}}
    IN  /\ validate_contents(packages)
        /\ \A p \in packages :
              configured => /\ p.visible \subseteq DOMAIN Ranks
                            /\ p.visible # {} \/ Name(p) \in direct
        /\ \A r \in roots :
              IF runtime(r) THEN RVersion \in r.allowed
              ELSE \E p \in packages : /\ Name(p) = r.name
                                       /\ Facts[p.identity].version \in r.allowed
                                       /\ r.source[1] = "repository" => r.source[2] \in p.visible
        /\ {Name(p) : p \in packages} \subseteq
              mark_reachable(packages, {r.name : r \in {q \in roots : ~ runtime(q)}})

consume_composed_environment(l, r) == l.request = r /\ consume_roots(l.packages, r.roots, TRUE)

(* A mutant: the identity is locked for the installed name alone.           *)
NameKeys(p) == {<<"installed", Name(p)>>}

identity_solver_keys(p) ==
    {<<"installed", Name(p)>>, <<"exact", p.identity>>}
    \cup {<<"repository", r, Name(p)>> : r \in p.visible}
    \cup (IF Facts[p.identity].namespace = "git" THEN {}
          ELSE {<<"registry", Facts[p.identity].namespace, Name(p)>>})

locked_identities(packages) ==
    [k \in UNION {identity_solver_keys(p) : p \in packages} |->
        (CHOOSE p \in packages : k \in identity_solver_keys(p)).identity]

-----------------------------------------------------------------------------
(* resolve_with_lock_policy.                                                *)

Begin(c, r, pol, ids) ==
    /\ catalog' = c /\ request' = r /\ policy' = pol /\ locked' = ids
    /\ decided' = <<>> /\ nogoods' = {} /\ interned' = <<>> /\ outcome' = "solving"

Init ==
    /\ catalog \in DOMAIN Catalogs /\ request \in Requests
    /\ policy = "unlocked" /\ locked = <<>>
    /\ decided = <<>> /\ nogoods = {} /\ interned = <<>> /\ outcome = "solving"
    /\ lock = None /\ phase = "resolving"

Solve == phase \in {"resolving", "again"} /\ (Decide \/ solve) /\ UNCHANGED <<lock, phase>>

(* from_resolution_with_composed_environment.                               *)
WriteLock ==
    /\ phase = "resolving" /\ outcome = "solved"
    /\ LET l == [packages |-> from_resolution(Solution), request |-> request]
       IN  IF consume_composed_environment(l, request)
           THEN lock' = l /\ phase' = "locked"
           ELSE lock' = lock /\ phase' = "unusable"
    /\ UNCHANGED solverVars

ResolveAgain ==
    /\ phase = "locked"
    /\ lock' = lock
    /\ \E c \in catalog..Len(Catalogs), r \in Requests, pol \in {"prefer", "require"} :
        IF pol = "require" /\ ~ consume_roots(lock.packages, r.roots, FALSE)
        THEN phase' = "refused" /\ Begin(c, r, pol, <<>>)
        ELSE phase' = "again" /\ Begin(c, r, pol, locked_identities(lock.packages))

Identities == {Solution[n].identity : n \in DOMAIN Solution}

verify_exact_identity_set(ids, packages) == ids = {p.identity : p \in packages}

Conclude ==
    /\ phase = "again" /\ outcome # "solving"
    /\ phase' = IF /\ policy = "require" /\ outcome = "solved"
                   /\ ~ verify_exact_identity_set(Identities, lock.packages)
                THEN "mismatch" ELSE "answered"
    /\ UNCHANGED <<solverVars, lock>>

Over == phase \in {"unusable", "refused", "mismatch", "answered"}
        \/ (phase = "resolving" /\ outcome \notin {"solving", "solved"})
Terminating == Over /\ UNCHANGED vars

Next == Solve \/ WriteLock \/ ResolveAgain \/ Conclude \/ Terminating
Spec == Init /\ [][Next]_vars

-----------------------------------------------------------------------------
(* The reference: what a set of releases, one for each installed name, must *)
(* satisfy.  It knows nothing of solver keys, occupancy or decisions.  An   *)
(* unqualified requirement on a base package is met by R itself, unless a   *)
(* root asks for an exact release of that name.                             *)

OfName(S, name) == {id \in S : Facts[id].name = name}
Offered(id) == {o.repository : o \in {q \in Candidates[id] : q.available}}

Satisfied(S, e) ==
    IF e.name = "R" THEN RVersion \in e.allowed
    ELSE IF e.source = <<"any">> /\ e.name \in BaseNames /\ exact_root_identity(e.name) = {}
    THEN /\ OfName(S, e.name) = {}
         /\ \E id \in DOMAIN Facts :
              Base(id) /\ Facts[id].name = e.name /\ Facts[id].version \in e.allowed
    ELSE \E id \in OfName(S, e.name) :
            /\ Facts[id].version \in e.allowed
            /\ CASE e.source[1] = "any" -> TRUE
                 [] e.source[1] = "registry" -> Facts[id].namespace = e.source[2]
                 [] e.source[1] = "repository" -> e.source[2] \in Offered(id)
                 [] e.source[1] = "exact" -> e.source[2] = id
                 [] e.source[1] = "git" -> FALSE

Sound(S) ==
    /\ \A id, other \in S : Facts[id].name = Facts[other].name => id = other
    /\ RVersion \in request.allowed
    /\ \A r \in request.roots : Satisfied(S, r)
    /\ \A id \in S :
        /\ Offered(id) # {} \/ \E r \in request.roots : r.source = <<"exact", id>>
        /\ \A e \in Facts[id].edges :
            \/ Satisfied(S, e)
            \/ e.kind = "suggests" /\ ~ \E r \in request.roots : r.name = Facts[id].name /\ r.suggests
            \/ e.kind = "enhances"
        /\ \/ request.cutoff = 0
           \/ Facts[id].date \in 1..request.cutoff
           \/ \E k \in DOMAIN locked : locked[k] = id

(***************************************************************************)
(* What a resolution returns satisfies every root and every dependency of   *)
(* every package it selected, whatever keys it reached them through, with   *)
(* one release for each installed name; and when a first resolution reports *)
(* that there is no solution, no set of releases is one.                    *)
(***************************************************************************)
AnswerIsTheReferences ==
    /\ outcome # "name conflict"
    /\ outcome = "solved" => Sound(Identities)
    /\ outcome = "no solution" /\ policy = "unlocked" =>
          \A S \in SUBSET DOMAIN Candidates : ~ Sound(S)

(***************************************************************************)
(* The comparison gives true reasons: a candidate said to be ruled out by a *)
(* date, a root or a constraint does not fit in place of the selected one,  *)
(* and a release said to be the only compatible one has no rival that fits. *)
(***************************************************************************)
ReasonsAreTrue ==
    outcome = "solved" => \A n \in SelectedNames :
        LET told    == reconstruct_comparison[n]
            fits(c) == Sound((Identities \ {projected_package(n).identity}) \cup {c})
        IN  \A c \in DOMAIN told.alternatives :
                /\ told.alternatives[c] \in {"publication cooldown", "publication unknown",
                       "root requirement mismatch", "constraint violated"} => ~ fits(c)
                /\ told.basis = "only statically compatible" => ~ fits(c)

(***************************************************************************)
(* The views of a release are complete before the solver sees them, as the  *)
(* interner's comment requires: no two keys show one release with different *)
(* occurrences.                                                             *)
(***************************************************************************)
CompositionIsComplete == outcome # "views differ"

(***************************************************************************)
(* A lock holds while the manifest does: resolved again, even against a     *)
(* catalogue with newer releases, the same request selects the same         *)
(* releases, under the preferring and under the exact policy.               *)
(***************************************************************************)
LocksReproduce ==
    /\ /\ phase \in {"answered", "mismatch"} /\ request = lock.request
       /\ outcome # "views differ"
       => /\ phase = "answered" /\ outcome = "solved"
          /\ Identities = {p.identity : p \in lock.packages}
    /\ phase = "answered" /\ policy = "require" /\ outcome = "solved" =>
          Identities = {p.identity : p \in lock.packages}

=============================================================================
