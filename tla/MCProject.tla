----------------------------- MODULE MCProject -----------------------------
(***************************************************************************)
(* Small instances of the components that work on one project, in one state *)
(* space: those of Project, Materialization, and the ones that no theorem  *)
(* is about.                                                               *)
(***************************************************************************)
EXTENDS Project, Materialization, TLC

CONSTANTS c1, c2, i1, i2, pkgA, pkgB, sha1, sha2, sha3, idx1, idx2

VARIABLES
    document, state, next, roots,       \* Manifest
    holder                              \* the lock, where Materialization is Unordered

manifestOnly == <<document, state, next, roots>>
matOnly == <<fs, images, gitignore, pc, req, result>>
all == <<projectVars, manifestOnly, matOnly, lock, holder>>

-----------------------------------------------------------------------------
(* BoundedCopy: streams up to two bytes longer than the greatest size.      *)

lengths == 0..(MaxSize + 2)
sizes == 0..MaxSize \cup {None}

-----------------------------------------------------------------------------
(* RepositoryResolution: three packages besides the base package 4, the     *)
(* registries in which a package has few releases, and a handful of         *)
(* repository configurations.                                               *)

pkgs == 1 .. 3
release(h, s) == [hard |-> h, suggests |-> s]
cranEntry(id, allow) == [kind |-> "cran", id |-> id, allow |-> allow, restricted |-> FALSE, group |-> "cran"]
univEntry(id, allow) ==
    [kind |-> "r-universe", id |-> id, allow |-> allow, restricted |-> allow # pkgs, group |-> "u"]
root(p, source, suggests) == [name |-> p, source |-> source, suggests |-> suggests]

setups ==
    {<<cranEntry("c", pkgs)>>,
     <<cranEntry("c", pkgs), univEntry("u", pkgs)>>,
     <<cranEntry("c", {1, 3}), univEntry("u", pkgs)>>,
     <<cranEntry("c", {1, 3}), univEntry("u", {2})>>,
     <<cranEntry("c", pkgs), cranEntry("d", pkgs)>>}
rootSets ==
    {{root(1, Unqualified, FALSE)}, {root(1, "c", TRUE)},
     {root(1, Unqualified, FALSE), root(2, "u", FALSE), root(4, Unqualified, FALSE)},
     {root(1, "git", TRUE)}, {root(1, "git", TRUE), root(2, Unqualified, FALSE)}, {root(3, "nowhere", FALSE)}}
directOf(rs) ==
    {f \in [{r.name : r \in {x \in rs : x.source = "git"}} -> {release({2}, {}), release({}, {3})}] : TRUE}
cranContents ==
    {<<a, b, c>> : a \in {{}, {release({2}, {})}, {release({}, {3}), release({2, 4}, {})}},
                   b \in {{}, {release({3}, {})}}, c \in {{release({1}, {})}}}
univContents ==
    {<<a, b, c>> : a \in {{}}, b \in {{release({3}, {})}}, c \in {{}, {release({1}, {})}}}
served ==
    {<<s, u>> \in setups \X univContents :
        (\A i \in DOMAIN s : s[i].kind = "cran") => u = <<{}, {release({3}, {})}, {}>>}
viewOf(cran, held) == [held |-> [p \in {q \in held : cran[q] # {}} |-> cran[p]], complete |-> FALSE]
modes == {[offline |-> FALSE, force |-> FALSE, faulty |-> TRUE, fresh |-> FALSE, cached |-> FALSE, view |-> {}],
          [offline |-> FALSE, force |-> FALSE, faulty |-> FALSE, fresh |-> TRUE, cached |-> TRUE, view |-> {1, 2}],
          [offline |-> FALSE, force |-> TRUE, faulty |-> FALSE, fresh |-> TRUE, cached |-> TRUE, view |-> pkgs],
          [offline |-> TRUE, force |-> FALSE, faulty |-> FALSE, fresh |-> FALSE, cached |-> TRUE, view |-> {1, 3}],
          [offline |-> TRUE, force |-> FALSE, faulty |-> FALSE, fresh |-> FALSE, cached |-> FALSE, view |-> pkgs]}

environments ==
    UNION {{[repos |-> s, roots |-> r, direct |-> d, cran |-> c, univ |-> u,
             view |-> IF m.view = {} THEN None ELSE viewOf(c, m.view), fresh |-> m.fresh,
             univCached |-> m.cached, offline |-> m.offline, force |-> m.force, faulty |-> m.faulty] :
                d \in directOf(r), c \in cranContents, m \in modes, <<s, u>> \in served} : r \in rootSets}

-----------------------------------------------------------------------------
(* LockUpdate: CRAN, two r-universe repositories that build one commit of   *)
(* b, a direct Git release of a, and the base package stats, which CRAN     *)
(* also lists.                                                              *)

V == 1..4
any == <<"any">>

(* The dependencies that providers read name no source.                     *)
Edge(kind, name, allowed) ==
    [kind |-> kind, name |-> name, source |-> any, allowed |-> allowed]
Release(name, version, namespace, date, order, exposure, edges) ==
    [name |-> name, version |-> version, namespace |-> namespace, date |-> date,
     order |-> order, exposure |-> exposure, edges |-> edges]

facts ==
    [a1    |-> Release("a", 1, "cran", 1, 1, "none", {Edge("imports", "stats", V)}),
     a2    |-> Release("a", 2, "cran", 3, 2, "none",
                 {Edge("depends", "R", {4}), Edge("imports", "b", {1})}),
     ga    |-> Release("a", 2, "git", 0, 3, "exact", {Edge("imports", "b", V)}),
     b1    |-> Release("b", 1, "git", 1, 4, "none", {}),
     b2    |-> Release("b", 2, "cran", 0, 5, "none", {Edge("suggests", "d", V)}),
     b3    |-> Release("b", 3, "git", 2, 6, "none", {Edge("imports", "b", V)}),
     c1    |-> Release("c", 1, "cran", 1, 7, "none",
                 {Edge("depends", "a", {1, 2}), Edge("linking", "b", V)}),
     c2    |-> Release("c", 2, "cran", 2, 8, "none",
                 {Edge("imports", "a", {2}), Edge("imports", "b", V),
                  Edge("suggests", "stats", V), Edge("enhances", "d", V)}),
     stats |-> Release("stats", 4, "base", 0, 9, "runtime", {}),
     s1    |-> Release("stats", 1, "cran", 1, 10, "none", {}),
     s2    |-> Release("stats", 2, "cran", 2, 11, "none", {})]

Listed(repository, current) == [repository |-> repository, available |-> TRUE, current |-> current]
Gone(repository) == [repository |-> repository, available |-> FALSE, current |-> FALSE]

(* The second catalogue has newer releases of a, b and c.                   *)
catalogs ==
    << [candidates  |-> [a1 |-> {Listed("cran", TRUE)}, ga |-> {},
                         b1 |-> {Listed("ru", TRUE)},
                         b3 |-> {Gone("ru")},
                         c1 |-> {Listed("cran", TRUE)}, s1 |-> {Listed("cran", TRUE)}],
        quarantined |-> {[name |-> "d", version |-> 1]},
        broken      |-> {}],
       [candidates  |-> [a1 |-> {Listed("cran", FALSE)}, a2 |-> {Listed("cran", TRUE)}, ga |-> {},
                         b1 |-> {Listed("ru", FALSE), Listed("rv", TRUE)},
                         b2 |-> {Listed("cran", TRUE)},
                         b3 |-> {Listed("ru", TRUE)},
                         c1 |-> {Listed("cran", FALSE)}, c2 |-> {Listed("cran", TRUE)},
                         s1 |-> {Listed("cran", FALSE)}, s2 |-> {Listed("cran", TRUE)}],
        quarantined |-> {[name |-> "d", version |-> 1]},
        broken      |-> {"e"}] >>

ranks == [cran |-> 0, ru |-> 1, rv |-> 2]
base == {"stats"}

Root(name, source, allowed, suggests) ==
    [name |-> name, source |-> source, allowed |-> allowed, suggests |-> suggests]
RootSets ==
    {{Root("c", any, V, TRUE)},
     {Root("a", any, V, FALSE), Root("b", any, {2, 3}, FALSE)},
     {Root("a", any, V, FALSE), Root("b", <<"repository", "ru">>, V, FALSE)},
     {Root("c", any, V, FALSE), Root("a", <<"exact", "ga">>, V, FALSE)},
     {Root("b", any, V, TRUE), Root("stats", any, V, FALSE)},
     {Root("a", <<"registry", "cran">>, V, FALSE), Root("stats", <<"repository", "cran">>, V, FALSE)},
     {Root("stats", <<"repository", "cran">>, V, FALSE)}}
Undated == {{Root("e", any, V, FALSE)}, {Root("b", <<"git">>, V, FALSE)}}
requests ==
    [roots : RootSets, cutoff : {0, 2}, allowed : {{4}}]
      \cup [roots : Undated, cutoff : {0}, allowed : {{4}}]

(* What LocksReproduce rests on holds of these catalogues.                  *)
ASSUME CataloguesGrow

-----------------------------------------------------------------------------
(* LockCommand: an offline run whose report has a name that may fold to the *)
(* lock's, beside an online one.                                            *)

commands ==
    [p |-> [manifest |-> TRUE, offline |-> TRUE, metrics |-> "LOCK"],
     q |-> [manifest |-> FALSE, offline |-> FALSE, metrics |-> "report"]]

-----------------------------------------------------------------------------
(* RepositoryPreparation: packages that can be acquired, and that cannot.   *)

offered ==
    [u |-> [universe |-> TRUE, allowed |-> {"a", "b"}],
     w |-> [universe |-> TRUE, allowed |-> {"a", "b"}],
     cran |-> [universe |-> FALSE, allowed |-> {"a", "b"}]]

Offer(u, w) == [u |-> u, w |-> w, cran |-> {}]
Web(n) == [id |-> n, http |-> TRUE]
File(n) == [id |-> n, http |-> FALSE]
pkgOne == [name |-> "a", git |-> TRUE, visible |-> <<"cran", "u", "w">>,
      offers |-> Offer({Web(1)}, {Web(2)})]
pkgTwo == [name |-> "b", git |-> TRUE, visible |-> <<"u", "w">>, offers |-> Offer({}, {Web(1)})]
local == [name |-> "b", git |-> TRUE, visible |-> <<"u">>, offers |-> Offer({File(3)}, {})]
released == [name |-> "b", git |-> FALSE, visible |-> <<"u">>, offers |-> Offer({Web(4)}, {})]
two == [name |-> "b", git |-> TRUE, visible |-> <<"u">>, offers |-> Offer({Web(1), Web(2)}, {})]

chosen == {<<pkgOne, pkgTwo>>, <<pkgOne>>, <<pkgOne, local>>, <<pkgOne, released>>, <<pkgOne, two>>}
bytes == {{"a"}, {"b"}}

-----------------------------------------------------------------------------
(* Manifest: pairs of manifests with two groups, and some that are refused. *)

anySource == <<"registry-source", "">>
from(repository) == <<"registry-source", repository>>
Clause(op, v) == [op |-> op, version |-> v]
Asks(constraint, source, suggests) ==
    [constraint |-> constraint, source |-> source, suggests |-> suggests]

asked ==
    {Asks(<<>>, anySource, FALSE), Asks(<<Clause(">=", <<1, 0>>)>>, anySource, TRUE),
     Asks(<<Clause(">=", <<1, 0, 0>>), Clause("<", <<1, 1>>)>>, from("a"), FALSE),
     Asks(<<Clause("=", <<0, 0>>)>>, <<"git", "url", "branch", "main", "">>, FALSE)}

maps == {<<>>} \cup {[n \in {"root"} |-> x] : x \in asked}
              \cup {[n \in {"x"} |-> x] : x \in {y \in asked : y.source # anySource}}

ManifestRepository(id, registry, packages) ==
    [id |-> id, registry |-> registry, endpoint |-> "https", packages |-> packages]

universes ==
    <<ManifestRepository("a", <<"r-universe">>, {"*"}), ManifestRepository("b", <<"cran">>, {"root", "x"})>>
mirrors ==
    <<ManifestRepository("a", <<"cran-like", "n">>, {"root"}), ManifestRepository("b", <<"cran">>, {"*"})>>

Document(r, repositories, own, g, h, listed) ==
    [environment |-> "default", published |-> "", r |-> r, repositories |-> repositories, dependencies |-> own,
     groups |-> [g |-> g, h |-> h], environments |-> [default |-> listed, other |-> <<"h">>]]

ordinary ==
    LET pairs == maps \X {m \in maps : "x" \notin DOMAIN m}
    IN  {Document(<<>>, universes, <<>>, t[1], t[2], <<"g", "h">>) : t \in pairs}
          \cup {Document(<<>>, universes, <<>>, t[1], t[2], <<"h", "g">>) : t \in pairs}
          \cup {Document(<<>>, mirrors, <<>>, m, <<>>, <<"g", "h">>) : m \in maps}

odd ==
    LET l == universes
        bad == [n \in {"x"} |-> Asks(<<Clause("=", <<1>>)>>, anySource, FALSE)]
        unlisted == [n \in {"x"} |-> Asks(<<>>, from("c"), FALSE)]
        plain == Document(<<>>, l, <<>>, <<>>, <<>>, <<>>)
    IN  {[plain EXCEPT !.environment = "other"], [plain EXCEPT !.environment = "missing"],
         [plain EXCEPT !.environments = <<>>], [plain EXCEPT !.environments = [other |-> <<"i">>]],
         [plain EXCEPT !.repositories = <<ManifestRepository("a", <<"cran-like", "n">>, {"*"})>>],
         [plain EXCEPT !.repositories = <<ManifestRepository("a", <<"cran-like", "m">>, {"*"})>>],
         [plain EXCEPT !.repositories = <<ManifestRepository("a", <<"cran-like", "cran">>, {"*"})>>],
         [plain EXCEPT !.published = "2025-01-01"],
         Document(<<>>, l, <<>>, bad, <<>>, <<>>), Document(<<>>, l, unlisted, <<>>, <<>>, <<>>),
         Document(<<>>, l, <<>>, <<>>, <<>>, <<"g", "g">>), Document(<<>>, l, <<>>, <<>>, <<>>, <<"i">>),
         Document(<<>>, l \o l, <<>>, <<>>, <<>>, <<>>),
         Document(<<Clause("<", <<4>>)>>, l, <<>>, <<>>, <<>>, <<>>),
         Document(<<Clause(">=", <<4, 0>>), Clause("!=", <<4, 1>>)>>, l, <<>>, <<>>, <<>>, <<>>),
         Document(<<Clause("<=", <<4, 4>>), Clause(">", <<4>>)>>, l, <<>>, <<>>, <<>>, <<>>),
         Document(<<Clause("!=", <<4, 1>>), Clause(">=", <<4>>)>>, l, <<>>, <<>>, <<>>, <<>>)}

documents == ordinary \cup odd
target == <<4, 3>>
names == <<"root", "x">>

Composition == INSTANCE Manifest WITH Documents <- documents, RVersion <- target, NameOrder <- names

-----------------------------------------------------------------------------
(* Materialization, where everything but the power may fail: three          *)
(* selections of package archives, and two that are refused.                *)

artA1 == [package |-> pkgA, sha |-> sha1]
artA2 == [package |-> pkgA, sha |-> sha2]
artB == [package |-> pkgB, sha |-> sha3]

selections ==
    {[arts |-> {artA1, artB}, index |-> idx1], [arts |-> {artA1, artB}, index |-> idx2],
     [arts |-> {artA2}, index |-> idx1],
     [arts |-> {artA1, artA2}, index |-> idx1], [arts |-> {artA1, artB}, index |-> NoIndex]}

wellFormed == {artA1, artA2, artB}

(* The same with power losses only, on a file system that may persist       *)
(* directory operations in any order.                                       *)
Unordered == INSTANCE Materialization WITH
    JournalOrdered <- FALSE, MayFail <- FALSE, MayLosePower <- TRUE, lock <- holder

-----------------------------------------------------------------------------
NoManifest == document = <<>> /\ state = <<>> /\ next = <<>> /\ roots = <<>>
NoMat == fs = <<>> /\ images = {} /\ gitignore = <<>> /\ pc = <<>> /\ req = <<>> /\ result = <<>>
NoLock == lock = <<>> /\ holder = <<>>

MCInit ==
    /\ which \in Explored
    /\ \/ ProjectInit /\ NoManifest /\ NoMat /\ NoLock
       \/ which = "manifest" /\ Composition!Init /\ Nothing /\ NoMat /\ NoLock
       \/ which = "materialization" /\ Init /\ holder = <<>> /\ Nothing /\ NoManifest
       \/ which = "unordered" /\ Unordered!Init /\ lock = <<>> /\ Nothing /\ NoManifest

InProject == UNCHANGED <<manifestOnly, matOnly, lock, holder>>
InManifest == UNCHANGED <<projectVars, matOnly, lock, holder>>
InMat == UNCHANGED <<projectVars, manifestOnly>>

ManifestNext == which = "manifest" /\ Composition!Next /\ InManifest
MatNext == which = "materialization" /\ Next /\ InMat /\ UNCHANGED holder
UnorderedNext == which = "unordered" /\ Unordered!Next /\ InMat /\ UNCHANGED lock
MatEnded ==
    which \in {"materialization", "unordered"} /\ (\A i \in Invocations : pc[i] = "done") /\ UNCHANGED all

MCNext ==
    \/ InProject /\ ProjectNext
    \/ ManifestNext \/ MatNext \/ UnorderedNext \/ MatEnded

(* A call that has begun and is not blocked goes on, as in the modules.     *)
MCFairSpec ==
    /\ MCInit /\ [][MCNext]_all
    /\ WF_all(ResolutionNext /\ InProject) /\ WF_all(CopyNext /\ InProject)
    /\ \A i \in Invocations :
        WF_all(which = "materialization" /\ Step(i) /\ pc[i] # "idle" /\ InMat /\ UNCHANGED holder)

-----------------------------------------------------------------------------
(* The properties of the components that Project does not have, where they  *)
(* are the ones that run.  Two are Materialization's own: that a call which *)
(* failed leaves nothing behind (FailuresLeaveNoOrphans) and that, in both  *)
(* of its instances, a committed state describes the repository beside it   *)
(* (StateImpliesRepository).                                                *)

(* The reasons given for a package that was not selected are true           *)
(* (Resolver).                                                              *)
ReasonsAreTrue == which = "update" => Update!ReasonsAreTrue

(* No candidate reaches the solver in two views that differ (Resolver).     *)
CompositionIsComplete == which = "update" => Update!CompositionIsComplete

(* Composition does not depend on the order of the groups (Manifest).       *)
CompositionIsTheJoin == which = "manifest" => Composition!CompositionIsTheJoin

(* Intent digests are equal exactly when the intents are (Manifest).        *)
DigestsIdentifyIntents == which = "manifest" => Composition!DigestsIdentifyIntents

(* Every call of materialize returns, every resolution ends and every copy  *)
(* ends: no lock is kept for ever, and the rounds of the resolution reach   *)
(* their fixed point.                                                       *)
CallsReturn ==
    /\ \A i \in Invocations :
        (which = "materialization" /\ pc[i] # "idle") ~> (which = "materialization" /\ pc[i] = "done")
    /\ which = "resolution" ~> (which = "resolution" /\ stage = "done")
    /\ which = "copy" ~> outcome # "none"

=============================================================================
