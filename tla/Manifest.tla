------------------------------ MODULE Manifest ------------------------------
(***************************************************************************)
(* Composition of an environment of a manifest (manifest/compose.rs), the   *)
(* checks it starts with, and the digest of the intent it selects, which a  *)
(* lock is compared with.  Two manifests are composed, one after the other, *)
(* so that their digests can be compared.                                   *)
(*                                                                         *)
(* A manifest is [environment, published, r, repositories, dependencies,    *)
(* groups, environments]: `environment` is the selected one, `environments` *)
(* maps each of the manifest's own to the groups it lists, `published` is   *)
(* the publication cutoff; sources are normalized.  A registry is its tag,  *)
(* followed by its namespace if it is cran-like.  A version is the sequence *)
(* of its components.  The digest is represented by the fields it is taken  *)
(* of, each of them length-prefixed in the code.                            *)
(***************************************************************************)
EXTENDS Naturals, Sequences, SequencesExt

CONSTANTS
    Documents,   \* the manifests
    RVersion,    \* the target R version
    NameOrder    \* the package names, sorted as byte strings

VARIABLES
    document,    \* [1..2 -> Documents]
    state,       \* [1..2 -> "new", "composing", "composed" or "refused"]
    next,        \* [1..2 -> number of dependency maps appended]
    roots        \* [1..2 -> [name -> [constraint, source, suggests]]]

vars == <<document, state, next, roots>>

-----------------------------------------------------------------------------
(* Versions and constraints.                                                *)

Component(v, i) == IF i \in 1..Len(v) THEN v[i] ELSE 0
Places(v, w) == 1..(Len(v) + Len(w))
SameVersion(v, w) == \A i \in Places(v, w) : Component(v, i) = Component(w, i)
VersionLess(v, w) ==
    \E i \in Places(v, w) :
        /\ Component(v, i) < Component(w, i)
        /\ \A j \in 1..(i - 1) : Component(v, j) = Component(w, j)

(* canonical_component_count: trailing zeros do not count.                  *)
Canonical(v) ==
    SubSeq(v, 1, CHOOSE n \in 0..Len(v) :
                    /\ \A i \in (n + 1)..Len(v) : v[i] = 0
                    /\ n > 0 => v[n] # 0)

satisfies(constraint, v) ==
    \A i \in 1..Len(constraint) :
        LET w == constraint[i].version
        IN  CASE constraint[i].op = "<"  -> VersionLess(v, w)
              [] constraint[i].op = "<=" -> ~ VersionLess(w, v)
              [] constraint[i].op = "="  -> SameVersion(v, w)
              [] constraint[i].op = "!=" -> ~ SameVersion(v, w)
              [] constraint[i].op = ">=" -> ~ VersionLess(v, w)
              [] constraint[i].op = ">"  -> VersionLess(w, v)

relation_rank == [op \in {"<", "<=", "=", "!=", ">=", ">"} |->
                    CHOOSE i \in 0..5 : <<"<", "<=", "=", "!=", ">=", ">">>[i + 1] = op]

(* Of two spellings of one version the shorter sorts first.                 *)
ClauseLess(c, d) ==
    \/ relation_rank[c.op] < relation_rank[d.op]
    \/ /\ c.op = d.op
       /\ \/ VersionLess(c.version, d.version)
          \/ SameVersion(c.version, d.version) /\ Len(c.version) < Len(d.version)

canonicalize_constraint(clauses) ==
    LET sorted == SetToSortSeq(ToSet(clauses), ClauseLess)
        Add(kept, c) == IF kept # <<>> /\ Last(kept).op = c.op
                              /\ SameVersion(Last(kept).version, c.version)
                        THEN kept ELSE Append(kept, c)
    IN  FoldLeft(Add, <<>>, sorted)

(* parse_constraint: a package version has two components at least.         *)
Parses(clauses, minimum) == \A i \in 1..Len(clauses) : Len(clauses[i].version) >= minimum

-----------------------------------------------------------------------------
(* Checks.                                                                  *)

AnySource == <<"registry-source", "">>
From(repository) == <<"registry-source", repository>>
IsRegistry(source) == source[1] = "registry-source"

Ids(d) == {d.repositories[i].id : i \in 1..Len(d.repositories)}

(* The environment `default` need not be written down.                      *)
Known(d) == d.environment \in DOMAIN d.environments \cup {"default"}
Listed(d) == IF d.environment \in DOMAIN d.environments THEN d.environments[d.environment] ELSE <<>>
Maps(d) == <<d.dependencies>> \o [i \in 1..Len(Listed(d)) |-> d.groups[Listed(d)[i]]]

validate_dependency_maps(dependencies, ids) ==
    \A n \in DOMAIN dependencies :
        /\ n # "R" /\ Parses(dependencies[n].constraint, 2)
        /\ IsRegistry(dependencies[n].source) => dependencies[n].source[2] \in ids \cup {""}

validate_document(d) ==
    /\ Parses(d.r, 1)
    /\ \A i, j \in 1..Len(d.repositories) : d.repositories[i].id = d.repositories[j].id => i = j
    /\ \A i \in 1..Len(d.repositories) : d.repositories[i].registry # <<"cran-like", "cran">>
    /\ \A e \in DOMAIN d.environments :
        /\ ToSet(d.environments[e]) \subseteq DOMAIN d.groups
        /\ IsInjective(d.environments[e])
    /\ validate_dependency_maps(d.dependencies, Ids(d))
    /\ \A g \in DOMAIN d.groups : validate_dependency_maps(d.groups[g], Ids(d))

package_allowed(repository, n) == repository.packages = {"*"} \/ n \in repository.packages

validate_repository_package_allowlists(d, composed) ==
    \A n \in DOMAIN composed : \A i \in 1..Len(d.repositories) :
        composed[n].source = From(d.repositories[i].id) => package_allowed(d.repositories[i], n)

-----------------------------------------------------------------------------
(* Composition: the base dependencies, then the listed groups in order.     *)

Init ==
    /\ document \in [1..2 -> Documents]
    /\ state = [s \in 1..2 |-> "new"]
    /\ next = [s \in 1..2 |-> 1]
    /\ roots = [s \in 1..2 |-> <<>>]

(* One manifest at a time: the two compositions share nothing.              *)
Turn(s, at) == state[s] = at /\ (s = 2 => state[1] \in {"composed", "refused"})
Become(s, to) == state' = [state EXCEPT ![s] = to] /\ UNCHANGED document

Validate(s) ==
    /\ Turn(s, "new")
    /\ Become(s, IF /\ validate_document(document[s]) /\ Known(document[s])
                    /\ satisfies(document[s].r, RVersion)
                 THEN "composing" ELSE "refused")
    /\ UNCHANGED <<next, roots>>

SourcesAgree(left, right) ==
    left = right \/ (IsRegistry(left) /\ IsRegistry(right) /\ AnySource \in {left, right})

(* A mutant: the first dependency on a package decides where it comes from. *)
FirstSource(left, right) == left

merge_sources(left, right) == IF left = AnySource THEN right ELSE left

merge_roots(left, right) ==
    [constraint |-> canonicalize_constraint(left.constraint \o right.constraint),
     source |-> merge_sources(left.source, right.source),
     suggests |-> left.suggests \/ right.suggests]

Intent(dependency) ==
    [constraint |-> canonicalize_constraint(dependency.constraint),
     source |-> dependency.source, suggests |-> dependency.suggests]

append_dependencies(composed, dependencies) ==
    [n \in DOMAIN composed \cup DOMAIN dependencies |->
        IF n \notin DOMAIN dependencies THEN composed[n]
        ELSE IF n \notin DOMAIN composed THEN Intent(dependencies[n])
        ELSE merge_roots(composed[n], Intent(dependencies[n]))]

AppendMap(s) ==
    /\ Turn(s, "composing") /\ next[s] <= Len(Maps(document[s]))
    /\ LET dependencies == Maps(document[s])[next[s]] IN
       IF \A n \in DOMAIN roots[s] \cap DOMAIN dependencies :
            SourcesAgree(roots[s][n].source, dependencies[n].source)
       THEN /\ roots' = [roots EXCEPT ![s] = append_dependencies(@, dependencies)]
            /\ next' = [next EXCEPT ![s] = @ + 1]
            /\ UNCHANGED <<state, document>>
       ELSE Become(s, "refused") /\ UNCHANGED <<next, roots>>

Finish(s) ==
    /\ Turn(s, "composing") /\ next[s] > Len(Maps(document[s]))
    /\ Become(s, IF validate_repository_package_allowlists(document[s], roots[s])
                 THEN "composed" ELSE "refused")
    /\ UNCHANGED <<next, roots>>

Finished == state[2] \in {"composed", "refused"} /\ UNCHANGED vars

Next == (\E s \in 1..2 : Validate(s) \/ AppendMap(s) \/ Finish(s)) \/ Finished
Spec == Init /\ [][Next]_vars

-----------------------------------------------------------------------------
(* resolution_intent_digest: the fields, in order.                          *)

Concat(seqs) == FoldLeft(LAMBDA all, seq : all \o seq, <<>>, seqs)
Each(F(_), seq) == Concat([i \in 1..Len(seq) |-> F(seq[i])])
Field(string) == << <<string>> >>

(* A mutant: versions are written as they were spelled.                     *)
Spelled(v) == << <<"version">> \o v >>

VersionField(v) == << <<"version">> \o (IF Canonical(v) = <<>> THEN <<0>> ELSE Canonical(v)) >>

append_constraint(clauses) ==
    Field("constraint")
    \o Each(LAMBDA c : Field(c.op) \o VersionField(c.version), canonicalize_constraint(clauses))

append_source(source) == Each(Field, source)

Sorted(names) == SelectSeq(NameOrder, LAMBDA n : n \in names)

append_registry(registry) == Field("registry") \o Each(Field, registry)

RepositoryFields(r) ==
    Field("repository") \o Field(r.id) \o append_registry(r.registry) \o Field(r.endpoint)
    \o Field("packages")
    \o (IF r.packages = {"*"} THEN Field("all")
         ELSE Field("allowlist") \o Each(Field, Sorted(r.packages)))

RootFields(n, root) ==
    Field("root") \o Field(n) \o append_constraint(root.constraint) \o append_source(root.source)
    \o Field(IF root.suggests THEN "direct-suggests" ELSE "hard-only")

resolution_intent_digest(d, composed) ==
    Field("environment") \o Field(d.environment) \o Field("r") \o append_constraint(d.r)
    \o Field("published-before") \o Field(d.published) \o Each(RepositoryFields, d.repositories)
    \o Each(LAMBDA n : RootFields(n, composed[n]), Sorted(DOMAIN composed))

-----------------------------------------------------------------------------
(***************************************************************************)
(* What an environment asks for does not depend on the order in which its   *)
(* groups are listed, or on which of them is read first: a package is asked *)
(* from the one place its dependencies name, with all their clauses and     *)
(* with its suggestions when one of them wants those; and composition       *)
(* refuses exactly the environments in which two of them disagree.          *)
(***************************************************************************)
Dependencies(d, n) ==
    {Maps(d)[i][n] : i \in {j \in 1..Len(Maps(d)) : n \in DOMAIN Maps(d)[j]}}
Named(d) == UNION {DOMAIN Maps(d)[i] : i \in 1..Len(Maps(d))}
Agree(d, n) == \A x, y \in Dependencies(d, n) : SourcesAgree(x.source, y.source)
Clauses(constraint) == {<<c.op, Canonical(c.version)>> : c \in ToSet(constraint)}

CompositionIsTheJoin ==
    \A s \in 1..2 :
        LET d == document[s] IN
        /\ state[s] = "composed" =>
            /\ DOMAIN roots[s] = Named(d)
            /\ \A n \in Named(d) :
                /\ Agree(d, n)
                /\ \A x \in Dependencies(d, n) : x.source \in {AnySource, roots[s][n].source}
                /\ \E x \in Dependencies(d, n) : x.source = roots[s][n].source
                /\ Clauses(roots[s][n].constraint)
                     = UNION {Clauses(x.constraint) : x \in Dependencies(d, n)}
                /\ roots[s][n].suggests = \E x \in Dependencies(d, n) : x.suggests
        /\ state[s] = "refused" /\ next[s] > 1 /\ next[s] <= Len(Maps(d)) =>
            \E n \in Named(d) : ~ Agree(d, n)

(***************************************************************************)
(* Two environments have the same intent digest exactly when they mean the  *)
(* same: a lock is accepted for no other manifest than one that asks for    *)
(* the same, and a change of spelling (the order of groups and clauses,     *)
(* trailing zeros) does not make it refused.                                *)
(***************************************************************************)
Meaning(d, composed) ==
    [environment |-> d.environment, published |-> d.published,
     r |-> Clauses(d.r), repositories |-> d.repositories,
     roots |-> [n \in DOMAIN composed |->
                    [composed[n] EXCEPT !.constraint = Clauses(composed[n].constraint)]]]

DigestsIdentifyIntents ==
    state = [s \in 1..2 |-> "composed"] =>
        (resolution_intent_digest(document[1], roots[1])
            = resolution_intent_digest(document[2], roots[2]))
        = (Meaning(document[1], roots[1]) = Meaning(document[2], roots[2]))

=============================================================================
