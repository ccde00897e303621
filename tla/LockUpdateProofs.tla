-------------------------- MODULE LockUpdateProofs --------------------------
(***************************************************************************)
(* The resolver under a lock: its answers are those of the reference, for  *)
(* any releases, catalogues and requests, and for whatever PubGrub forgets *)
(* after a conflict; and a lock is found again while its request stays.    *)
(***************************************************************************)
EXTENDS Project, WellFoundedInduction, FiniteSetTheorems, TLAPS

(***************************************************************************)
(* The invariant of the search                                             *)
(***************************************************************************)

\* A sequence, of whatever elements.
IsSequence(s) == s \in Seq({s[i] : i \in DOMAIN s})

\* The packages of PubGrub that stand for a solver key.
IsKey(p) == p[1] \in {"installed", "registry", "repository", "exact"}

\* What the adapter may answer for a package: a release that the lock and the publication
\* policy admit and that requires nothing of Git.
Possible(p, v) ==
    \/ p = <<"root">> /\ v = "root" /\ \A r \in request.roots : r.source # <<"git">>
    \/ p = <<"R">> /\ v = "R"
    \/ p[1] = "occupancy" /\ v \in DOMAIN Facts
    \/ /\ IsKey(p) /\ v \in Update!loaded(p)
       /\ p[1] = "exact" => \E r \in request.roots : r.source = p
       /\ Update!Required(p) \in {None, v}
       /\ ~ Update!Unavailable(p, v)

\* An entry of the decisions: what the adapter said of it when it was made.
Known(d) == d.needs = Update!get_dependencies(d.package, d.version) /\ Possible(d.package, d.version)

\* Decisions agree with each other.
Agreeing ==
    /\ \A i, j \in DOMAIN decided : decided[i].package = decided[j].package => i = j
    /\ \A i, j \in DOMAIN decided : \A r \in decided[j].needs :
        r[1] = decided[i].package => decided[i].version \in r[2]

\* What a set of releases has under an installed name: R provides what it lacks.
Tenants(S, name) ==
    IF Update!OfName(S, name) # {} THEN Update!OfName(S, name)
    ELSE {id \in DOMAIN Facts : Update!Base(id) /\ Facts[id].name = name}

\* The decision that a set of releases makes.
Assigns(S, d) ==
    \/ d = << <<"root">>, "root">> \/ d = << <<"R">>, "R">>
    \/ d[1][1] = "occupancy" /\ d[2] \in Tenants(S, d[1][2])
    \/ IsKey(d[1]) /\ d[2] \in Update!loaded(d[1]) \cap Tenants(S, Update!subject_name(d[1]))

\* No solution makes all of these decisions.
Refuted(ds) ==
    \A S \in SUBSET DOMAIN Update!Candidates : Update!Sound(S) => \E d \in ds : ~ Assigns(S, d)

\* The catalogue, the request and the policy are there; of the rest only the decisions are
\* looked into.
UpdateTyped ==
    /\ catalog \in DOMAIN Catalogs /\ request \in Requests
    /\ policy \in {"unlocked", "prefer", "require"} /\ (policy = "unlocked" => locked = <<>>)
    /\ IsSequence(decided)

DecisionsAreKnown ==
    /\ \A i \in DOMAIN decided : Known(decided[i])
    /\ decided # <<>> => decided[1].package = <<"root">>

\* A conflict that was found is one; this is what makes "no solution" true.
ConflictsAreReal ==
    policy = "unlocked" =>
        /\ \A n \in nogoods : Refuted(n)
        /\ outcome = "no solution" => \A S \in SUBSET DOMAIN Update!Candidates : ~ Update!Sound(S)

UpdateInvariant ==
    /\ DecisionsAreKnown /\ Agreeing /\ ConflictsAreReal
    /\ outcome # "name conflict"
    /\ outcome = "solved" => decided # <<>> /\ Update!Pending = {}

\* The requirements the resolver meets: roots, and what releases declare.
Asked(e) == e \in request.roots \/ \E id \in DOMAIN Facts : e \in Facts[id].edges

\* The release a root asks for exactly.
IsExactRoot(x) ==
    /\ x \in DOMAIN Facts /\ Facts[x].exposure = "exact" /\ Facts[x].namespace = "git"
    /\ \E r \in request.roots : r.source = <<"exact", x>>

\* The edges of a release that count in a request.
Followed(id, roots) ==
    {e \in Facts[id].edges :
        \/ e.kind \in {"depends", "imports", "linking"}
        \/ e.kind = "suggests" /\ \E r \in roots : r.name = Facts[id].name /\ r.suggests}

(***************************************************************************)
(* Sequences, and the greatest element of a finite set                     *)
(***************************************************************************)

LEMMA EmptySequence == IsSequence(<<>>)
BY DEF IsSequence

LEMMA SequenceDomain ==
  ASSUME NEW s, IsSequence(s)
  PROVE  Len(s) \in Nat /\ DOMAIN s = 1..Len(s)
BY DEF IsSequence

\* A sequence is one over its own elements.
LEMMA OverItsElements ==
  ASSUME NEW T, NEW s \in Seq(T)
  PROVE  IsSequence(s)
<1> DEFINE E == {s[i] : i \in DOMAIN s}
<1>1. Len(s) \in Nat /\ DOMAIN s = 1..Len(s) /\ s \in [1..Len(s) -> T]
  OBVIOUS
<1>2. s \in [1..Len(s) -> E]
  BY <1>1
<1>3. s \in Seq(E)
  <2> HIDE DEF E
  <2> QED
    BY <1>1, <1>2
<1> QED
  BY <1>3 DEF IsSequence

LEMMA AppendSequence ==
  ASSUME NEW s, IsSequence(s), NEW x
  PROVE  /\ IsSequence(Append(s, x)) /\ DOMAIN Append(s, x) = 1..(Len(s) + 1)
         /\ \A i \in 1..(Len(s) + 1) : Append(s, x)[i] = IF i \in DOMAIN s THEN s[i] ELSE x
<1> DEFINE E == {s[i] : i \in DOMAIN s}
           F == E \cup {x}
<1>1. s \in Seq(E) /\ Len(s) \in Nat /\ DOMAIN s = 1..Len(s)
  BY SequenceDomain DEF IsSequence
<1> HIDE DEF E
<1>2. s \in Seq(F) /\ x \in F
  BY <1>1
<1> HIDE DEF F
<1>3. Append(s, x) \in Seq(F)
  BY <1>2
<1>4. /\ DOMAIN Append(s, x) = 1..(Len(s) + 1)
      /\ \A i \in 1..(Len(s) + 1) : Append(s, x)[i] = IF i \in DOMAIN s THEN s[i] ELSE x
  BY <1>1, <1>2
<1> QED
  BY <1>3, <1>4, OverItsElements

LEMMA PrefixSequence ==
  ASSUME NEW s, IsSequence(s), NEW k \in 0..Len(s)
  PROVE  /\ IsSequence(SubSeq(s, 1, k)) /\ DOMAIN SubSeq(s, 1, k) = 1..k
         /\ 1..k \subseteq DOMAIN s
         /\ \A i \in 1..k : SubSeq(s, 1, k)[i] = s[i]
<1> DEFINE E == {s[i] : i \in DOMAIN s}
<1>1. s \in Seq(E) /\ Len(s) \in Nat /\ DOMAIN s = 1..Len(s)
  BY SequenceDomain DEF IsSequence
<1> HIDE DEF E
<1>2. SubSeq(s, 1, k) = [i \in 1..k |-> s[i]]
  BY <1>1
<1>3. \A i \in 1..k : i \in DOMAIN s /\ s[i] \in E
  BY <1>1 DEF E
<1>4. [i \in 1..k |-> s[i]] \in Seq(E)
  BY <1>1, <1>3
<1>5. IsSequence(SubSeq(s, 1, k))
  BY <1>2, <1>4, OverItsElements
<1>6. DOMAIN SubSeq(s, 1, k) = 1..k /\ \A i \in 1..k : SubSeq(s, 1, k)[i] = s[i]
  BY <1>2
<1> QED
  BY <1>3, <1>5, <1>6

\* A set of natural numbers that is not empty has a least one.
LEMMA LeastNumber ==
  ASSUME NEW S \in SUBSET Nat, S # {}
  PROVE  \E n \in S : \A m \in S : n <= m
<1> DEFINE R == OpToRel(<, Nat)
<1>1. IsWellFoundedOn(R, Nat)
  BY NatLessThanWellFounded
<1>2. \A n, m \in Nat : <<m, n>> \in R <=> m < n
  BY DEF OpToRel
<1> HIDE DEF R
<1>3. PICK n \in S : \A m \in S : ~ (<<m, n>> \in R)
  BY <1>1, WFMin
<1>4. ASSUME NEW m \in S PROVE n <= m
  <2>1. n \in Nat /\ m \in Nat
    OBVIOUS
  <2>2. ~ (m < n)
    BY <1>2, <1>3, <2>1
  <2> QED
    BY <2>1, <2>2
<1> QED
  BY <1>4

\* A finite set has a greatest element in every order of its elements.
LEMMA GreatestExists ==
  ASSUME NEW E, IsFiniteSet(E), E # {}, NEW R,
         \A x, y \in E : x # y => <<x, y>> \in R \/ <<y, x>> \in R,
         \A x, y, z \in E : <<x, y>> \in R /\ <<y, z>> \in R => <<x, z>> \in R
  PROVE  \E m \in E : \A x \in E \ {m} : <<x, m>> \in R
<1> DEFINE Top(T) == \E m \in T : \A x \in T \ {m} : <<x, m>> \in R
           bad == {n \in Nat : \E T \in SUBSET E : T # {} /\ Cardinality(T) = n /\ ~ Top(T)}
<1>1. \A T \in SUBSET E : IsFiniteSet(T) /\ Cardinality(T) \in Nat
  BY FS_Subset, FS_CardinalityType
<1>2. bad = {}
  <2> SUFFICES ASSUME bad # {} PROVE FALSE
    OBVIOUS
  <2>1. PICK n \in bad : \A k \in bad : n <= k
    <3>1. bad \in SUBSET Nat
      OBVIOUS
    <3> HIDE DEF bad
    <3> QED
      BY <3>1, LeastNumber
  <2>2. PICK T \in SUBSET E : T # {} /\ Cardinality(T) = n /\ ~ Top(T)
    OBVIOUS
  <2>3. PICK x : x \in T
    BY <2>2
  <2> DEFINE U == T \ {x}
  <2>4. Cardinality(U) = n - 1 /\ n \in Nat
    <3>1. IsFiniteSet(T) /\ Cardinality(T) = n /\ n \in Nat
      BY <1>1, <2>2
    <3>2. Cardinality(U) = IF x \in T THEN Cardinality(T) - 1 ELSE Cardinality(T)
      BY <3>1, FS_RemoveElement, Zenon
    <3> HIDE DEF U, bad, Top
    <3> QED
      BY <2>3, <3>1, <3>2
  <2>5. U # {}
    BY <2>2, <2>3
  <2>6. Top(U)
    <3>1. n - 1 \notin bad
      <4> HIDE DEF bad
      <4> QED
        BY <2>1, <2>4
    <3>2. n - 1 \in Nat
      BY <1>1, <2>4
    <3> HIDE DEF Top, U
    <3>3. U \in SUBSET E
      BY DEF U
    <3> QED
      BY <2>4, <2>5, <3>1, <3>2, <3>3
  <2>7. PICK y \in U : \A z \in U \ {y} : <<z, y>> \in R
    BY <2>6
  <2>8. CASE <<x, y>> \in R
    BY <2>2, <2>7, <2>8
  <2>9. CASE <<y, x>> \in R
    <3>1. \A z \in T \ {x} : <<z, x>> \in R
      BY <2>3, <2>7, <2>9
    <3> QED
      BY <2>2, <2>3, <3>1
  <2> QED
    BY <2>3, <2>7, <2>8, <2>9
<1>3. Top(E)
  <2> HIDE DEF Top
  <2> QED
    BY <1>1, <1>2
<1> QED
  BY <1>3

(***************************************************************************)
(* Requirements and their keys                                             *)
(***************************************************************************)

\* The source of a requirement has one of five forms.
LEMMA SourceForms ==
  ASSUME UpdateTyped, NEW e, Asked(e)
  PROVE  \/ e.source = <<"any">> \/ e.source = <<"git">> \/ e.source = <<"repository", e.source[2]>>
         \/ e.source = <<"registry", e.source[2]>> /\ e.source[2] \notin {"git", "base"}
         \/ /\ e.source = <<"exact", e.source[2]>> /\ IsExactRoot(e.source[2])
            /\ Facts[e.source[2]].name = e.name /\ e.name # "R"
<1>1. CASE e \in request.roots
  <2>1. \/ Declared(e.source)
        \/ /\ e.source = <<"exact", e.source[2]>> /\ e.source[2] \in DOMAIN Facts
           /\ Facts[e.source[2]].name = e.name /\ Facts[e.source[2]].exposure = "exact"
           /\ Facts[e.source[2]].namespace = "git"
    BY <1>1, UpdateAssumption DEF UpdateTyped
  <2>2. e.name # "R"
    BY <1>1, UpdateAssumption DEF UpdateTyped
  <2>3. CASE Declared(e.source)
    BY <2>3 DEF Declared
  <2> QED
    BY <1>1, <2>1, <2>2, <2>3 DEF IsExactRoot
<1>2. CASE \E id \in DOMAIN Facts : e \in Facts[id].edges
  BY <1>2, UpdateAssumption DEF Declared
<1> QED
  BY <1>1, <1>2 DEF Asked

\* An exact root asks for a release of its own name.
LEMMA ExactRoots ==
  ASSUME UpdateTyped, NEW name, NEW x \in Update!exact_root_identity(name)
  PROVE  IsExactRoot(x) /\ Facts[x].name = name
<1>1. PICK r \in request.roots : r.name = name /\ r.source[1] = "exact" /\ x = r.source[2]
  BY DEF Update!exact_root_identity
<1>2. Asked(r)
  BY DEF Asked
<1> QED
  BY <1>1, <1>2, SourceForms

\* An exact root of a name is among them.
LEMMA ExactRootNamed ==
  ASSUME UpdateTyped, NEW x, IsExactRoot(x)
  PROVE  x \in Update!exact_root_identity(Facts[x].name)
<1>1. PICK r \in request.roots : r.source = <<"exact", x>>
  BY DEF IsExactRoot
<1>2. r.name = Facts[x].name
  BY <1>1, SourceForms DEF Asked
<1> QED
  BY <1>1, <1>2 DEF Update!exact_root_identity

\* The key of a requirement.
LEMMA Subjects ==
  ASSUME UpdateTyped, NEW e, Asked(e), e.source # <<"git">>, e.name # "R", NEW s,
         s = Update!subject_for_package(e)
  PROVE  /\ IsKey(s) /\ Update!subject_name(s) = e.name
         /\ \/ /\ e.source = <<"any">> /\ s = <<"installed", e.name>>
               /\ Update!exact_root_identity(e.name) = {}
            \/ /\ e.source = <<"any">> /\ s = <<"exact", s[2]>>
               /\ s[2] \in Update!exact_root_identity(e.name)
            \/ e.source = <<"registry", e.source[2]>> /\ s = <<"registry", e.source[2], e.name>>
               /\ e.source[2] \notin {"git", "base"}
            \/ e.source = <<"repository", e.source[2]>> /\ s = <<"repository", e.source[2], e.name>>
            \/ e.source = <<"exact", e.source[2]>> /\ s = e.source /\ IsExactRoot(e.source[2])
<1>1. CASE e.source = <<"any">> /\ Update!exact_root_identity(e.name) = {}
  <2>1. s = <<"installed", e.name>>
    BY <1>1 DEF Update!subject_for_package
  <2> QED
    BY <1>1, <2>1 DEF IsKey, Update!subject_name
<1>2. CASE e.source = <<"any">> /\ Update!exact_root_identity(e.name) # {}
  <2> DEFINE x == CHOOSE id \in Update!exact_root_identity(e.name) : TRUE
  <2>1. s = <<"exact", x>>
    BY <1>2 DEF Update!subject_for_package
  <2>2. x \in Update!exact_root_identity(e.name)
    BY <1>2
  <2>3. Facts[x].name = e.name
    BY <2>2, ExactRoots
  <2> HIDE DEF x
  <2> QED
    BY <1>2, <2>1, <2>2, <2>3 DEF IsKey, Update!subject_name
<1>3. CASE e.source = <<"registry", e.source[2]>> /\ e.source[2] \notin {"git", "base"}
  <2>1. s = <<"registry", e.source[2], e.name>>
    BY <1>3 DEF Update!subject_for_package
  <2> QED
    BY <1>3, <2>1 DEF IsKey, Update!subject_name
<1>4. CASE e.source = <<"repository", e.source[2]>>
  <2>1. s = <<"repository", e.source[2], e.name>>
    BY <1>4 DEF Update!subject_for_package
  <2> QED
    BY <1>4, <2>1 DEF IsKey, Update!subject_name
<1>5. CASE /\ e.source = <<"exact", e.source[2]>> /\ IsExactRoot(e.source[2])
           /\ Facts[e.source[2]].name = e.name
  <2>1. s = e.source
    BY <1>5 DEF Update!subject_for_package
  <2> QED
    BY <1>5, <2>1 DEF IsKey, Update!subject_name
<1> QED
  BY <1>1, <1>2, <1>3, <1>4, <1>5, SourceForms

\* Keys of exact releases come from exact roots.
LEMMA ExactKeys ==
  ASSUME UpdateTyped, NEW e, Asked(e), e.source # <<"git">>, e.name # "R",
         Update!subject_for_package(e)[1] = "exact"
  PROVE  \E r \in request.roots : r.source = Update!subject_for_package(e)
<1> DEFINE s == Update!subject_for_package(e)
<1>1. s = <<"exact", s[2]>> /\ IsExactRoot(s[2])
  <2> HIDE DEF s
  <2>1. s = Update!subject_for_package(e)
    BY DEF s
  <2>2. CASE s = <<"exact", s[2]>> /\ s[2] \in Update!exact_root_identity(e.name)
    BY <2>2, ExactRoots
  <2>3. CASE e.source = <<"exact", e.source[2]>> /\ s = e.source /\ IsExactRoot(e.source[2])
    BY <2>3
  <2>4. s[1] = "exact"
    BY DEF s
  <2> QED
    BY <2>1, <2>2, <2>3, <2>4, Subjects
<1> QED
  BY <1>1 DEF IsExactRoot

\* The key of R.
LEMMA SubjectOfR ==
  ASSUME NEW e, e.name = "R"
  PROVE  Update!subject_for_package(e) = <<"R">>
BY DEF Update!subject_for_package

(***************************************************************************)
(* The candidates of a key                                                 *)
(***************************************************************************)

\* The catalogue lists releases that do not come with R.
LEMMA Listed ==
  ASSUME UpdateTyped, NEW v \in DOMAIN Update!Candidates
  PROVE  /\ v \in DOMAIN Facts /\ ~ Update!Base(v)
         /\ \A o \in Update!Candidates[v] : o.repository \in DOMAIN Ranks
BY UpdateAssumption DEF UpdateTyped, Update!Candidates

\* What the loader offers under a key: the release of R for the installed name of a base
\* package, releases of the catalogue otherwise.
LEMMA LoadedFacts ==
  ASSUME UpdateTyped, NEW s, IsKey(s), NEW v \in Update!loaded(s)
  PROVE  /\ v \in DOMAIN Facts /\ Facts[v].name = Update!subject_name(s)
         /\ \/ s[1] = "installed" /\ s[2] \in BaseNames /\ Update!Base(v)
            \/ ~ (s[1] = "installed" /\ s[2] \in BaseNames) /\ v \in DOMAIN Update!Candidates
               /\ ~ Update!Base(v)
         /\ Update!is_eligible_for(v, s)
<1>1. v \in Update!OverlayLoad(s) /\ Update!is_eligible_for(v, s)
  BY DEF Update!loaded
<1>2. Facts[v].name = Update!subject_name(s)
  BY <1>1 DEF Update!is_eligible_for
<1>3. CASE s[1] = "installed" /\ s[2] \in BaseNames
  BY <1>1, <1>2, <1>3 DEF Update!OverlayLoad
<1>4. CASE ~ (s[1] = "installed" /\ s[2] \in BaseNames)
  <2>1. v \in DOMAIN Update!Candidates
    BY <1>1, <1>4 DEF Update!OverlayLoad
  <2> QED
    BY <1>1, <1>2, <1>4, <2>1, Listed
<1> QED
  BY <1>3, <1>4

\* A release of the catalogue is offered under a key for what the key says of it.
LEMMA LoadedOffers ==
  ASSUME UpdateTyped, NEW s, IsKey(s), NEW v \in Update!loaded(s), ~ Update!Base(v)
  PROVE  /\ s[1] = "exact" => s[2] = v
         /\ s[1] # "exact" => Update!Offered(v) # {}
         /\ s[1] = "registry" => Facts[v].namespace = s[2]
         /\ s[1] = "repository" => s[2] \in Update!Offered(v)
<1>1. v \in DOMAIN Facts /\ v \in DOMAIN Update!Candidates /\ Update!is_eligible_for(v, s)
  BY LoadedFacts
<1>2. CASE s[1] = "exact"
  BY <1>1, <1>2 DEF Update!is_eligible_for
<1>3. CASE s[1] # "exact"
  <2>1. Facts[v].exposure # "runtime"
    BY <1>1, UpdateAssumption
  <2>2. PICK o \in Update!applicable_occurrences(v, s) : TRUE
    BY <1>1, <1>3, <2>1 DEF Update!is_eligible_for
  <2>3. /\ o \in Update!Candidates[v] /\ o.available
        /\ s[1] = "registry" => Facts[v].namespace = s[2]
        /\ s[1] = "repository" => o.repository = s[2]
    BY <1>1, <2>2 DEF Update!applicable_occurrences, Update!provenance_matches
  <2>4. o.repository \in Update!Offered(v)
    BY <2>3 DEF Update!Offered
  <2> QED
    BY <1>3, <2>3, <2>4
<1> QED
  BY <1>2, <1>3

\* A release that is offered where a key looks is one of its candidates.
LEMMA OfferedIsLoaded ==
  ASSUME UpdateTyped, NEW s, IsKey(s), s[1] # "exact", ~ (s[1] = "installed" /\ s[2] \in BaseNames),
         NEW v \in DOMAIN Update!Candidates, Facts[v].name = Update!subject_name(s),
         s[1] = "registry" => Facts[v].namespace = s[2],
         NEW o \in Update!Candidates[v], o.available,
         s[1] = "repository" => o.repository = s[2]
  PROVE  v \in Update!loaded(s)
<1>1. v \in Update!OverlayLoad(s)
  BY DEF Update!OverlayLoad
<1>2. o \in Update!applicable_occurrences(v, s)
  BY DEF Update!applicable_occurrences, Update!provenance_matches
<1> QED
  BY <1>1, <1>2 DEF Update!loaded, Update!is_eligible_for

LEMMA ExactIsLoaded ==
  ASSUME UpdateTyped, NEW v \in DOMAIN Update!Candidates, IsExactRoot(v)
  PROVE  v \in Update!loaded(<<"exact", v>>)
<1>1. Update!subject_name(<<"exact", v>>) = Facts[v].name
  BY DEF Update!subject_name
<1>2. v \in Update!OverlayLoad(<<"exact", v>>)
  BY <1>1 DEF Update!OverlayLoad
<1>3. Facts[v].exposure # "none"
  BY DEF IsExactRoot
<1> QED
  BY <1>1, <1>2, <1>3 DEF Update!loaded, Update!is_eligible_for

LEMMA BaseIsLoaded ==
  ASSUME UpdateTyped, NEW name \in BaseNames, NEW v \in DOMAIN Facts, Update!Base(v), Facts[v].name = name
  PROVE  v \in Update!loaded(<<"installed", name>>)
<1>1. Update!subject_name(<<"installed", name>>) = name
  BY DEF Update!subject_name
<1>2. v \in Update!OverlayLoad(<<"installed", name>>)
  BY <1>1 DEF Update!OverlayLoad
<1>3. Facts[v].exposure = "runtime"
  BY UpdateAssumption
<1> QED
  BY <1>1, <1>2, <1>3 DEF Update!loaded, Update!is_eligible_for

(***************************************************************************)
(* The choice among the candidates of a key                                *)
(***************************************************************************)

Rank(v, s) == Update!Cardinality(DOMAIN Ranks) + 1 - Update!repository_rank_for(v, s)

LEMMA RanksAreNumbers ==
  ASSUME UpdateTyped, NEW s, NEW v
  PROVE  Rank(v, s) \in Int
<1>1. Update!Cardinality(DOMAIN Ranks) \in Nat
  <2>1. Update!Cardinality(DOMAIN Ranks) = Cardinality(DOMAIN Ranks)
    BY DEF Update!Cardinality, Cardinality
  <2>2. Cardinality(DOMAIN Ranks) \in Nat
    BY UpdateAssumption, FS_CardinalityType
  <2> QED
    BY <2>1, <2>2
<1>2. Update!repository_rank_for(v, s) \in Nat
  <2> DEFINE ranks == {Ranks[o.repository] + 1 : o \in Update!applicable_occurrences(v, s)}
  <2>1. \A o \in Update!applicable_occurrences(v, s) : Ranks[o.repository] \in Nat
    <3> SUFFICES ASSUME NEW o \in Update!applicable_occurrences(v, s) PROVE Ranks[o.repository] \in Nat
      OBVIOUS
    <3>1. v \in DOMAIN Update!Candidates /\ o \in Update!Candidates[v]
      BY DEF Update!applicable_occurrences
    <3> QED
      BY <3>1, Listed, UpdateAssumption
  <2>2. ranks \in SUBSET Nat
    BY <2>1
  <2>3. Update!repository_rank_for(v, s) = IF ranks = {} THEN 0 ELSE Update!Min(ranks)
    BY DEF Update!repository_rank_for
  <2>4. CASE ranks # {}
    <3> HIDE DEF ranks
    <3>1. \E n \in ranks : \A m \in ranks : n <= m
      BY <2>2, <2>4, LeastNumber
    <3>2. Update!Min(ranks) \in ranks
      BY <3>1 DEF Update!Min
    <3> QED
      BY <2>2, <2>3, <2>4, <3>2
  <2>5. CASE ranks = {}
    BY <2>3, <2>5
  <2> QED
    BY <2>4, <2>5
<1> QED
  BY <1>1, <1>2 DEF Rank

\* The order of the candidates compares four numbers.
LEMMA PreferenceIsLexical ==
  ASSUME NEW a, NEW b, NEW s
  PROVE  LET a1 == Update!preference_rank(a, s)  b1 == Update!preference_rank(b, s)
             a2 == Facts[a].version              b2 == Facts[b].version
             a3 == Rank(a, s)                    b3 == Rank(b, s)
             a4 == Facts[a].order                b4 == Facts[b].order
         IN  Update!Prefers(a, b, s) <=>
               \/ a1 < b1 \/ (a1 = b1 /\ a2 < b2) \/ (a1 = b1 /\ a2 = b2 /\ a3 < b3)
               \/ (a1 = b1 /\ a2 = b2 /\ a3 = b3 /\ a4 < b4)
<1> DEFINE key(id) == <<Update!preference_rank(id, s), Facts[id].version, Rank(id, s), Facts[id].order>>
<1>1. Update!Prefers(a, b, s) <=>
        \E i \in 1..4 : key(a)[i] < key(b)[i] /\ \A j \in 1..(i - 1) : key(a)[j] = key(b)[j]
  BY DEF Update!Prefers, Rank
<1>2. /\ key(a)[1] = Update!preference_rank(a, s) /\ key(b)[1] = Update!preference_rank(b, s)
      /\ key(a)[2] = Facts[a].version /\ key(b)[2] = Facts[b].version
      /\ key(a)[3] = Rank(a, s) /\ key(b)[3] = Rank(b, s)
      /\ key(a)[4] = Facts[a].order /\ key(b)[4] = Facts[b].order
  OBVIOUS
<1> HIDE DEF key
<1>3. 1..4 = {1, 2, 3, 4} /\ 1..(1 - 1) = {} /\ 1..(2 - 1) = {1} /\ 1..(3 - 1) = {1, 2} /\ 1..(4 - 1) = {1, 2, 3}
  OBVIOUS
<1>4. Update!Prefers(a, b, s) <=>
        \/ key(a)[1] < key(b)[1]
        \/ key(a)[1] = key(b)[1] /\ key(a)[2] < key(b)[2]
        \/ key(a)[1] = key(b)[1] /\ key(a)[2] = key(b)[2] /\ key(a)[3] < key(b)[3]
        \/ key(a)[1] = key(b)[1] /\ key(a)[2] = key(b)[2] /\ key(a)[3] = key(b)[3] /\ key(a)[4] < key(b)[4]
  BY <1>1, <1>3
<1> QED
  BY <1>2, <1>4

\* Of any candidates of a key one is preferred to all the others.
LEMMA PreferredExists ==
  ASSUME UpdateTyped, NEW s, IsKey(s), NEW E \in SUBSET Update!loaded(s), E # {}
  PROVE  \E m \in E : \A o \in E \ {m} : Update!Prefers(o, m, s)
<1> DEFINE R == {q \in E \X E : Update!Prefers(q[1], q[2], s)}
<1>1. \A x, y \in E : <<x, y>> \in R <=> Update!Prefers(x, y, s)
  OBVIOUS
<1>2. \A x \in E : /\ x \in DOMAIN Facts /\ Update!preference_rank(x, s) \in Int
                   /\ Facts[x].version \in Int /\ Rank(x, s) \in Int /\ Facts[x].order \in Int
  <2> SUFFICES ASSUME NEW x \in E
               PROVE  /\ x \in DOMAIN Facts /\ Update!preference_rank(x, s) \in Int
                      /\ Facts[x].version \in Int /\ Rank(x, s) \in Int /\ Facts[x].order \in Int
    OBVIOUS
  <2>1. x \in DOMAIN Facts
    BY LoadedFacts
  <2>2. Facts[x].version \in Nat /\ Facts[x].order \in Nat
    BY <2>1, UpdateAssumption
  <2>3. Update!preference_rank(x, s) \in Int
    BY DEF Update!preference_rank
  <2> QED
    BY <2>1, <2>2, <2>3, RanksAreNumbers
<1>3. \A x, y \in E : Facts[x].order = Facts[y].order => x = y
  BY <1>2, UpdateAssumption
<1> HIDE DEF R
<1>4. \A x, y \in E : x # y => <<x, y>> \in R \/ <<y, x>> \in R
  <2> SUFFICES ASSUME NEW x \in E, NEW y \in E, x # y PROVE Update!Prefers(x, y, s) \/ Update!Prefers(y, x, s)
    BY <1>1
  <2>1. Facts[x].order # Facts[y].order
    BY <1>3
  <2> QED
    BY <1>2, <2>1, PreferenceIsLexical
<1>5. \A x, y, z \in E : <<x, y>> \in R /\ <<y, z>> \in R => <<x, z>> \in R
  <2> SUFFICES ASSUME NEW x \in E, NEW y \in E, NEW z \in E, Update!Prefers(x, y, s), Update!Prefers(y, z, s)
               PROVE  Update!Prefers(x, z, s)
    BY <1>1
  <2> DEFINE L(a, b) ==
         \/ Update!preference_rank(a, s) < Update!preference_rank(b, s)
         \/ Update!preference_rank(a, s) = Update!preference_rank(b, s) /\ Facts[a].version < Facts[b].version
         \/ /\ Update!preference_rank(a, s) = Update!preference_rank(b, s) /\ Facts[a].version = Facts[b].version
            /\ Rank(a, s) < Rank(b, s)
         \/ /\ Update!preference_rank(a, s) = Update!preference_rank(b, s) /\ Facts[a].version = Facts[b].version
            /\ Rank(a, s) = Rank(b, s) /\ Facts[a].order < Facts[b].order
  <2>1. (Update!Prefers(x, y, s) <=> L(x, y)) /\ (Update!Prefers(y, z, s) <=> L(y, z))
        /\ (Update!Prefers(x, z, s) <=> L(x, z))
    BY PreferenceIsLexical
  <2>2. L(x, y) /\ L(y, z) => L(x, z)
    BY <1>2
  <2> QED
    BY <2>1, <2>2
<1>6. IsFiniteSet(E)
  <2>1. E \subseteq DOMAIN Facts
    BY <1>2
  <2> QED
    BY <2>1, FS_Subset, UpdateAssumption
<1>7. \E m \in E : \A x \in E \ {m} : <<x, m>> \in R
  BY <1>4, <1>5, <1>6, GreatestExists
<1> QED
  BY <1>1, <1>7

\* The version chosen for a key is a candidate that is still possible, and the one that an
\* exact lock names; there is one unless no candidate is left.
LEMMA ChosenForKey ==
  ASSUME UpdateTyped, NEW p, IsKey(p), NEW range, NEW v, v = Update!choose_version(p, range)
  PROVE  /\ v # None => v \in Update!loaded(p) \cap range /\ Update!Required(p) \in {None, v}
         /\ v = None => \A w \in Update!loaded(p) \cap range : Update!Required(p) \notin {None, w}
<1> DEFINE eligible == {id \in Update!loaded(p) \cap range : Update!Required(p) \in {None, id}}
           E == Update!with_eligible_candidates(p, range)
<1>1. p # <<"root">> /\ p # <<"R">> /\ p[1] # "occupancy"
  BY DEF IsKey
<1>2. E \subseteq eligible /\ (E = {} => eligible = {})
  BY DEF Update!with_eligible_candidates
<1>3. v = IF E = {} THEN None ELSE CHOOSE id \in E : \A o \in E \ {id} : Update!Prefers(o, id, p)
  BY <1>1 DEF Update!choose_version
<1>4. CASE E = {}
  BY <1>2, <1>3, <1>4
<1>5. CASE E # {}
  <2>1. E \in SUBSET Update!loaded(p)
    BY <1>2
  <2> HIDE DEF E
  <2>2. \E id \in E : \A o \in E \ {id} : Update!Prefers(o, id, p)
    BY <1>5, <2>1, PreferredExists
  <2>3. v \in E
    BY <1>3, <1>5, <2>2
  <2>4. v \in DOMAIN Facts
    BY <2>1, <2>3, LoadedFacts
  <2>5. v # None
    BY <2>4, UpdateAssumption
  <2> QED
    BY <1>2, <2>3, <2>5
<1> QED
  BY <1>4, <1>5

(***************************************************************************)
(* What a solution of the reference decides                                *)
(***************************************************************************)

\* A name has one tenant.
LEMMA OneTenant ==
  ASSUME NEW S, Update!Sound(S), NEW name, NEW v \in Tenants(S, name), NEW w \in Tenants(S, name)
  PROVE  v = w
<1>1. CASE Update!OfName(S, name) # {}
  <2>1. v \in S /\ w \in S /\ Facts[v].name = name /\ Facts[w].name = name
    BY <1>1 DEF Tenants, Update!OfName
  <2> QED
    BY <2>1 DEF Update!Sound
<1>2. CASE Update!OfName(S, name) = {}
  BY <1>2, UpdateAssumption DEF Tenants
<1> QED
  BY <1>1, <1>2

\* A solution decides a package in at most one way.
LEMMA OneAssigned ==
  ASSUME NEW S, Update!Sound(S), NEW p, NEW v, NEW w, Assigns(S, <<p, v>>), Assigns(S, <<p, w>>)
  PROVE  v = w
<1>1. CASE p = <<"root">>
  BY <1>1 DEF Assigns, IsKey
<1>2. CASE p = <<"R">>
  BY <1>2 DEF Assigns, IsKey
<1>3. CASE p[1] = "occupancy" /\ p # <<"root">> /\ p # <<"R">>
  <2>1. v \in Tenants(S, p[2]) /\ w \in Tenants(S, p[2])
    BY <1>3 DEF Assigns, IsKey
  <2> QED
    BY <2>1, OneTenant
<1>4. CASE p[1] # "occupancy" /\ p # <<"root">> /\ p # <<"R">>
  <2>1. v \in Tenants(S, Update!subject_name(p)) /\ w \in Tenants(S, Update!subject_name(p))
    BY <1>4 DEF Assigns, IsKey
  <2> QED
    BY <2>1, OneTenant
<1> QED
  BY <1>1, <1>2, <1>3, <1>4

\* Some candidate of the key of a satisfied requirement is its name's tenant.
LEMMA SatisfiedAssigns ==
  ASSUME UpdateTyped, NEW S \in SUBSET DOMAIN Update!Candidates, Update!Sound(S),
         NEW e, Asked(e), Update!Satisfied(S, e)
  PROVE  LET s == Update!subject_for_package(e)
         IN  /\ e.source # <<"git">>
             /\ \E v \in Update!ranges_for_subject(s, e.allowed) : Assigns(S, <<s, v>>)
<1> DEFINE s == Update!subject_for_package(e)
<1>1. CASE e.name = "R"
  <2>1. RVersion \in e.allowed
    BY <1>1 DEF Update!Satisfied
  <2>2. s = <<"R">>
    BY <1>1, SubjectOfR
  <2>3. e.source # <<"git">>
    <3>1. e \notin request.roots
      BY <1>1, UpdateAssumption DEF UpdateTyped
    <3> QED
      BY <1>1, <3>1, UpdateAssumption DEF Asked
  <2>4. "R" \in Update!ranges_for_subject(s, e.allowed)
    BY <2>1, <2>2 DEF Update!ranges_for_subject
  <2>5. Assigns(S, <<s, "R">>)
    BY <2>2 DEF Assigns
  <2> QED
    BY <2>3, <2>4, <2>5
<1>2. CASE e.name # "R" /\ e.source = <<"any">> /\ e.name \in BaseNames
           /\ Update!exact_root_identity(e.name) = {}
  <2>1. PICK v \in DOMAIN Facts : Update!Base(v) /\ Facts[v].name = e.name /\ Facts[v].version \in e.allowed
    BY <1>2 DEF Update!Satisfied
  <2>2. Update!OfName(S, e.name) = {}
    BY <1>2 DEF Update!Satisfied
  <2>3. s = <<"installed", e.name>> /\ e.source # <<"git">>
    BY <1>2 DEF Update!subject_for_package
  <2>4. v \in Update!loaded(s)
    BY <1>2, <2>1, <2>3, BaseIsLoaded
  <2>5. v \in Update!ranges_for_subject(s, e.allowed)
    BY <2>1, <2>3, <2>4 DEF Update!ranges_for_subject
  <2>6. v \in Tenants(S, e.name) /\ Update!subject_name(s) = e.name /\ IsKey(s)
    BY <2>1, <2>2, <2>3 DEF Tenants, Update!subject_name, IsKey
  <2>7. Assigns(S, <<s, v>>)
    BY <2>4, <2>6 DEF Assigns
  <2> QED
    BY <2>3, <2>5, <2>7
<1>3. CASE e.name # "R" /\ ~ (e.source = <<"any">> /\ e.name \in BaseNames
                              /\ Update!exact_root_identity(e.name) = {})
  <2>1. PICK v \in Update!OfName(S, e.name) :
            /\ Facts[v].version \in e.allowed
            /\ CASE e.source[1] = "any" -> TRUE
                 [] e.source[1] = "registry" -> Facts[v].namespace = e.source[2]
                 [] e.source[1] = "repository" -> e.source[2] \in Update!Offered(v)
                 [] e.source[1] = "exact" -> e.source[2] = v
                 [] e.source[1] = "git" -> FALSE
    BY <1>3 DEF Update!Satisfied
  <2>2. e.source # <<"git">>
    <3> SUFFICES ASSUME e.source = <<"git">> PROVE FALSE
      OBVIOUS
    <3>1. e.source[1] = "git"
      OBVIOUS
    <3> QED
      BY <2>1, <3>1
  <2>3. v \in S /\ v \in DOMAIN Update!Candidates /\ Facts[v].name = e.name /\ v \in Tenants(S, e.name)
    BY <2>1 DEF Update!OfName, Tenants
  <2>4. IsKey(s) /\ Update!subject_name(s) = e.name
    BY <1>3, <2>2, Subjects
  <2>5. ASSUME NEW x, IsExactRoot(x), Facts[x].name = e.name PROVE x = v
    <3>1. PICK r \in request.roots : r.source = <<"exact", x>>
      BY <2>5 DEF IsExactRoot
    <3>2. r.name = e.name /\ r.name # "R"
      BY <2>5, <3>1, SourceForms DEF Asked
    <3>3. Update!Satisfied(S, r)
      BY DEF Update!Sound
    <3>4. x \in Update!OfName(S, e.name)
      BY <3>1, <3>2, <3>3 DEF Update!Satisfied
    <3> QED
      BY <2>3, <3>4 DEF Update!Sound, Update!OfName
  <2>6. Update!Offered(v) # {} \/ IsExactRoot(v)
    <3>1. Update!Offered(v) # {} \/ \E r \in request.roots : r.source = <<"exact", v>>
      BY <2>3 DEF Update!Sound
    <3>2. ASSUME NEW r \in request.roots, r.source = <<"exact", v>> PROVE IsExactRoot(v)
      BY <3>2, SourceForms DEF Asked
    <3> QED
      BY <3>1, <3>2
  <2>7. ASSUME Update!Offered(v) # {} PROVE \E o \in Update!Candidates[v] : o.available
    BY <2>7 DEF Update!Offered
  <2>8. v \in Update!loaded(s)
    <3>1. CASE e.source = <<"any">> /\ s = <<"installed", e.name>> /\ Update!exact_root_identity(e.name) = {}
      <4>1. ~ IsExactRoot(v)
        BY <2>3, <3>1, ExactRootNamed
      <4>2. PICK o \in Update!Candidates[v] : o.available
        BY <2>6, <2>7, <4>1
      <4> QED
        BY <1>3, <2>3, <2>4, <3>1, <4>2, OfferedIsLoaded
    <3>2. CASE e.source = <<"any">> /\ s = <<"exact", s[2]>> /\ s[2] \in Update!exact_root_identity(e.name)
      <4>1. IsExactRoot(s[2]) /\ Facts[s[2]].name = e.name
        BY <3>2, ExactRoots
      <4>2. s[2] = v
        BY <2>5, <4>1
      <4> QED
        BY <2>3, <3>2, <4>1, <4>2, ExactIsLoaded
    <3>3. CASE e.source = <<"registry", e.source[2]>> /\ s = <<"registry", e.source[2], e.name>>
               /\ e.source[2] \notin {"git", "base"}
      <4>1. Facts[v].namespace = e.source[2]
        <5>1. e.source[1] = "registry"
          BY <3>3
        <5> QED
          BY <2>1, <5>1
      <4>2. ~ IsExactRoot(v)
        BY <3>3, <4>1 DEF IsExactRoot
      <4>3. PICK o \in Update!Candidates[v] : o.available
        BY <2>6, <2>7, <4>2
      <4> QED
        BY <2>3, <2>4, <3>3, <4>1, <4>3, OfferedIsLoaded
    <3>4. CASE e.source = <<"repository", e.source[2]>> /\ s = <<"repository", e.source[2], e.name>>
      <4>1. e.source[2] \in Update!Offered(v)
        <5>1. e.source[1] = "repository"
          BY <3>4
        <5> QED
          BY <2>1, <5>1
      <4>2. PICK o \in Update!Candidates[v] : o.available /\ o.repository = e.source[2]
        BY <4>1 DEF Update!Offered
      <4> QED
        BY <2>3, <2>4, <3>4, <4>2, OfferedIsLoaded
    <3>5. CASE e.source = <<"exact", e.source[2]>> /\ s = e.source /\ IsExactRoot(e.source[2])
      <4>1. e.source[2] = v
        <5>1. e.source[1] = "exact"
          BY <3>5
        <5> QED
          BY <2>1, <5>1
      <4> QED
        BY <2>3, <3>5, <4>1, ExactIsLoaded
    <3> HIDE DEF s
    <3>6. s = Update!subject_for_package(e)
      BY DEF s
    <3> QED
      BY <1>3, <2>2, <3>1, <3>2, <3>3, <3>4, <3>5, <3>6, Subjects
  <2>9. v \in Update!ranges_for_subject(s, e.allowed)
    <3>1. s # <<"R">>
      BY <2>4 DEF IsKey
    <3> QED
      BY <2>1, <2>8, <3>1 DEF Update!ranges_for_subject
  <2>10. Assigns(S, <<s, v>>)
    BY <2>3, <2>4, <2>8 DEF Assigns
  <2> QED
    BY <2>2, <2>9, <2>10
<1> QED
  BY <1>1, <1>2, <1>3

(***************************************************************************)
(* What a decision requires                                                *)
(***************************************************************************)

LEMMA RootNeeds ==
  ASSUME NEW v
  PROVE  /\ Update!Requirements(<<"root">>, v) = request.roots
         /\ Update!get_dependencies(<<"root">>, v) =
               {<<Update!subject_for_package(e),
                  Update!ranges_for_subject(Update!subject_for_package(e), e.allowed)>> : e \in request.roots}
               \cup {<< <<"R">>, Update!ranges_for_subject(<<"R">>, request.allowed)>>}
<1>1. Update!Requirements(<<"root">>, v) = request.roots
  BY DEF Update!Requirements
<1> QED
  BY <1>1 DEF Update!get_dependencies, Update!RequiredPackages

LEMMA NothingNeeded ==
  ASSUME NEW p, NEW v, p = <<"R">> \/ p[1] = "occupancy"
  PROVE  Update!Requirements(p, v) = {} /\ Update!get_dependencies(p, v) = {}
<1>1. p # <<"root">>
  OBVIOUS
<1>2. Update!Requirements(p, v) = {}
  BY <1>1 DEF Update!Requirements
<1> QED
  BY <1>1, <1>2 DEF Update!get_dependencies, Update!RequiredPackages

LEMMA KeyNeeds ==
  ASSUME NEW p, NEW v, IsKey(p)
  PROVE  /\ Update!Requirements(p, v) = Update!project_dependency_edges(v, Update!expansion_for_subject(p))
         /\ Update!get_dependencies(p, v) =
               {<<Update!subject_for_package(e),
                  Update!ranges_for_subject(Update!subject_for_package(e), e.allowed)>> :
                    e \in Update!Requirements(p, v)}
               \cup {<< <<"occupancy", Facts[v].name>>, {v}>>}
<1>1. p # <<"root">> /\ p # <<"R">> /\ p[1] # "occupancy"
  BY DEF IsKey
<1>2. Update!Requirements(p, v) = Update!project_dependency_edges(v, Update!expansion_for_subject(p))
  BY <1>1 DEF Update!Requirements
<1> QED
  BY <1>1, <1>2 DEF Update!get_dependencies, Update!RequiredPackages

\* What is required is R, the key of a requirement, or the name of the release.
LEMMA NeedForms ==
  ASSUME UpdateTyped, NEW p, NEW v, Possible(p, v), NEW r \in Update!get_dependencies(p, v)
  PROVE  \/ p = <<"root">> /\ r = << <<"R">>, Update!ranges_for_subject(<<"R">>, request.allowed)>>
         \/ \E e \in Update!Requirements(p, v) :
               /\ Asked(e) /\ e.source # <<"git">>
               /\ r = <<Update!subject_for_package(e),
                        Update!ranges_for_subject(Update!subject_for_package(e), e.allowed)>>
         \/ IsKey(p) /\ v \in DOMAIN Facts /\ r = << <<"occupancy", Facts[v].name>>, {v}>>
<1>1. CASE p = <<"root">>
  <2>1. \A q \in request.roots : q.source # <<"git">>
    BY <1>1 DEF Possible, IsKey
  <2> QED
    BY <1>1, <2>1, RootNeeds DEF Asked
<1>2. CASE p = <<"R">> \/ p[1] = "occupancy"
  BY <1>2, NothingNeeded
<1>3. CASE p # <<"root">> /\ ~ (p = <<"R">> \/ p[1] = "occupancy")
  <2>1. IsKey(p) /\ v \in Update!loaded(p) /\ ~ Update!Unavailable(p, v)
    BY <1>3 DEF Possible
  <2>2. v \in DOMAIN Facts
    BY <2>1, LoadedFacts
  <2>3. ASSUME NEW e \in Update!Requirements(p, v) PROVE Asked(e) /\ e.source # <<"git">>
    <3>1. e \in Facts[v].edges
      BY <2>1, KeyNeeds DEF Update!project_dependency_edges
    <3>2. e.source # <<"git">>
      BY <1>3, <2>1 DEF Update!Unavailable
    <3> QED
      BY <2>2, <3>1, <3>2 DEF Asked
  <2>4. CASE r \in {<<Update!subject_for_package(e),
                  Update!ranges_for_subject(Update!subject_for_package(e), e.allowed)>> :
                    e \in Update!Requirements(p, v)}
    BY <2>3, <2>4
  <2>5. CASE r = << <<"occupancy", Facts[v].name>>, {v}>>
    BY <2>1, <2>2, <2>5
  <2> QED
    BY <2>1, <2>4, <2>5, KeyNeeds
<1> QED
  BY <1>1, <1>2, <1>3

\* A required package, and the versions left to it.
Needed(r) ==
    \/ r[1] = <<"R">>
    \/ r[1][1] = "occupancy" /\ \E u \in DOMAIN Facts : r[2] = {u}
    \/ /\ IsKey(r[1]) /\ r[2] \subseteq Update!loaded(r[1])
       /\ r[1][1] = "exact" => \E q \in request.roots : q.source = r[1]

LEMMA NeededPackages ==
  ASSUME UpdateTyped, NEW p, NEW v, Possible(p, v), NEW r \in Update!get_dependencies(p, v)
  PROVE  Needed(r)
<1>1. CASE p = <<"root">> /\ r = << <<"R">>, Update!ranges_for_subject(<<"R">>, request.allowed)>>
  BY <1>1 DEF Needed
<1>2. ASSUME NEW e \in Update!Requirements(p, v), Asked(e), e.source # <<"git">>,
             r = <<Update!subject_for_package(e),
                   Update!ranges_for_subject(Update!subject_for_package(e), e.allowed)>>
      PROVE  Needed(r)
  <2>1. CASE e.name = "R"
    BY <1>2, <2>1, SubjectOfR DEF Needed
  <2>2. CASE e.name # "R"
    <3> DEFINE s == Update!subject_for_package(e)
    <3>1. IsKey(s) /\ (s[1] = "exact" => \E q \in request.roots : q.source = s)
      BY <1>2, <2>2, Subjects, ExactKeys
    <3>2. s # <<"R">>
      BY <3>1 DEF IsKey
    <3>3. Update!ranges_for_subject(s, e.allowed) \subseteq Update!loaded(s)
      BY <3>2 DEF Update!ranges_for_subject
    <3>4. r[1] = s /\ r[2] = Update!ranges_for_subject(s, e.allowed)
      BY <1>2
    <3> HIDE DEF s
    <3> QED
      BY <3>1, <3>3, <3>4 DEF Needed
  <2> QED
    BY <2>1, <2>2
<1>3. CASE IsKey(p) /\ v \in DOMAIN Facts /\ r = << <<"occupancy", Facts[v].name>>, {v}>>
  BY <1>3 DEF Needed
<1> QED
  BY <1>1, <1>2, <1>3, NeedForms

\* A solution that makes a decision satisfies what the decision requires.
LEMMA RequirementsAreSatisfied ==
  ASSUME UpdateTyped, NEW S \in SUBSET DOMAIN Update!Candidates, Update!Sound(S),
         NEW p, NEW v, Assigns(S, <<p, v>>), NEW e \in Update!Requirements(p, v)
  PROVE  Asked(e) /\ Update!Satisfied(S, e)
<1>1. CASE p = <<"root">>
  <2>1. e \in request.roots
    BY <1>1, RootNeeds
  <2> QED
    BY <2>1 DEF Asked, Update!Sound
<1>2. CASE p = <<"R">> \/ p[1] = "occupancy"
  BY <1>2, NothingNeeded
<1>3. CASE p # <<"root">> /\ ~ (p = <<"R">> \/ p[1] = "occupancy")
  <2>1. IsKey(p) /\ v \in Update!loaded(p) /\ v \in Tenants(S, Update!subject_name(p))
    BY <1>3 DEF Assigns
  <2>2. v \in DOMAIN Facts /\ Facts[v].name = Update!subject_name(p)
    BY <2>1, LoadedFacts
  <2>3. e \in Facts[v].edges /\ e \in Update!project_dependency_edges(v, Update!expansion_for_subject(p))
    BY <2>1, KeyNeeds DEF Update!project_dependency_edges
  <2>4. ~ Update!Base(v)
    BY <2>2, <2>3, UpdateAssumption
  <2>5. v \in S
    BY <2>1, <2>4 DEF Tenants, Update!OfName
  <2>6. \/ Update!Satisfied(S, e)
        \/ e.kind = "suggests" /\ ~ \E r \in request.roots : r.name = Facts[v].name /\ r.suggests
        \/ e.kind = "enhances"
    BY <2>3, <2>5 DEF Update!Sound
  <2>7. ASSUME e.kind = "suggests" PROVE \E r \in request.roots : r.name = Facts[v].name /\ r.suggests
    <3>1. PICK r \in request.roots : r.suggests /\ Update!subject_for_package(r) = p
      BY <2>3, <2>7 DEF Update!project_dependency_edges, Update!expansion_for_subject
    <3>2. Asked(r) /\ r.name # "R"
      BY UpdateAssumption DEF Asked, UpdateTyped
    <3>3. r.source # <<"git">>
      <4> SUFFICES ASSUME r.source = <<"git">> PROVE FALSE
        OBVIOUS
      <4>1. p = <<"git", r.source[2], r.name>>
        BY <3>1, <3>2 DEF Update!subject_for_package
      <4> QED
        BY <2>1, <4>1 DEF IsKey
    <3>4. Update!subject_name(p) = r.name
      BY <3>1, <3>2, <3>3, Subjects
    <3> QED
      BY <2>2, <3>1, <3>4
  <2>8. e.kind # "enhances"
    BY <2>3 DEF Update!project_dependency_edges
  <2> QED
    BY <2>2, <2>3, <2>6, <2>7, <2>8 DEF Asked
<1> QED
  BY <1>1, <1>2, <1>3

LEMMA NeedsAreAssigned ==
  ASSUME UpdateTyped, NEW S \in SUBSET DOMAIN Update!Candidates, Update!Sound(S),
         NEW p, NEW v, Possible(p, v), Assigns(S, <<p, v>>), NEW r \in Update!get_dependencies(p, v)
  PROVE  \E w \in r[2] : Assigns(S, <<r[1], w>>)
<1>1. CASE p = <<"root">> /\ r = << <<"R">>, Update!ranges_for_subject(<<"R">>, request.allowed)>>
  <2>1. RVersion \in request.allowed
    BY DEF Update!Sound
  <2>2. "R" \in r[2] /\ r[1] = <<"R">>
    BY <1>1, <2>1 DEF Update!ranges_for_subject
  <2> QED
    BY <2>2 DEF Assigns
<1>2. ASSUME NEW e \in Update!Requirements(p, v),
             r = <<Update!subject_for_package(e),
                   Update!ranges_for_subject(Update!subject_for_package(e), e.allowed)>>
      PROVE  \E w \in r[2] : Assigns(S, <<r[1], w>>)
  <2> DEFINE s == Update!subject_for_package(e)
             range == Update!ranges_for_subject(s, e.allowed)
  <2>1. Asked(e) /\ Update!Satisfied(S, e)
    BY RequirementsAreSatisfied
  <2>2. \E w \in range : Assigns(S, <<s, w>>)
    BY <2>1, SatisfiedAssigns
  <2>3. r = <<s, range>>
    BY <1>2
  <2> HIDE DEF s, range
  <2> QED
    BY <2>2, <2>3
<1>3. CASE IsKey(p) /\ v \in DOMAIN Facts /\ r = << <<"occupancy", Facts[v].name>>, {v}>>
  <2>1. v \in Update!loaded(p) /\ v \in Tenants(S, Update!subject_name(p))
    BY <1>3 DEF Assigns, IsKey
  <2>2. Facts[v].name = Update!subject_name(p)
    BY <1>3, <2>1, LoadedFacts
  <2>3. Assigns(S, << <<"occupancy", Facts[v].name>>, v>>)
    BY <2>1, <2>2 DEF Assigns
  <2> QED
    BY <1>3, <2>3
<1> QED
  BY <1>1, <1>2, <1>3, NeedForms

\* A solution never makes a decision that the adapter calls unavailable.
LEMMA UnavailableIsUnassigned ==
  ASSUME UpdateTyped, policy = "unlocked", NEW S \in SUBSET DOMAIN Update!Candidates, Update!Sound(S),
         NEW p, NEW v, Update!Unavailable(p, v), Assigns(S, <<p, v>>)
  PROVE  FALSE
<1>1. CASE Update!Rejected(p, v)
  <2>1. IsKey(p) /\ v \in Update!loaded(p) /\ v \in Tenants(S, Update!subject_name(p))
    BY <1>1 DEF Update!Rejected, Assigns
  <2>2. /\ request.cutoff # 0 /\ ~ Update!Base(v)
        /\ Facts[v].date = 0 \/ Facts[v].date > request.cutoff
    BY <1>1 DEF Update!Rejected, Update!publication_rejections
  <2>3. v \in S
    BY <2>1, <2>2 DEF Tenants, Update!OfName
  <2>4. locked = <<>>
    BY DEF UpdateTyped
  <2>5. Facts[v].date \in 1..request.cutoff
    BY <2>2, <2>3, <2>4 DEF Update!Sound
  <2>6. request.cutoff \in Nat
    BY UpdateAssumption DEF UpdateTyped
  <2> QED
    BY <2>2, <2>5, <2>6
<1>2. ASSUME NEW e \in Update!Requirements(p, v), e.source = <<"git">> PROVE FALSE
  <2>1. Asked(e) /\ Update!Satisfied(S, e)
    BY RequirementsAreSatisfied
  <2> QED
    BY <1>2, <2>1, SatisfiedAssigns
<1> QED
  BY <1>1, <1>2 DEF Update!Unavailable

(***************************************************************************)
(* The packages still to be decided                                        *)
(***************************************************************************)

\* What is required was required by a decision.
LEMMA RangesAreNeeds ==
  ASSUME UpdateTyped, UpdateInvariant, NEW r \in Update!Ranges
  PROVE  \E i \in DOMAIN decided : /\ Possible(decided[i].package, decided[i].version)
                                   /\ r \in Update!get_dependencies(decided[i].package, decided[i].version)
<1>1. PICK i \in DOMAIN decided : r \in decided[i].needs
  BY DEF Update!Ranges
<1> QED
  BY <1>1 DEF UpdateInvariant, DecisionsAreKnown, Known

LEMMA RangesAreNeeded ==
  ASSUME UpdateTyped, UpdateInvariant, NEW r \in Update!Ranges
  PROVE  Needed(r)
BY RangesAreNeeds, NeededPackages

\* A solution that makes all decisions has a version for all they require.
LEMMA RangesAreAssigned ==
  ASSUME UpdateTyped, UpdateInvariant, NEW S \in SUBSET DOMAIN Update!Candidates, Update!Sound(S),
         \A d \in Update!Decisions : Assigns(S, d), NEW r \in Update!Ranges
  PROVE  \E w \in r[2] : Assigns(S, <<r[1], w>>)
<1>1. PICK i \in DOMAIN decided : /\ Possible(decided[i].package, decided[i].version)
                                  /\ r \in Update!get_dependencies(decided[i].package, decided[i].version)
  BY RangesAreNeeds
<1>2. Assigns(S, <<decided[i].package, decided[i].version>>)
  BY DEF Update!Decisions, Update!Decision
<1> QED
  BY <1>1, <1>2, NeedsAreAssigned

LEMMA PendingPackages ==
  ASSUME UpdateTyped, UpdateInvariant, NEW p \in Update!Pending
  PROVE  \/ decided = <<>> /\ p = <<"root">>
         \/ /\ decided # <<>> /\ p # <<"root">>
            /\ \A i \in DOMAIN decided : decided[i].package # p
            /\ \E r \in Update!Ranges : r[1] = p /\ Needed(r)
<1>1. CASE decided = <<>>
  BY <1>1 DEF Update!Pending
<1>2. CASE decided # <<>>
  <2>1. p \in {r[1] : r \in Update!Ranges} \ {d[1] : d \in Update!Decisions}
    BY <1>2 DEF Update!Pending
  <2>2. \A i \in DOMAIN decided : decided[i].package # p
    <3> SUFFICES ASSUME NEW i \in DOMAIN decided PROVE decided[i].package # p
      OBVIOUS
    <3>1. <<decided[i].package, decided[i].version>> \in Update!Decisions
      BY DEF Update!Decisions, Update!Decision
    <3> QED
      BY <2>1, <3>1
  <2>3. 1 \in DOMAIN decided
    BY <1>2, SequenceDomain DEF UpdateTyped, IsSequence
  <2>4. p # <<"root">>
    BY <1>2, <2>2, <2>3 DEF UpdateInvariant, DecisionsAreKnown
  <2> QED
    BY <1>2, <2>1, <2>2, <2>4, RangesAreNeeded
<1> QED
  BY <1>1, <1>2

\* A version that is left to a required package is in all that is required of it.
LEMMA AllowedVersions ==
  ASSUME NEW p, NEW v \in Update!Allowed(p), NEW r \in Update!Ranges, r[1] = p
  PROVE  v \in r[2]
BY DEF Update!Allowed

\* A version in all that is required, and in no conflict, is left to its package.
LEMMA LeftVersions ==
  ASSUME NEW p, NEW r \in Update!Ranges, r[1] = p, NEW w,
         \A q \in Update!Ranges : q[1] = p => w \in q[2],
         ~ \E n \in nogoods : n \subseteq Update!Decisions \cup {<<p, w>>}
  PROVE  w \in Update!Allowed(p)
<1> DEFINE ranges == {q[2] : q \in {x \in Update!Ranges : x[1] = p}}
<1>1. r[2] \in ranges /\ \A x \in ranges : w \in x
  OBVIOUS
<1>2. Update!Allowed(p) = {v \in IF ranges = {} THEN {"root"} ELSE CHOOSE x \in ranges : TRUE :
            /\ \A x \in ranges : v \in x
            /\ ~ \E n \in nogoods : n \subseteq Update!Decisions \cup {<<p, v>>}}
  BY DEF Update!Allowed
<1> HIDE DEF ranges
<1>3. w \in CHOOSE x \in ranges : TRUE
  BY <1>1
<1> QED
  BY <1>1, <1>2, <1>3

\* What the adapter answers for a pending package, when it does not fail.
LEMMA ChosenIsPossible ==
  ASSUME UpdateTyped, UpdateInvariant, NEW p \in Update!Pending, NEW v,
         v = Update!choose_version(p, Update!Allowed(p)), v # None,
         ~ Update!Unavailable(p, v), ~ Update!DependenciesFail(p, v)
  PROVE  Possible(p, v)
<1>1. CASE p = <<"root">>
  <2>1. v = "root"
    BY <1>1 DEF Update!choose_version
  <2>2. ~ Update!Rejected(p, v)
    BY <1>1 DEF Update!Rejected
  <2>3. \A r \in request.roots : r.source # <<"git">>
    BY <1>1, <2>2, RootNeeds DEF Update!DependenciesFail
  <2> QED
    BY <1>1, <2>1, <2>3 DEF Possible
<1>2. CASE p # <<"root">>
  <2>1. PICK r \in Update!Ranges : r[1] = p /\ Needed(r)
    BY <1>2, PendingPackages
  <2>2. CASE p = <<"R">>
    <3>1. v = "R"
      BY <1>2, <2>2 DEF Update!choose_version
    <3> QED
      BY <2>2, <3>1 DEF Possible
  <2>3. CASE p[1] = "occupancy"
    <3>1. v \in Update!Allowed(p)
      <4>1. p # <<"R">>
        BY <2>3
      <4> QED
        BY <1>2, <2>3, <4>1 DEF Update!choose_version
    <3>2. v \in DOMAIN Facts
      BY <2>1, <2>3, <3>1, AllowedVersions DEF Needed, IsKey
    <3> QED
      BY <2>3, <3>2 DEF Possible
  <2>4. CASE IsKey(p)
    <3>1. p[1] = "exact" => \E q \in request.roots : q.source = p
      BY <2>1, <2>4 DEF Needed, IsKey
    <3>2. v \in Update!loaded(p) /\ Update!Required(p) \in {None, v}
      BY <2>4, ChosenForKey
    <3> QED
      BY <2>4, <3>1, <3>2 DEF Possible
  <2> QED
    BY <2>1, <2>2, <2>3, <2>4 DEF Needed
<1> QED
  BY <1>1, <1>2

(***************************************************************************)
(* Conflicts                                                               *)
(***************************************************************************)

\* When no version is left to a package, the decisions made so far are a conflict.
LEMMA NoVersionLeft ==
  ASSUME UpdateTyped, UpdateInvariant, policy = "unlocked", NEW p \in Update!Pending,
         Update!choose_version(p, Update!Allowed(p)) = None
  PROVE  Refuted(Update!Decisions)
<1> SUFFICES ASSUME NEW S \in SUBSET DOMAIN Update!Candidates, Update!Sound(S),
                    \A d \in Update!Decisions : Assigns(S, d)
             PROVE  FALSE
  BY DEF Refuted
<1>1. p # <<"root">>
  <2> SUFFICES ASSUME p = <<"root">> PROVE FALSE
    OBVIOUS
  <2>1. None = "root"
    BY DEF Update!choose_version
  <2> QED
    BY <2>1, UpdateAssumption
<1>2. PICK r \in Update!Ranges : r[1] = p /\ Needed(r)
  BY <1>1, PendingPackages
<1>3. PICK w \in r[2] : Assigns(S, <<p, w>>)
  BY <1>2, RangesAreAssigned
<1>4. w \in Update!Allowed(p)
  <2>1. ASSUME NEW q \in Update!Ranges, q[1] = p PROVE w \in q[2]
    <3>1. PICK x \in q[2] : Assigns(S, <<p, x>>)
      BY <2>1, RangesAreAssigned
    <3> QED
      BY <1>3, <3>1, OneAssigned
  <2>2. ASSUME NEW n \in nogoods, n \subseteq Update!Decisions \cup {<<p, w>>} PROVE FALSE
    <3>1. PICK d \in n : ~ Assigns(S, d)
      BY DEF UpdateInvariant, ConflictsAreReal, Refuted
    <3> QED
      BY <1>3, <2>2, <3>1
  <2> QED
    BY <1>2, <2>1, <2>2, LeftVersions
<1>5. CASE p = <<"R">>
  <2>1. w = "R"
    BY <1>3, <1>5 DEF Assigns, IsKey
  <2>2. Update!choose_version(p, Update!Allowed(p)) = "R"
    BY <1>1, <1>4, <1>5, <2>1 DEF Update!choose_version
  <2>3. None = "R"
    BY <2>2
  <2> QED
    BY <2>3, UpdateAssumption
<1>6. CASE p[1] = "occupancy"
  <2>1. p # <<"R">>
    BY <1>6
  <2>2. None \in Update!Allowed(p)
    BY <1>1, <1>4, <1>6, <2>1 DEF Update!choose_version
  <2>3. None \in DOMAIN Facts
    BY <1>2, <1>6, <2>2, AllowedVersions DEF Needed, IsKey
  <2> QED
    BY <2>3, UpdateAssumption
<1>7. CASE IsKey(p)
  <2>1. w \in Update!loaded(p)
    BY <1>3, <1>7 DEF Assigns, IsKey
  <2>2. Update!Required(p) = None
    BY DEF Update!Required
  <2> QED
    BY <1>4, <1>7, <2>1, <2>2, ChosenForKey
<1> QED
  BY <1>2, <1>5, <1>6, <1>7 DEF Needed

LEMMA UnavailableIsRefuted ==
  ASSUME UpdateTyped, policy = "unlocked", NEW p, NEW v, Update!Unavailable(p, v)
  PROVE  Refuted(Update!Decisions \cup {<<p, v>>})
BY UnavailableIsUnassigned DEF Refuted

LEMMA ConflictIsRefuted ==
  ASSUME UpdateTyped, UpdateInvariant, NEW p, NEW v, Possible(p, v),
         Update!Conflicts(p, v, Update!get_dependencies(p, v))
  PROVE  Refuted(Update!Decisions \cup {<<p, v>>})
<1> DEFINE all == Update!Decisions \cup {<<p, v>>}
           ranges == Update!Ranges \cup Update!get_dependencies(p, v)
<1> SUFFICES ASSUME NEW S \in SUBSET DOMAIN Update!Candidates, Update!Sound(S),
                    \A d \in all : Assigns(S, d)
             PROVE  FALSE
  BY DEF Refuted
<1>1. PICK r \in ranges : \/ \A w \in r[2] : \E q \in ranges : q[1] = r[1] /\ w \notin q[2]
                          \/ \E d \in all : d[1] = r[1] /\ d[2] \notin r[2]
  BY DEF Update!Conflicts
<1>2. Assigns(S, <<p, v>>) /\ \A d \in Update!Decisions : Assigns(S, d)
  OBVIOUS
<1>3. \A q \in ranges : \E w \in q[2] : Assigns(S, <<q[1], w>>)
  BY <1>2, RangesAreAssigned, NeedsAreAssigned
<1>4. PICK w \in r[2] : Assigns(S, <<r[1], w>>)
  BY <1>3
<1>5. \A q \in ranges : q[1] = r[1] => w \in q[2]
  BY <1>3, <1>4, OneAssigned
<1>6. \A d \in all : d[1] = r[1] => d[2] \in r[2]
  <2> SUFFICES ASSUME NEW d \in all, d[1] = r[1] PROVE d[2] \in r[2]
    OBVIOUS
  <2>1. d = <<d[1], d[2]>>
    BY DEF Update!Decisions, Update!Decision
  <2>2. Assigns(S, <<r[1], d[2]>>)
    BY <2>1
  <2> QED
    BY <1>4, <2>2, OneAssigned
<1> QED
  BY <1>1, <1>4, <1>5, <1>6

(***************************************************************************)
(* A resolution keeps its catalogue, its request and its lock              *)
(***************************************************************************)

Kept == catalog' = catalog /\ request' = request /\ policy' = policy /\ locked' = locked

LEMMA LoadedKept ==
  ASSUME Kept
  PROVE  /\ Update!Candidates' = Update!Candidates
         /\ \A s : Update!loaded(s)' = Update!loaded(s)
<1>1. Update!Candidates' = Update!Candidates
  BY DEF Kept, Update!Candidates
<1>2. \A id, s : Update!applicable_occurrences(id, s)' = Update!applicable_occurrences(id, s)
  BY <1>1 DEF Update!applicable_occurrences
<1>3. \A id, s : Update!is_eligible_for(id, s)' <=> Update!is_eligible_for(id, s)
  BY <1>1, <1>2 DEF Update!is_eligible_for
<1>4. \A s : Update!OverlayLoad(s)' = Update!OverlayLoad(s)
  BY <1>1 DEF Update!OverlayLoad
<1> QED
  BY <1>1, <1>3, <1>4 DEF Update!loaded

LEMMA KeysKept ==
  ASSUME Kept
  PROVE  /\ \A name : Update!exact_root_identity(name)' = Update!exact_root_identity(name)
         /\ \A e : Update!subject_for_package(e)' = Update!subject_for_package(e)
         /\ \A s : Update!LockedIdentity(s)' = Update!LockedIdentity(s)
         /\ \A s : Update!Required(s)' = Update!Required(s)
         /\ \A s, allowed : Update!ranges_for_subject(s, allowed)' = Update!ranges_for_subject(s, allowed)
<1>1. \A name : Update!exact_root_identity(name)' = Update!exact_root_identity(name)
  BY DEF Kept, Update!exact_root_identity
<1>2. \A e : Update!subject_for_package(e)' = Update!subject_for_package(e)
  <2> SUFFICES ASSUME NEW e PROVE Update!subject_for_package(e)' = Update!subject_for_package(e)
    OBVIOUS
  <2>1. Update!exact_root_identity(e.name)' = Update!exact_root_identity(e.name)
    BY <1>1
  <2>2. (CHOOSE id \in Update!exact_root_identity(e.name)' : TRUE)
        = (CHOOSE id \in Update!exact_root_identity(e.name) : TRUE)
    BY <2>1, Zenon
  <2>3. CASE e.name = "R"
    BY <2>3 DEF Update!subject_for_package
  <2>4. CASE e.name # "R" /\ e.source[1] = "any"
    BY <2>1, <2>2, <2>4 DEF Update!subject_for_package
  <2>5. CASE e.name # "R" /\ e.source[1] # "any"
    BY <2>5 DEF Update!subject_for_package
  <2> QED
    BY <2>3, <2>4, <2>5
<1>3. \A s : Update!LockedIdentity(s)' = Update!LockedIdentity(s)
  BY DEF Kept, Update!LockedIdentity
<1>4. \A s : Update!Required(s)' = Update!Required(s)
  BY <1>3 DEF Kept, Update!Required
<1>5. \A s, allowed : Update!ranges_for_subject(s, allowed)' = Update!ranges_for_subject(s, allowed)
  BY LoadedKept DEF Update!ranges_for_subject
<1> QED
  BY <1>1, <1>2, <1>3, <1>4, <1>5

LEMMA NeedsKept ==
  ASSUME Kept
  PROVE  /\ \A p, v : Update!get_dependencies(p, v)' = Update!get_dependencies(p, v)
         /\ \A p, v : Update!Unavailable(p, v)' <=> Update!Unavailable(p, v)
<1>1. \A s : Update!expansion_for_subject(s)' <=> Update!expansion_for_subject(s)
  BY KeysKept DEF Kept, Update!expansion_for_subject
<1>2. \A p, v : Update!Requirements(p, v)' = Update!Requirements(p, v)
  BY <1>1 DEF Kept, Update!Requirements, Update!project_dependency_edges
<1>3. \A ids, l : Update!publication_rejections(ids, l)' = Update!publication_rejections(ids, l)
  BY DEF Kept, Update!publication_rejections
<1>4. \A p, v : Update!Rejected(p, v)' <=> Update!Rejected(p, v)
  BY <1>3, KeysKept DEF Update!Rejected
<1>5. \A p, v : Update!Unavailable(p, v)' <=> Update!Unavailable(p, v)
  BY <1>2, <1>4 DEF Update!Unavailable
<1>6. \A p, v : Update!RequiredPackages(p, v)' = Update!RequiredPackages(p, v)
  BY <1>2, KeysKept DEF Kept, Update!RequiredPackages
<1>7. \A p, v : Update!get_dependencies(p, v)' = Update!get_dependencies(p, v)
  BY <1>6 DEF Update!get_dependencies
<1> QED
  BY <1>5, <1>7

LEMMA KnownKept ==
  ASSUME Kept
  PROVE  \A d : Known(d)' <=> Known(d)
<1>1. \A p, v : Possible(p, v)' <=> Possible(p, v)
  BY LoadedKept, KeysKept, NeedsKept DEF Kept, Possible, IsKey
<1> QED
  BY <1>1, NeedsKept DEF Known

LEMMA SoundKept ==
  ASSUME Kept
  PROVE  /\ \A S : Update!Sound(S)' <=> Update!Sound(S)
         /\ \A S, d : Assigns(S, d)' <=> Assigns(S, d)
<1>1. \A id : Update!Offered(id)' = Update!Offered(id)
  BY LoadedKept DEF Update!Offered
<1>2. \A S, e : Update!Satisfied(S, e)' <=> Update!Satisfied(S, e)
  <2> SUFFICES ASSUME NEW S, NEW e PROVE Update!Satisfied(S, e)' <=> Update!Satisfied(S, e)
    OBVIOUS
  <2>1. Update!exact_root_identity(e.name)' = Update!exact_root_identity(e.name)
    BY KeysKept
  <2> QED
    BY <1>1, <2>1, Zenon DEF Update!Satisfied
<1>3. \A S : Update!Sound(S)' <=> Update!Sound(S)
  <2> SUFFICES ASSUME NEW S PROVE Update!Sound(S)' <=> Update!Sound(S)
    OBVIOUS
  <2>1. request' = request /\ locked' = locked
    BY DEF Kept
  <2>2. (\A r \in request.roots : Update!Satisfied(S, r))' <=> \A r \in request.roots : Update!Satisfied(S, r)
    BY <1>2, <2>1
  <2>3. \A e : Update!Satisfied(S, e)' <=> Update!Satisfied(S, e)
    BY <1>2
  <2> DEFINE
    Here(id) == Update!Offered(id) # {} \/ \E r \in request.roots : r.source = <<"exact", id>>
    Met(id) ==
        \A e \in Facts[id].edges :
            \/ Update!Satisfied(S, e)
            \/ e.kind = "suggests" /\ ~ \E r \in request.roots : r.name = Facts[id].name /\ r.suggests
            \/ e.kind = "enhances"
    InTime(id) ==
        \/ request.cutoff = 0
        \/ Facts[id].date \in 1..request.cutoff
        \/ \E k \in DOMAIN locked : locked[k] = id
  <2>4. \A id : Here(id)' <=> Here(id)
    BY <1>1, <2>1
  <2>5. \A id : Met(id)' <=> Met(id)
    BY <2>1, <2>3
  <2>6. \A id : InTime(id)' <=> InTime(id)
    BY <2>1
  <2>7. Update!Sound(S) <=>
          /\ \A id, other \in S : Facts[id].name = Facts[other].name => id = other
          /\ RVersion \in request.allowed
          /\ \A r \in request.roots : Update!Satisfied(S, r)
          /\ \A id \in S : Here(id) /\ Met(id) /\ InTime(id)
    BY Zenon DEF Update!Sound
  <2>8. Update!Sound(S)' <=>
          /\ \A id, other \in S : Facts[id].name = Facts[other].name => id = other
          /\ RVersion \in request'.allowed
          /\ (\A r \in request.roots : Update!Satisfied(S, r))'
          /\ \A id \in S : Here(id)' /\ Met(id)' /\ InTime(id)'
    BY Zenon DEF Update!Sound
  <2> HIDE DEF Here, Met, InTime
  <2> QED
    BY <2>1, <2>2, <2>4, <2>5, <2>6, <2>7, <2>8
<1>4. \A S, d : Assigns(S, d)' <=> Assigns(S, d)
  BY LoadedKept DEF Assigns, Tenants, IsKey
<1> QED
  BY <1>3, <1>4

LEMMA RefutedKept ==
  ASSUME Kept
  PROVE  \A ds : Refuted(ds)' <=> Refuted(ds)
BY LoadedKept, SoundKept DEF Refuted

(***************************************************************************)
(* The steps of the search                                                 *)
(***************************************************************************)

\* Fewer decisions agree as well.
LEMMA PrefixKeeps ==
  ASSUME UpdateTyped, DecisionsAreKnown, Agreeing, Kept, NEW k \in 0..Len(decided), decided' = SubSeq(decided, 1, k)
  PROVE  UpdateTyped' /\ DecisionsAreKnown' /\ Agreeing'
<1>1. /\ IsSequence(decided') /\ DOMAIN decided' = 1..k /\ 1..k \subseteq DOMAIN decided
      /\ \A i \in 1..k : decided'[i] = decided[i]
  BY PrefixSequence DEF UpdateTyped
<1>2. \A i \in DOMAIN decided' : i \in DOMAIN decided /\ decided'[i] = decided[i]
  BY <1>1
<1>3. UpdateTyped'
  BY <1>1 DEF UpdateTyped, Kept, IsSequence
<1>4. decided' # <<>> => decided'[1] = decided[1] /\ decided # <<>>
  <2> SUFFICES ASSUME decided' # <<>> PROVE decided'[1] = decided[1] /\ decided # <<>>
    OBVIOUS
  <2>1. 1 \in DOMAIN decided'
    <3>1. Len(decided') \in Nat /\ DOMAIN decided' = 1..Len(decided')
      BY <1>1, SequenceDomain
    <3> QED
      BY <1>1, <3>1 DEF IsSequence
  <2> QED
    BY <1>2, <2>1
<1>5. DecisionsAreKnown'
  <2>1. \A i \in DOMAIN decided' : Known(decided[i])
    BY <1>2 DEF DecisionsAreKnown
  <2>2. \A i \in DOMAIN decided' : Known(decided[i])'
    BY <1>2, <2>1, KnownKept
  <2>3. decided' # <<>> => decided'[1].package = <<"root">>
    BY <1>4 DEF DecisionsAreKnown
  <2> QED
    BY <2>2, <2>3 DEF DecisionsAreKnown
<1>6. Agreeing'
  <2>1. ASSUME NEW i \in DOMAIN decided', NEW j \in DOMAIN decided', decided'[i].package = decided'[j].package
        PROVE  i = j
    BY <1>2, <2>1 DEF Agreeing
  <2>2. ASSUME NEW i \in DOMAIN decided', NEW j \in DOMAIN decided', NEW r \in decided'[j].needs,
               r[1] = decided'[i].package
        PROVE  decided'[i].version \in r[2]
    <3>1. /\ i \in DOMAIN decided /\ j \in DOMAIN decided
          /\ decided'[i] = decided[i] /\ decided'[j] = decided[j]
      BY <1>2
    <3> QED
      BY <2>2, <3>1 DEF Agreeing
  <2> QED
    BY <2>1, <2>2 DEF Agreeing
<1> QED
  BY <1>3, <1>5, <1>6

LEMMA EmptyKeeps ==
  ASSUME catalog' \in DOMAIN Catalogs, request' \in Requests,
         policy' \in {"unlocked", "prefer", "require"}, policy' = "unlocked" => locked' = <<>>,
         decided' = <<>>
  PROVE  UpdateTyped' /\ DecisionsAreKnown' /\ Agreeing'
<1>1. DOMAIN decided' = {}
  OBVIOUS
<1>2. IsSequence(decided)'
  BY EmptySequence DEF IsSequence
<1> QED
  BY <1>1, <1>2 DEF UpdateTyped, DecisionsAreKnown, Agreeing

LEMMA BacktrackKeeps ==
  ASSUME UpdateTyped, UpdateInvariant, Kept, outcome = "solving",
         NEW conflict, Update!Backtrack(conflict), policy = "unlocked" => Refuted(conflict)
  PROVE  UpdateTyped' /\ UpdateInvariant'
<1>1. nogoods' = nogoods \cup {conflict}
  BY DEF Update!Backtrack
<1>2. policy' = "unlocked" => \A n \in nogoods' : Refuted(n)'
  <2> SUFFICES ASSUME policy = "unlocked", NEW n \in nogoods' PROVE Refuted(n)'
    BY DEF Kept
  <2>1. Refuted(n)
    BY <1>1 DEF UpdateInvariant, ConflictsAreReal
  <2> QED
    BY <2>1, RefutedKept
<1>3. CASE conflict \subseteq {<< <<"root">>, "root">>}
  <2>1. outcome' = "no solution" /\ decided' = <<>>
    BY <1>3 DEF Update!Backtrack
  <2>2. UpdateTyped' /\ DecisionsAreKnown' /\ Agreeing'
    BY <2>1, EmptyKeeps DEF UpdateTyped, Kept
  <2>3. policy' = "unlocked" => \A S \in SUBSET DOMAIN Update!Candidates' : ~ Update!Sound(S)'
    <3> SUFFICES ASSUME policy = "unlocked", NEW S \in SUBSET DOMAIN Update!Candidates, Update!Sound(S)
                 PROVE  FALSE
      BY LoadedKept, SoundKept DEF Kept
    <3>1. PICK d \in conflict : ~ Assigns(S, d)
      BY DEF Refuted
    <3> QED
      BY <1>3, <3>1 DEF Assigns
  <2> QED
    BY <1>2, <2>1, <2>2, <2>3 DEF UpdateInvariant, ConflictsAreReal
<1>4. CASE ~ conflict \subseteq {<< <<"root">>, "root">>}
  <2>1. PICK k \in 0..Len(decided) : decided' = SubSeq(decided, 1, k)
    BY <1>4 DEF Update!Backtrack
  <2>2. outcome' = outcome
    BY <1>4 DEF Update!Backtrack
  <2>3. UpdateTyped' /\ DecisionsAreKnown' /\ Agreeing'
    BY <2>1, PrefixKeeps DEF UpdateInvariant
  <2> QED
    BY <1>2, <2>2, <2>3 DEF UpdateInvariant, ConflictsAreReal
<1> QED
  BY <1>3, <1>4

\* The conflicts and the answer stay.
LEMMA ConflictsKept ==
  ASSUME UpdateInvariant, Kept, nogoods' = nogoods, outcome' # "no solution"
  PROVE  ConflictsAreReal'
<1> SUFFICES ASSUME policy = "unlocked", NEW n \in nogoods PROVE Refuted(n)'
  BY DEF ConflictsAreReal, Kept
<1>1. Refuted(n)
  BY DEF UpdateInvariant, ConflictsAreReal
<1> QED
  BY <1>1, RefutedKept

\* A decision that meets no conflict agrees with the others.
LEMMA AppendKeeps ==
  ASSUME UpdateTyped, UpdateInvariant, Kept, outcome = "solving",
         NEW p \in Update!Pending, NEW v, Possible(p, v),
         ~ Update!Conflicts(p, v, Update!get_dependencies(p, v)),
         decided' = Append(decided, [package |-> p, version |-> v, needs |-> Update!get_dependencies(p, v)]),
         nogoods' = nogoods, outcome' = outcome
  PROVE  UpdateTyped' /\ UpdateInvariant'
<1> DEFINE d == [package |-> p, version |-> v, needs |-> Update!get_dependencies(p, v)]
           all == Update!Decisions \cup {<<p, v>>}
           ranges == Update!Ranges \cup Update!get_dependencies(p, v)
<1>1. d.package = p /\ d.version = v /\ d.needs = Update!get_dependencies(p, v) /\ decided' = Append(decided, d)
  OBVIOUS
<1>2. Known(d)
  BY <1>1 DEF Known
<1>3. \A r \in ranges : \A x \in all : x[1] = r[1] => x[2] \in r[2]
  BY DEF Update!Conflicts
<1>4. \A i \in DOMAIN decided : <<decided[i].package, decided[i].version>> \in all /\ decided[i].needs \subseteq ranges
  BY DEF Update!Decisions, Update!Decision, Update!Ranges
<1>5. <<d.package, d.version>> \in all /\ d.needs \subseteq ranges
  BY <1>1
<1> HIDE DEF d, all, ranges
<1>6. /\ IsSequence(decided') /\ DOMAIN decided' = 1..(Len(decided) + 1)
      /\ \A i \in 1..(Len(decided) + 1) : decided'[i] = IF i \in DOMAIN decided THEN decided[i] ELSE d
  BY <1>1, AppendSequence DEF UpdateTyped
<1>7. Len(decided) \in Nat /\ DOMAIN decided = 1..Len(decided)
  BY SequenceDomain DEF UpdateTyped
<1>8. /\ \A i \in DOMAIN decided' : \/ i \in DOMAIN decided /\ decided'[i] = decided[i]
                                    \/ i = Len(decided) + 1 /\ decided'[i] = d
      /\ Len(decided) + 1 \notin DOMAIN decided
  BY <1>6, <1>7
<1>9. UpdateTyped'
  BY <1>6 DEF UpdateTyped, Kept, IsSequence
<1>10. \A i \in DOMAIN decided : decided[i].package # p
  BY PendingPackages, <1>7
<1>11. DecisionsAreKnown'
  <2>1. \A i \in DOMAIN decided' : Known(decided[i])'
    BY <1>2, <1>8, KnownKept DEF UpdateInvariant, DecisionsAreKnown
  <2>2. CASE decided = <<>>
    <3>1. p = <<"root">>
      BY <2>2, PendingPackages
    <3>2. decided'[1] = d
      BY <1>6, <1>7, <2>2
    <3> QED
      BY <1>1, <2>1, <3>1, <3>2 DEF DecisionsAreKnown
  <2>3. CASE decided # <<>>
    <3>1. 1 \in DOMAIN decided
      BY <1>7, <2>3 DEF UpdateTyped, IsSequence
    <3>2. decided'[1] = decided[1]
      BY <1>6, <1>7, <3>1
    <3> QED
      BY <2>1, <2>3, <3>2 DEF UpdateInvariant, DecisionsAreKnown
  <2> QED
    BY <2>2, <2>3
<1>12. Agreeing'
  <2>1. \A i \in DOMAIN decided' :
          <<decided'[i].package, decided'[i].version>> \in all /\ decided'[i].needs \subseteq ranges
    BY <1>4, <1>5, <1>8
  <2>2. \A i, j \in DOMAIN decided' : \A r \in decided'[j].needs :
          r[1] = decided'[i].package => decided'[i].version \in r[2]
    <3> SUFFICES ASSUME NEW i \in DOMAIN decided', NEW j \in DOMAIN decided', NEW r \in decided'[j].needs,
                        r[1] = decided'[i].package
                 PROVE  decided'[i].version \in r[2]
      OBVIOUS
    <3> DEFINE x == <<decided'[i].package, decided'[i].version>>
    <3>1. x \in all /\ r \in ranges /\ x[1] = r[1]
      BY <2>1
    <3>2. x[2] \in r[2]
      BY <1>3, <3>1
    <3> QED
      BY <3>2
  <2>3. \A i, j \in DOMAIN decided' : decided'[i].package = decided'[j].package => i = j
    BY <1>1, <1>8, <1>10 DEF UpdateInvariant, Agreeing
  <2> QED
    BY <2>2, <2>3 DEF Agreeing
<1>13. ConflictsAreReal'
  BY ConflictsKept
<1> QED
  BY <1>9, <1>11, <1>12, <1>13 DEF UpdateInvariant

LEMMA DecideKeeps ==
  ASSUME UpdateTyped, UpdateInvariant, Update!Decide
  PROVE  UpdateTyped' /\ UpdateInvariant'
<1>1. outcome = "solving" /\ Kept
  BY DEF Update!Decide, Kept
<1>2. PICK p \in Update!Pending :
        LET v == Update!choose_version(p, Update!Allowed(p))
        IN  IF v = None THEN Update!Backtrack(Update!Decisions) /\ interned' = interned
            ELSE \/ /\ Update!Unavailable(p, v)
                    /\ Update!Backtrack(Update!Decisions \cup {<<p, v>>})
                 \/ /\ outcome' = "load failed"
                    /\ UNCHANGED <<decided, nogoods, interned>>
                 \/ /\ outcome' = "views differ"
                    /\ UNCHANGED <<decided, nogoods, interned>>
                 \/ /\ ~ Update!Unavailable(p, v) /\ ~ Update!DependenciesFail(p, v)
                    /\ LET needs == Update!get_dependencies(p, v)
                       IN  IF Update!Conflicts(p, v, needs)
                           THEN Update!Backtrack(Update!Decisions \cup {<<p, v>>})
                           ELSE /\ decided' = Append(decided,
                                     [package |-> p, version |-> v, needs |-> needs])
                                /\ UNCHANGED <<nogoods, outcome>>
  BY DEF Update!Decide
<1> DEFINE v == Update!choose_version(p, Update!Allowed(p))
<1>3. CASE v = None
  <2>1. Update!Backtrack(Update!Decisions)
    BY <1>2, <1>3
  <2> QED
    BY <1>1, <1>3, <2>1, NoVersionLeft, BacktrackKeeps
<1>4. CASE Update!Unavailable(p, v) /\ Update!Backtrack(Update!Decisions \cup {<<p, v>>})
  BY <1>1, <1>4, UnavailableIsRefuted, BacktrackKeeps
<1>5. CASE outcome' \in {"load failed", "views differ"} /\ UNCHANGED <<decided, nogoods, interned>>
  <2>1. UpdateTyped'
    BY <1>1, <1>5 DEF UpdateTyped, Kept, IsSequence
  <2>2. DecisionsAreKnown' /\ Agreeing'
    BY <1>1, <1>5, KnownKept DEF UpdateInvariant, DecisionsAreKnown, Agreeing
  <2>3. ConflictsAreReal'
    BY <1>1, <1>5, ConflictsKept
  <2> QED
    BY <1>5, <2>1, <2>2, <2>3 DEF UpdateInvariant
<1>6. CASE v # None /\ ~ Update!Unavailable(p, v) /\ ~ Update!DependenciesFail(p, v)
           /\ IF Update!Conflicts(p, v, Update!get_dependencies(p, v))
              THEN Update!Backtrack(Update!Decisions \cup {<<p, v>>})
              ELSE /\ decided' = Append(decided,
                        [package |-> p, version |-> v, needs |-> Update!get_dependencies(p, v)])
                   /\ UNCHANGED <<nogoods, outcome>>
  <2>1. v = Update!choose_version(p, Update!Allowed(p))
    OBVIOUS
  <2> HIDE DEF v
  <2>2. Possible(p, v)
    BY <1>6, <2>1, ChosenIsPossible
  <2>3. CASE Update!Conflicts(p, v, Update!get_dependencies(p, v))
    BY <1>1, <1>6, <2>2, <2>3, ConflictIsRefuted, BacktrackKeeps
  <2>4. CASE ~ Update!Conflicts(p, v, Update!get_dependencies(p, v))
    BY <1>1, <1>6, <2>2, <2>4, AppendKeeps
  <2> QED
    BY <2>3, <2>4
<1> QED
  BY <1>2, <1>3, <1>4, <1>5, <1>6

(***************************************************************************)
(* A complete set of decisions                                             *)
(***************************************************************************)

Complete == decided # <<>> /\ Update!Pending = {}

\* All that is required is decided, as required.
LEMMA AllDecided ==
  ASSUME UpdateInvariant, Complete, NEW i \in DOMAIN decided, NEW r \in decided[i].needs
  PROVE  \E j \in DOMAIN decided : decided[j].package = r[1] /\ decided[j].version \in r[2]
<1>1. r \in Update!Ranges
  BY DEF Update!Ranges
<1>2. r[1] \in {d[1] : d \in Update!Decisions}
  BY <1>1 DEF Complete, Update!Pending
<1>3. PICK j \in DOMAIN decided : decided[j].package = r[1]
  BY <1>2 DEF Update!Decisions, Update!Decision
<1> QED
  BY <1>3 DEF UpdateInvariant, Agreeing

\* The decision of a key.
LEMMA KeyDecision ==
  ASSUME UpdateTyped, UpdateInvariant, NEW i \in DOMAIN decided, IsKey(decided[i].package)
  PROVE  LET p == decided[i].package
             v == decided[i].version
         IN  /\ v \in Update!loaded(p) /\ v \in DOMAIN Facts /\ Facts[v].name = Update!subject_name(p)
             /\ p[1] = "exact" => \E r \in request.roots : r.source = p
             /\ Update!Required(p) \in {None, v} /\ ~ Update!Unavailable(p, v)
             /\ decided[i].needs = Update!get_dependencies(p, v)
<1>1. Known(decided[i])
  BY DEF UpdateInvariant, DecisionsAreKnown
<1>2. decided[i].package # <<"root">> /\ decided[i].package # <<"R">> /\ decided[i].package[1] # "occupancy"
  BY DEF IsKey
<1>3. /\ decided[i].version \in Update!loaded(decided[i].package)
      /\ decided[i].package[1] = "exact" => \E r \in request.roots : r.source = decided[i].package
      /\ Update!Required(decided[i].package) \in {None, decided[i].version}
      /\ ~ Update!Unavailable(decided[i].package, decided[i].version)
      /\ decided[i].needs = Update!get_dependencies(decided[i].package, decided[i].version)
  BY <1>1, <1>2 DEF Known, Possible
<1> QED
  BY <1>3, LoadedFacts

\* Releases of one name are one release, whatever the keys: it occupies its name.
LEMMA OneOccupant ==
  ASSUME UpdateTyped, UpdateInvariant, Complete, NEW i \in DOMAIN decided, NEW j \in DOMAIN decided,
         IsKey(decided[i].package), IsKey(decided[j].package),
         Facts[decided[i].version].name = Facts[decided[j].version].name
  PROVE  decided[i].version = decided[j].version
<1> DEFINE o == <<"occupancy", Facts[decided[i].version].name>>
<1>1. <<o, {decided[i].version}>> \in decided[i].needs /\ <<o, {decided[j].version}>> \in decided[j].needs
  BY KeyDecision, KeyNeeds
<1>2. PICK k \in DOMAIN decided : decided[k].package = o /\ decided[k].version = decided[i].version
  <2> DEFINE r == <<o, {decided[i].version}>>
  <2>1. PICK k \in DOMAIN decided : decided[k].package = r[1] /\ decided[k].version \in r[2]
    BY <1>1, AllDecided
  <2> QED
    BY <2>1
<1>3. PICK m \in DOMAIN decided : decided[m].package = o /\ decided[m].version = decided[j].version
  <2> DEFINE r == <<o, {decided[j].version}>>
  <2>1. PICK x \in DOMAIN decided : decided[x].package = r[1] /\ decided[x].version \in r[2]
    BY <1>1, AllDecided
  <2> QED
    BY <2>1
<1> HIDE DEF o
<1>4. k = m
  BY <1>2, <1>3 DEF UpdateInvariant, Agreeing
<1> QED
  BY <1>2, <1>3, <1>4

\* The releases decided on that R does not bring.
Chosen(v) == \E i \in DOMAIN decided : IsKey(decided[i].package) /\ decided[i].version = v /\ ~ Update!Base(v)

LEMMA SelectedAreChosen ==
  ASSUME UpdateTyped, UpdateInvariant, NEW n, NEW v \in Update!Selected(n)
  PROVE  Chosen(v) /\ Facts[v].name = n
<1>1. PICK i \in DOMAIN decided : decided[i].version = v /\ decided[i].package \in Update!Subjects(n)
  BY DEF Update!Selected, Update!Decisions, Update!Decision
<1>2. PICK j \in DOMAIN decided :
        /\ decided[j].package = decided[i].package /\ decided[j].package[1] \notin {"root", "R", "occupancy"}
        /\ ~ Update!Base(decided[j].version) /\ Facts[decided[j].version].name = n
  BY <1>1 DEF Update!Subjects, Update!Decisions, Update!Decision
<1>3. i = j
  BY <1>2 DEF UpdateInvariant, Agreeing
<1>4. Known(decided[i])
  BY DEF UpdateInvariant, DecisionsAreKnown
<1>5. IsKey(decided[i].package)
  BY <1>2, <1>4 DEF Known, Possible
<1> QED
  BY <1>1, <1>2, <1>3, <1>5 DEF Chosen

LEMMA ChosenAreSelected ==
  ASSUME UpdateTyped, UpdateInvariant, NEW v, Chosen(v)
  PROVE  /\ v \in DOMAIN Facts /\ Facts[v].name \in Update!SelectedNames
         /\ v \in Update!Selected(Facts[v].name)
<1>1. PICK i \in DOMAIN decided : IsKey(decided[i].package) /\ decided[i].version = v /\ ~ Update!Base(v)
  BY DEF Chosen
<1>2. v \in DOMAIN Facts
  BY <1>1, KeyDecision
<1> DEFINE d == <<decided[i].package, v>>
<1>3. d \in Update!Decisions /\ d[1] = decided[i].package /\ d[2] = v
  BY <1>1 DEF Update!Decisions, Update!Decision
<1>4. d[1][1] \notin {"root", "R", "occupancy"}
  BY <1>1 DEF IsKey
<1> HIDE DEF d
<1>5. d[1] \in Update!Subjects(Facts[v].name)
  BY <1>1, <1>3, <1>4 DEF Update!Subjects
<1>6. v \in Update!Selected(Facts[v].name)
  BY <1>3, <1>5 DEF Update!Selected
<1>7. Facts[v].name \in Update!SelectedNames
  BY <1>2, <1>5 DEF Update!SelectedNames
<1> QED
  BY <1>2, <1>6, <1>7

LEMMA OneSelected ==
  ASSUME UpdateTyped, UpdateInvariant, Complete, NEW n, NEW v \in Update!Selected(n), NEW w \in Update!Selected(n)
  PROVE  v = w
<1>1. Chosen(v) /\ Chosen(w) /\ Facts[v].name = n /\ Facts[w].name = n
  BY SelectedAreChosen
<1> QED
  BY <1>1, OneOccupant DEF Chosen

LEMMA SelectedNamesAreOccupied ==
  ASSUME UpdateTyped, UpdateInvariant, NEW n \in Update!SelectedNames
  PROVE  Update!Selected(n) # {}
<1>1. PICK s \in Update!Subjects(n) : TRUE
  BY DEF Update!SelectedNames
<1>2. PICK d \in Update!Decisions : d[1] = s
  BY DEF Update!Subjects
<1> QED
  BY <1>1, <1>2 DEF Update!Selected

LEMMA NoNameConflict ==
  ASSUME UpdateTyped, UpdateInvariant, Complete, NEW n \in Update!SelectedNames
  PROVE  ~ (Update!Cardinality(Update!Selected(n)) > 1)
<1>1. PICK v : v \in Update!Selected(n)
  BY SelectedNamesAreOccupied
<1>2. Update!Selected(n) = {v}
  BY <1>1, OneSelected
<1>3. Cardinality({v}) = 1
  BY FS_Singleton
<1>4. Update!Cardinality({v}) = Cardinality({v})
  BY DEF Update!Cardinality, Cardinality
<1> QED
  BY <1>2, <1>3, <1>4

\* The answer is the chosen releases.
LEMMA IdentitiesAreChosen ==
  ASSUME UpdateTyped, UpdateInvariant, Complete, NEW v
  PROVE  v \in Update!Identities <=> Chosen(v)
<1> DEFINE id(n) == CHOOSE i \in Update!Selected(n) : TRUE
<1>1. \A n \in Update!SelectedNames : Update!Solution[n].identity = id(n)
  BY DEF Update!Solution, Update!projected_package
<1>2. DOMAIN Update!Solution = Update!SelectedNames
  BY DEF Update!Solution
<1>3. v \in Update!Identities <=> \E n \in Update!SelectedNames : v = id(n)
  BY <1>1, <1>2 DEF Update!Identities
<1>4. \A n \in Update!SelectedNames : id(n) \in Update!Selected(n)
  BY SelectedNamesAreOccupied
<1> HIDE DEF id
<1>5. ASSUME NEW n \in Update!SelectedNames, v = id(n) PROVE Chosen(v)
  BY <1>4, <1>5, SelectedAreChosen
<1>6. ASSUME Chosen(v) PROVE \E n \in Update!SelectedNames : v = id(n)
  BY <1>4, <1>6, ChosenAreSelected, OneSelected
<1> QED
  BY <1>3, <1>5, <1>6

(***************************************************************************)
(* A complete set of decisions is a solution                               *)
(***************************************************************************)

\* A requirement whose key is decided as it requires is satisfied by the answer.
LEMMA DecidedIsSatisfied ==
  ASSUME UpdateTyped, UpdateInvariant, Complete, NEW e, Asked(e), e.source # <<"git">>,
         NEW i \in DOMAIN decided, decided[i].package = Update!subject_for_package(e),
         decided[i].version \in Update!ranges_for_subject(Update!subject_for_package(e), e.allowed)
  PROVE  Update!Satisfied(Update!Identities, e)
<1> DEFINE s == Update!subject_for_package(e)
           v == decided[i].version
           I == Update!Identities
<1>1. CASE e.name = "R"
  BY <1>1, SubjectOfR DEF Update!ranges_for_subject, Update!Satisfied
<1>2. CASE e.name # "R"
  <2>1. IsKey(s) /\ Update!subject_name(s) = e.name
    BY <1>2, Subjects
  <2>2. v \in DOMAIN Facts /\ Facts[v].name = e.name /\ v \in Update!loaded(s)
    BY <2>1, KeyDecision
  <2>3. Facts[v].version \in e.allowed
    <3>1. s # <<"R">>
      BY <2>1 DEF IsKey
    <3> QED
      BY <3>1 DEF Update!ranges_for_subject
  <2>4. CASE e.source = <<"any">> /\ e.name \in BaseNames /\ Update!exact_root_identity(e.name) = {}
    <3>1. s = <<"installed", e.name>>
      BY <1>2, <2>4 DEF Update!subject_for_package
    <3>2. Update!Base(v)
      <4>1. s[1] = "installed" /\ s[2] \in BaseNames
        BY <2>4, <3>1
      <4> QED
        BY <2>1, <2>2, <4>1, LoadedFacts
    <3>3. ASSUME NEW w \in Update!OfName(I, e.name) PROVE FALSE
      <4>1. Chosen(w) /\ Facts[w].name = e.name
        BY IdentitiesAreChosen DEF Update!OfName
      <4>2. PICK j \in DOMAIN decided : IsKey(decided[j].package) /\ decided[j].version = w /\ ~ Update!Base(w)
        BY <4>1 DEF Chosen
      <4>3. w = v
        BY <2>1, <2>2, <4>1, <4>2, OneOccupant
      <4> QED
        BY <3>2, <4>2, <4>3
    <3> QED
      BY <1>2, <2>2, <2>3, <2>4, <3>2, <3>3 DEF Update!Satisfied
  <2>5. CASE ~ (e.source = <<"any">> /\ e.name \in BaseNames /\ Update!exact_root_identity(e.name) = {})
    <3> HIDE DEF s
    <3>1. s = Update!subject_for_package(e)
      BY DEF s
    <3>2. ~ (s[1] = "installed" /\ s[2] \in BaseNames)
      <4> SUFFICES ASSUME s[1] = "installed", s[2] \in BaseNames PROVE FALSE
        OBVIOUS
      <4>1. e.source = <<"any">> /\ s = <<"installed", e.name>> /\ Update!exact_root_identity(e.name) = {}
        BY <1>2, <3>1, Subjects
      <4> QED
        BY <2>5, <4>1
    <3>3. ~ Update!Base(v)
      BY <2>1, <2>2, <3>2, LoadedFacts
    <3>4. v \in Update!OfName(I, e.name)
      <4>1. Chosen(v)
        BY <2>1, <3>1, <3>3 DEF Chosen
      <4> QED
        BY <2>2, <4>1, IdentitiesAreChosen DEF Update!OfName
    <3>5. CASE e.source = <<"any">>
      <4>1. e.source[1] = "any"
        BY <3>5
      <4> QED
        BY <1>2, <2>3, <2>5, <3>4, <4>1 DEF Update!Satisfied
    <3>6. CASE e.source = <<"registry", e.source[2]>> /\ s = <<"registry", e.source[2], e.name>>
      <4>1. Facts[v].namespace = e.source[2]
        BY <2>1, <2>2, <3>3, <3>6, LoadedOffers
      <4>2. e.source[1] = "registry" /\ e.source # <<"any">>
        BY <3>6
      <4> QED
        BY <1>2, <2>3, <3>4, <4>1, <4>2 DEF Update!Satisfied
    <3>7. CASE e.source = <<"repository", e.source[2]>> /\ s = <<"repository", e.source[2], e.name>>
      <4>1. e.source[2] \in Update!Offered(v)
        BY <2>1, <2>2, <3>3, <3>7, LoadedOffers
      <4>2. e.source[1] = "repository" /\ e.source # <<"any">>
        BY <3>7
      <4> QED
        BY <1>2, <2>3, <3>4, <4>1, <4>2 DEF Update!Satisfied
    <3>8. CASE e.source = <<"exact", e.source[2]>> /\ s = e.source
      <4>1. e.source[2] = v
        BY <2>1, <2>2, <3>3, <3>8, LoadedOffers
      <4>2. e.source[1] = "exact" /\ e.source # <<"any">>
        BY <3>8
      <4> QED
        BY <1>2, <2>3, <3>4, <4>1, <4>2 DEF Update!Satisfied
    <3> QED
      BY <1>2, <3>1, <3>5, <3>6, <3>7, <3>8, Subjects
  <2> QED
    BY <2>4, <2>5
<1> QED
  BY <1>1, <1>2

LEMMA RequirementIsMet ==
  ASSUME UpdateTyped, UpdateInvariant, Complete, NEW e, Asked(e), e.source # <<"git">>, NEW i \in DOMAIN decided,
         <<Update!subject_for_package(e),
           Update!ranges_for_subject(Update!subject_for_package(e), e.allowed)>> \in decided[i].needs
  PROVE  /\ Update!Satisfied(Update!Identities, e)
         /\ \E j \in DOMAIN decided : decided[j].package = Update!subject_for_package(e)
<1> DEFINE r == <<Update!subject_for_package(e),
                  Update!ranges_for_subject(Update!subject_for_package(e), e.allowed)>>
<1>1. PICK j \in DOMAIN decided : decided[j].package = r[1] /\ decided[j].version \in r[2]
  BY AllDecided
<1>2. /\ decided[j].package = Update!subject_for_package(e)
      /\ decided[j].version \in Update!ranges_for_subject(Update!subject_for_package(e), e.allowed)
  BY <1>1
<1> QED
  BY <1>2, DecidedIsSatisfied

\* The first decision is the root, which requires R and the roots of the request.
LEMMA RootIsDecided ==
  ASSUME UpdateTyped, UpdateInvariant, Complete
  PROVE  /\ 1 \in DOMAIN decided /\ \A r \in request.roots : r.source # <<"git">>
         /\ decided[1].needs = Update!get_dependencies(<<"root">>, decided[1].version)
<1>1. 1 \in DOMAIN decided
  BY SequenceDomain DEF Complete, UpdateTyped, IsSequence
<1>2. decided[1].package = <<"root">> /\ Known(decided[1])
  BY <1>1 DEF Complete, UpdateInvariant, DecisionsAreKnown
<1> QED
  BY <1>1, <1>2 DEF Known, Possible, IsKey

LEMMA RootsAreMet ==
  ASSUME UpdateTyped, UpdateInvariant, Complete, NEW r \in request.roots
  PROVE  /\ Update!Satisfied(Update!Identities, r)
         /\ \E j \in DOMAIN decided : decided[j].package = Update!subject_for_package(r)
<1>1. Asked(r) /\ r.source # <<"git">>
  BY RootIsDecided DEF Asked
<1>2. <<Update!subject_for_package(r),
        Update!ranges_for_subject(Update!subject_for_package(r), r.allowed)>> \in decided[1].needs
  BY RootIsDecided, RootNeeds
<1>3. 1 \in DOMAIN decided
  BY RootIsDecided
<1> QED
  BY <1>1, <1>2, <1>3, RequirementIsMet

LEMMA RIsAllowed ==
  ASSUME UpdateTyped, UpdateInvariant, Complete
  PROVE  RVersion \in request.allowed
<1> DEFINE r == << <<"R">>, Update!ranges_for_subject(<<"R">>, request.allowed)>>
<1>1. r \in decided[1].needs /\ 1 \in DOMAIN decided
  BY RootIsDecided, RootNeeds
<1>2. PICK j \in DOMAIN decided : decided[j].package = r[1] /\ decided[j].version \in r[2]
  BY <1>1, AllDecided
<1>3. decided[j].version \in Update!ranges_for_subject(<<"R">>, request.allowed)
  BY <1>2
<1> QED
  BY <1>3 DEF Update!ranges_for_subject

\* An edge that counts for some key of a chosen release is satisfied.
LEMMA EdgeIsMet ==
  ASSUME UpdateTyped, UpdateInvariant, Complete, NEW i \in DOMAIN decided, IsKey(decided[i].package),
         NEW e \in Update!Requirements(decided[i].package, decided[i].version)
  PROVE  Update!Satisfied(Update!Identities, e)
<1> DEFINE p == decided[i].package
           v == decided[i].version
<1>1. v \in DOMAIN Facts /\ ~ Update!Unavailable(p, v) /\ decided[i].needs = Update!get_dependencies(p, v)
  BY KeyDecision
<1>2. p # <<"root">>
  BY DEF IsKey
<1>3. e.source # <<"git">>
  BY <1>1, <1>2 DEF Update!Unavailable
<1>4. e \in Facts[v].edges
  BY KeyNeeds DEF Update!project_dependency_edges
<1>5. Asked(e)
  BY <1>1, <1>4 DEF Asked
<1>6. <<Update!subject_for_package(e),
        Update!ranges_for_subject(Update!subject_for_package(e), e.allowed)>> \in decided[i].needs
  BY <1>1, KeyNeeds
<1> QED
  BY <1>3, <1>5, <1>6, RequirementIsMet

\* An edge that counts is one for some key of the release: if it is suggested, for the root's.
LEMMA FollowedIsRequired ==
  ASSUME UpdateTyped, UpdateInvariant, Complete, NEW v, Chosen(v), NEW e \in Followed(v, request.roots)
  PROVE  \E j \in DOMAIN decided : /\ IsKey(decided[j].package) /\ decided[j].version = v
                                   /\ e \in Update!Requirements(decided[j].package, v)
<1>1. PICK i \in DOMAIN decided : IsKey(decided[i].package) /\ decided[i].version = v
  BY DEF Chosen
<1>2. CASE e.kind \in {"depends", "imports", "linking"}
  <2>1. e \in Update!Requirements(decided[i].package, v)
    BY <1>1, <1>2, KeyNeeds DEF Followed, Update!project_dependency_edges
  <2> QED
    BY <1>1, <2>1
<1>3. CASE e.kind = "suggests"
  <2>1. PICK r \in request.roots : r.name = Facts[v].name /\ r.suggests
    BY <1>3 DEF Followed
  <2>2. Asked(r) /\ r.source # <<"git">> /\ r.name # "R"
    BY RootIsDecided, UpdateAssumption DEF Asked, UpdateTyped
  <2>3. PICK j \in DOMAIN decided : decided[j].package = Update!subject_for_package(r)
    BY RootsAreMet
  <2>4. IsKey(decided[j].package) /\ Update!subject_name(decided[j].package) = r.name
    BY <2>2, <2>3, Subjects
  <2>5. Facts[decided[j].version].name = Facts[v].name
    BY <2>1, <2>4, KeyDecision
  <2>6. decided[j].version = v
    BY <1>1, <2>4, <2>5, OneOccupant
  <2>7. Update!expansion_for_subject(decided[j].package)
    BY <2>1, <2>3 DEF Update!expansion_for_subject
  <2>8. e \in Update!Requirements(decided[j].package, v)
    BY <1>3, <2>4, <2>7, KeyNeeds DEF Followed, Update!project_dependency_edges
  <2> QED
    BY <2>4, <2>6, <2>8
<1> QED
  BY <1>2, <1>3 DEF Followed

LEMMA CompleteIsSound ==
  ASSUME UpdateTyped, UpdateInvariant, Complete
  PROVE  Update!Sound(Update!Identities)
<1> DEFINE I == Update!Identities
<1>1. \A v, w \in I : Facts[v].name = Facts[w].name => v = w
  BY IdentitiesAreChosen, OneOccupant DEF Chosen
<1>2. RVersion \in request.allowed
  BY RIsAllowed
<1>3. \A r \in request.roots : Update!Satisfied(I, r)
  BY RootsAreMet
<1>4. ASSUME NEW v \in I
      PROVE  /\ Update!Offered(v) # {} \/ \E r \in request.roots : r.source = <<"exact", v>>
             /\ \A e \in Facts[v].edges :
                 \/ Update!Satisfied(I, e)
                 \/ e.kind = "suggests" /\ ~ \E r \in request.roots : r.name = Facts[v].name /\ r.suggests
                 \/ e.kind = "enhances"
             /\ \/ request.cutoff = 0
                \/ Facts[v].date \in 1..request.cutoff
                \/ \E k \in DOMAIN locked : locked[k] = v
  <2>1. PICK i \in DOMAIN decided : IsKey(decided[i].package) /\ decided[i].version = v /\ ~ Update!Base(v)
    BY IdentitiesAreChosen DEF Chosen
  <2> DEFINE p == decided[i].package
  <2>2. /\ v \in DOMAIN Facts /\ v \in Update!loaded(p) /\ Facts[v].name = Update!subject_name(p)
        /\ p[1] = "exact" => \E r \in request.roots : r.source = p
        /\ Update!Required(p) \in {None, v} /\ ~ Update!Unavailable(p, v)
    BY <2>1, KeyDecision
  <2> HIDE DEF p
  <2>3. IsKey(p)
    BY <2>1 DEF p
  <2>4. Update!Offered(v) # {} \/ \E r \in request.roots : r.source = <<"exact", v>>
    <3>1. CASE p[1] = "exact"
      <4>1. PICK r \in request.roots : r.source = p
        BY <2>2, <3>1
      <4>2. p[2] = v
        BY <2>1, <2>2, <2>3, <3>1, LoadedOffers
      <4>3. r.source = <<"exact", r.source[2]>>
        BY <3>1, <4>1, SourceForms DEF Asked
      <4> QED
        BY <4>1, <4>2, <4>3
    <3>2. CASE p[1] # "exact"
      BY <2>1, <2>2, <2>3, <3>2, LoadedOffers
    <3> QED
      BY <3>1, <3>2
  <2>5. ASSUME NEW e \in Facts[v].edges, e.kind # "enhances",
               e.kind = "suggests" => \E r \in request.roots : r.name = Facts[v].name /\ r.suggests
        PROVE  Update!Satisfied(I, e)
    <3>1. e.kind \in {"depends", "imports", "linking", "suggests"}
      BY <2>2, <2>5, UpdateAssumption
    <3>2. e \in Followed(v, request.roots) /\ Chosen(v)
      BY <2>1, <2>5, <3>1 DEF Followed, Chosen
    <3> QED
      BY <3>2, FollowedIsRequired, EdgeIsMet
  <2>6. \/ request.cutoff = 0 \/ Facts[v].date \in 1..request.cutoff
        \/ \E k \in DOMAIN locked : locked[k] = v
    <3> SUFFICES ASSUME request.cutoff # 0, ~ \E k \in DOMAIN locked : locked[k] = v
                 PROVE  Facts[v].date \in 1..request.cutoff
      OBVIOUS
    <3>1. ~ Update!Rejected(p, v)
      BY <2>2 DEF Update!Unavailable
    <3>2. p # <<"root">> /\ p # <<"R">> /\ p[1] # "occupancy"
      BY <2>3 DEF IsKey
    <3>3. v \notin Update!publication_rejections({v}, Update!LockedIdentity(p))
      BY <2>2, <3>1, <3>2 DEF Update!Rejected
    <3>4. v # Update!LockedIdentity(p)
      BY <2>2, UpdateAssumption DEF Update!LockedIdentity
    <3>5. Facts[v].date # 0 /\ ~ (Facts[v].date > request.cutoff)
      BY <2>1, <3>3, <3>4 DEF Update!publication_rejections
    <3>6. Facts[v].date \in Nat /\ request.cutoff \in Nat
      BY <2>2, UpdateAssumption DEF UpdateTyped
    <3> QED
      BY <3>5, <3>6
  <2> QED
    BY <2>4, <2>5, <2>6
<1> QED
  BY <1>1, <1>2, <1>3, <1>4 DEF Update!Sound

LEMMA InvariantAnswers ==
  ASSUME UpdateTyped, UpdateInvariant
  PROVE  Update!AnswerIsTheReferences
<1>1. outcome = "solved" => Update!Sound(Update!Identities)
  BY CompleteIsSound DEF UpdateInvariant, Complete
<1> QED
  BY <1>1 DEF UpdateInvariant, ConflictsAreReal, Update!AnswerIsTheReferences

LEMMA SolveKeeps ==
  ASSUME UpdateTyped, UpdateInvariant, Update!solve
  PROVE  UpdateTyped' /\ UpdateInvariant'
<1>1. /\ outcome = "solving" /\ Complete /\ Kept
      /\ decided' = decided /\ nogoods' = nogoods
      /\ outcome' = IF \E n \in Update!SelectedNames : Update!Cardinality(Update!Selected(n)) > 1
                    THEN "name conflict" ELSE "solved"
  BY DEF Update!solve, Complete, Kept
<1>2. outcome' = "solved"
  BY <1>1, NoNameConflict
<1>3. UpdateTyped'
  BY <1>1 DEF UpdateTyped, Kept, IsSequence
<1>4. DecisionsAreKnown' /\ Agreeing'
  BY <1>1, KnownKept DEF UpdateInvariant, DecisionsAreKnown, Agreeing
<1>5. ConflictsAreReal'
  BY <1>1, <1>2, ConflictsKept
<1>6. decided' # <<>> /\ Update!Pending' = {}
  BY <1>1 DEF Complete, Update!Pending, Update!Ranges, Update!Decisions, Update!Decision
<1> QED
  BY <1>2, <1>3, <1>4, <1>5, <1>6 DEF UpdateInvariant

\* The answer of a resolution stays as it is.
LEMMA AnswerKept ==
  ASSUME UpdateTyped, UpdateInvariant,
         UNCHANGED <<catalog, request, policy, locked, decided, nogoods, outcome>>
  PROVE  UpdateTyped' /\ UpdateInvariant'
<1>1. Kept
  BY DEF Kept
<1>2. UpdateTyped'
  BY DEF UpdateTyped, IsSequence
<1>3. DecisionsAreKnown' /\ Agreeing'
  BY <1>1, KnownKept DEF UpdateInvariant, DecisionsAreKnown, Agreeing
<1>4. ConflictsAreReal'
  BY <1>1, LoadedKept, SoundKept, RefutedKept DEF UpdateInvariant, ConflictsAreReal
<1>5. Update!Pending' = Update!Pending
  BY DEF Update!Pending, Update!Ranges, Update!Decisions, Update!Decision
<1> QED
  BY <1>2, <1>3, <1>4, <1>5 DEF UpdateInvariant

\* A resolution begins without decisions.
LEMMA FreshStart ==
  ASSUME catalog' \in DOMAIN Catalogs, request' \in Requests,
         policy' \in {"unlocked", "prefer", "require"}, policy' = "unlocked" => locked' = <<>>,
         decided' = <<>>, nogoods' = {}, outcome' = "solving"
  PROVE  UpdateTyped' /\ UpdateInvariant'
<1>1. UpdateTyped' /\ DecisionsAreKnown' /\ Agreeing'
  BY EmptyKeeps
<1> QED
  BY <1>1 DEF UpdateInvariant, ConflictsAreReal

LEMMA UpdateKeeps ==
  ASSUME UpdateTyped, UpdateInvariant, Update!Next
  PROVE  UpdateTyped' /\ UpdateInvariant'
<1>1. CASE Update!Solve
  BY <1>1, DecideKeeps, SolveKeeps DEF Update!Solve
<1>2. CASE Update!WriteLock
  BY <1>2, AnswerKept DEF Update!WriteLock, Update!solverVars
<1>3. CASE Update!ResolveAgain
  <2>1. PICK c \in catalog..Len(Catalogs), r \in Requests, pol \in {"prefer", "require"} :
          \E ids : Update!Begin(c, r, pol, ids)
    BY <1>3 DEF Update!ResolveAgain
  <2>2. c \in DOMAIN Catalogs
    BY UpdateAssumption DEF UpdateTyped
  <2> QED
    BY <2>1, <2>2, FreshStart DEF Update!Begin
<1>4. CASE Update!Conclude
  BY <1>4, AnswerKept DEF Update!Conclude, Update!solverVars
<1>5. CASE Update!Terminating
  BY <1>5, AnswerKept DEF Update!Terminating, Update!vars, Update!solverVars
<1> QED
  BY <1>1, <1>2, <1>3, <1>4, <1>5 DEF Update!Next

(***************************************************************************)
(* The lock of a solution                                                  *)
(***************************************************************************)

LockedIds == {p.identity : p \in lockfile.packages}

\* A requirement on a repository is recorded with the package it selected.
Recorded(e, packages) ==
    e.source[1] = "repository" => \E q \in packages : Update!Name(q) = e.name /\ e.source[2] \in q.visible

\* The names of the roots that select a package.
RootNames(roots) ==
    {r.name : r \in {q \in roots : ~ (q.source = <<"any">> /\ q.name \in BaseNames \cup {"R"})}}

\* What a lock must say for its solution to be found again.
GoodLock(l) ==
    /\ \A p, q \in l.packages : Update!Name(p) = Update!Name(q) => p = q
    /\ \A p \in l.packages : p.identity \in DOMAIN Facts /\ ~ Update!Base(p.identity)
    /\ \A p \in l.packages : \A e \in p.edges : \E d \in Followed(p.identity, l.request.roots) : d.name = e[2]
    /\ \A p \in l.packages : \A e \in Followed(p.identity, l.request.roots) : Recorded(e, l.packages)
    /\ \A r \in l.request.roots : Recorded(r, l.packages)
    /\ {Update!Name(p) : p \in l.packages} \subseteq
          Update!mark_reachable(l.packages, RootNames(l.request.roots))

\* A solution that is in the catalogue.
Fits(S) == S \in SUBSET DOMAIN Update!Candidates /\ Update!Sound(S)

LEMMA SolutionFields ==
  ASSUME NEW n \in Update!SelectedNames
  PROVE  /\ n \in DOMAIN Update!Solution /\ DOMAIN Update!Solution = Update!SelectedNames
         /\ Update!Solution[n].identity = CHOOSE i \in Update!Selected(n) : TRUE
         /\ Update!Solution[n].edges =
               Update!project_dependency_edges(Update!Solution[n].identity,
                  \E s \in Update!Subjects(n) : Update!expansion_for_subject(s))
         /\ Update!Solution[n].visible =
               {o.repository : o \in UNION {Update!applicable_occurrences(Update!Solution[n].identity, s) :
                                              s \in Update!Subjects(n)}}
<1> DEFINE id == CHOOSE i \in Update!Selected(n) : TRUE
           edges == Update!project_dependency_edges(id,
                        \E s \in Update!Subjects(n) : Update!expansion_for_subject(s))
           visible == {o.repository : o \in UNION {Update!applicable_occurrences(id, s) : s \in Update!Subjects(n)}}
<1>1. DOMAIN Update!Solution = Update!SelectedNames /\ Update!Solution[n] = Update!projected_package(n)
  BY DEF Update!Solution
<1>2. Update!projected_package(n) = [identity |-> id, edges |-> edges, visible |-> visible]
  BY Zenon DEF Update!projected_package
<1>3. Update!Solution[n].identity = id
  <2> HIDE DEF id, edges, visible
  <2> QED
    BY <1>1, <1>2
<1>4. Update!Solution[n].edges = edges /\ Update!Solution[n].visible = visible
  <2> HIDE DEF id, edges, visible
  <2> QED
    BY <1>1, <1>2
<1> QED
  BY <1>1, <1>3, <1>4

\* The package of a selected name.
LEMMA SolutionIdentity ==
  ASSUME UpdateTyped, UpdateInvariant, Complete, NEW n \in Update!SelectedNames
  PROVE  LET v == Update!Solution[n].identity
         IN  Chosen(v) /\ Facts[v].name = n /\ v \in Update!Selected(n)
<1>1. Update!Solution[n].identity \in Update!Selected(n)
  BY SolutionFields, SelectedNamesAreOccupied
<1> QED
  BY <1>1, SelectedAreChosen

\* The keys a name was reached through are decisions for its release.
LEMMA SubjectsAreKeys ==
  ASSUME UpdateTyped, UpdateInvariant, NEW n, NEW s \in Update!Subjects(n)
  PROVE  /\ IsKey(s) /\ Update!subject_name(s) = n
         /\ \E i \in DOMAIN decided : decided[i].package = s
<1>1. PICK i \in DOMAIN decided :
        /\ decided[i].package = s /\ s[1] \notin {"root", "R", "occupancy"}
        /\ Facts[decided[i].version].name = n
  BY DEF Update!Subjects, Update!Decisions, Update!Decision
<1>2. Known(decided[i])
  BY DEF UpdateInvariant, DecisionsAreKnown
<1>3. IsKey(s)
  BY <1>1, <1>2 DEF Known, Possible
<1> QED
  BY <1>1, <1>3, KeyDecision

\* An edge of a package of the solution counts in the request.
LEMMA SolutionEdges ==
  ASSUME UpdateTyped, UpdateInvariant, Complete, NEW n \in Update!SelectedNames,
         NEW e \in Update!Solution[n].edges
  PROVE  e \in Followed(Update!Solution[n].identity, request.roots)
<1> DEFINE v == Update!Solution[n].identity
<1>1. Facts[v].name = n
  BY SolutionIdentity
<1>2. e \in Facts[v].edges
  BY SolutionFields DEF Update!project_dependency_edges
<1>3. CASE e.kind = "suggests"
  <2>1. PICK s \in Update!Subjects(n) : Update!expansion_for_subject(s)
    BY <1>3, SolutionFields DEF Update!project_dependency_edges
  <2>2. PICK r \in request.roots : r.suggests /\ Update!subject_for_package(r) = s
    BY <2>1 DEF Update!expansion_for_subject
  <2>3. Asked(r) /\ r.source # <<"git">> /\ r.name # "R"
    BY RootIsDecided, UpdateAssumption DEF Asked, UpdateTyped
  <2>4. Update!subject_name(s) = r.name
    BY <2>2, <2>3, Subjects
  <2>5. r.name = n
    BY <2>1, <2>4, SubjectsAreKeys
  <2> QED
    BY <1>1, <1>2, <1>3, <2>2, <2>5 DEF Followed
<1>4. CASE e.kind # "suggests"
  BY <1>2, <1>4, SolutionFields DEF Update!project_dependency_edges, Followed
<1> QED
  BY <1>3, <1>4

\* A repository that a decided key names is recorded.
LEMMA RepositoryIsVisible ==
  ASSUME UpdateTyped, UpdateInvariant, Complete, NEW j \in DOMAIN decided, NEW r, NEW n,
         decided[j].package = <<"repository", r, n>>
  PROVE  n \in Update!SelectedNames /\ r \in Update!Solution[n].visible
<1> DEFINE s == <<"repository", r, n>>
           v == decided[j].version
<1>1. IsKey(s) /\ Update!subject_name(s) = n /\ s[1] = "repository" /\ s[2] = r
  BY DEF IsKey, Update!subject_name
<1>2. v \in Update!loaded(s) /\ v \in DOMAIN Facts /\ Facts[v].name = n
  BY <1>1, KeyDecision
<1>3. v \in DOMAIN Update!Candidates /\ ~ Update!Base(v)
  BY <1>1, <1>2, LoadedFacts
<1>4. Chosen(v)
  BY <1>1, <1>3 DEF Chosen
<1>5. n \in Update!SelectedNames /\ v \in Update!Selected(n)
  BY <1>2, <1>4, ChosenAreSelected
<1>6. Update!Solution[n].identity = v
  BY <1>5, SolutionIdentity, OneSelected
<1>7. s \in Update!Subjects(n)
  <2> DEFINE d == <<s, v>>
  <2>1. d \in Update!Decisions /\ d[1] = s /\ d[2] = v
    BY DEF Update!Decisions, Update!Decision
  <2> HIDE DEF d
  <2>2. d[1][1] \notin {"root", "R", "occupancy"}
    BY <2>1
  <2> QED
    BY <1>2, <1>3, <2>1, <2>2 DEF Update!Subjects
<1>8. PICK o \in Update!applicable_occurrences(v, s) : o.repository = r
  <2>1. Facts[v].exposure # "runtime"
    BY <1>2, <1>3, UpdateAssumption
  <2>2. PICK o \in Update!applicable_occurrences(v, s) : TRUE
    BY <1>1, <1>2, <2>1, LoadedFacts DEF Update!is_eligible_for
  <2> QED
    BY <1>1, <2>2 DEF Update!applicable_occurrences
<1> QED
  BY <1>5, <1>6, <1>7, <1>8, SolutionFields

LEMMA ChosenAreListed ==
  ASSUME UpdateTyped, UpdateInvariant, NEW v, Chosen(v)
  PROVE  v \in DOMAIN Update!Candidates /\ v \in DOMAIN Facts /\ ~ Update!Base(v)
<1>1. PICK i \in DOMAIN decided : IsKey(decided[i].package) /\ decided[i].version = v /\ ~ Update!Base(v)
  BY DEF Chosen
<1>2. v \in Update!loaded(decided[i].package) /\ v \in DOMAIN Facts
  BY <1>1, KeyDecision
<1> QED
  BY <1>1, <1>2, LoadedFacts

LEMMA AnswerFits ==
  ASSUME UpdateTyped, UpdateInvariant, Complete
  PROVE  Fits(Update!Identities)
BY CompleteIsSound, IdentitiesAreChosen, ChosenAreListed DEF Fits

\* A requirement that a decision made is recorded in the solution.
LEMMA RequirementIsRecorded ==
  ASSUME UpdateTyped, UpdateInvariant, Complete, NEW e, Asked(e), e.source # <<"git">>, e.name # "R",
         NEW j \in DOMAIN decided, decided[j].package = Update!subject_for_package(e),
         e.source[1] = "repository"
  PROVE  e.name \in Update!SelectedNames /\ e.source[2] \in Update!Solution[e.name].visible
<1>1. decided[j].package = <<"repository", e.source[2], e.name>>
  <2> DEFINE s == Update!subject_for_package(e)
  <2>1. s = Update!subject_for_package(e)
    OBVIOUS
  <2> HIDE DEF s
  <2> QED
    BY <2>1, Subjects
<1> QED
  BY <1>1, RepositoryIsVisible

LEMMA WrittenLock ==
  ASSUME UpdateTyped, UpdateInvariant, Complete, NEW l,
         l = [packages |-> Update!from_resolution(Update!Solution), request |-> request],
         Update!consume_composed_environment(l, request)
  PROVE  GoodLock(l) /\ {p.identity : p \in l.packages} = Update!Identities
<1> DEFINE pkg(n) == [identity |-> Update!Solution[n].identity,
                      edges    |-> Update!LockedEdges(Update!Solution[n].edges, DOMAIN Update!Solution),
                      visible  |-> Update!Solution[n].visible]
<1>1. l.packages = {pkg(n) : n \in DOMAIN Update!Solution} /\ l.request = request
  BY DEF Update!from_resolution
<1>2. DOMAIN Update!Solution = Update!SelectedNames
  BY DEF Update!Solution
<1>3. ASSUME NEW n \in Update!SelectedNames
      PROVE  LET v == Update!Solution[n].identity
             IN  /\ pkg(n) \in l.packages /\ pkg(n).identity = v /\ pkg(n).visible = Update!Solution[n].visible
                 /\ pkg(n).edges = Update!LockedEdges(Update!Solution[n].edges, DOMAIN Update!Solution)
                 /\ Update!Name(pkg(n)) = n /\ Chosen(v) /\ Facts[v].name = n
  BY <1>1, <1>2, SolutionIdentity DEF Update!Name
<1>4. \A p \in l.packages : \E n \in Update!SelectedNames : p = pkg(n)
  BY <1>1, <1>2
<1> HIDE DEF pkg
<1>5. {p.identity : p \in l.packages} = Update!Identities
  BY <1>2, <1>3, <1>4 DEF Update!Identities
<1>6. \A p, q \in l.packages : Update!Name(p) = Update!Name(q) => p = q
  BY <1>3, <1>4
<1>7. \A p \in l.packages : p.identity \in DOMAIN Facts /\ ~ Update!Base(p.identity)
  BY <1>3, <1>4, ChosenAreListed
<1>8. ASSUME NEW p \in l.packages, NEW e \in p.edges
      PROVE  \E d \in Followed(p.identity, l.request.roots) : d.name = e[2]
  <2>1. PICK n \in Update!SelectedNames : p = pkg(n)
    BY <1>4
  <2>2. PICK d \in Update!Solution[n].edges : d.name = e[2]
    BY <1>3, <2>1 DEF Update!LockedEdges
  <2> QED
    BY <1>1, <1>3, <2>1, <2>2, SolutionEdges
<1>9. ASSUME NEW e, Asked(e), e.source # <<"git">>, NEW j \in DOMAIN decided,
             decided[j].package = Update!subject_for_package(e), e.name # "R"
      PROVE  Recorded(e, l.packages)
  <2> SUFFICES ASSUME e.source[1] = "repository"
               PROVE  \E q \in l.packages : Update!Name(q) = e.name /\ e.source[2] \in q.visible
    BY DEF Recorded
  <2>1. e.name \in Update!SelectedNames /\ e.source[2] \in Update!Solution[e.name].visible
    BY <1>9, RequirementIsRecorded
  <2> QED
    BY <1>3, <2>1
<1>10. ASSUME NEW r \in l.request.roots PROVE Recorded(r, l.packages)
  <2>1. r \in request.roots
    BY <1>1
  <2>2. Asked(r) /\ r.source # <<"git">> /\ r.name # "R"
    BY <2>1, RootIsDecided, UpdateAssumption DEF Asked, UpdateTyped
  <2> QED
    BY <1>9, <2>1, <2>2, RootsAreMet
<1>11. ASSUME NEW p \in l.packages, NEW e \in Followed(p.identity, l.request.roots)
       PROVE  Recorded(e, l.packages)
  <2> DEFINE v == p.identity
  <2>1. Chosen(v) /\ e \in Followed(v, request.roots) /\ e \in Facts[v].edges
    BY <1>1, <1>3, <1>4 DEF Followed
  <2>2. v \in DOMAIN Facts
    BY <2>1, ChosenAreListed
  <2>3. PICK j \in DOMAIN decided : /\ IsKey(decided[j].package) /\ decided[j].version = v
                                    /\ e \in Update!Requirements(decided[j].package, v)
    BY <2>1, FollowedIsRequired
  <2>4. ~ Update!Unavailable(decided[j].package, v) /\ decided[j].package # <<"root">>
    BY <2>3, KeyDecision DEF IsKey
  <2>5. e.source # <<"git">> /\ Asked(e)
    BY <2>1, <2>2, <2>3, <2>4 DEF Update!Unavailable, Asked
  <2>6. <<Update!subject_for_package(e),
          Update!ranges_for_subject(Update!subject_for_package(e), e.allowed)>> \in decided[j].needs
    BY <2>3, KeyDecision, KeyNeeds
  <2>7. PICK k \in DOMAIN decided : decided[k].package = Update!subject_for_package(e)
    BY <2>5, <2>6, RequirementIsMet
  <2>8. CASE e.name # "R"
    BY <1>9, <2>5, <2>7, <2>8
  <2>9. CASE e.name = "R"
    <3>1. e.source = <<"any">>
      BY <2>1, <2>2, <2>9, UpdateAssumption
    <3> QED
      BY <3>1 DEF Recorded
  <2> QED
    BY <2>8, <2>9
<1>12. {Update!Name(p) : p \in l.packages} \subseteq Update!mark_reachable(l.packages, RootNames(l.request.roots))
  <2>1. Update!consume_roots(l.packages, request.roots, TRUE)
    BY DEF Update!consume_composed_environment
  <2> QED
    BY <1>1, <2>1 DEF Update!consume_roots, RootNames
<1> QED
  BY <1>5, <1>6, <1>7, <1>8, <1>10, <1>11, <1>12 DEF GoodLock

(***************************************************************************)
(* What a lock reaches                                                     *)
(***************************************************************************)

\* The names that packages depend on, added to some names.
Level(packages, names) ==
    names \cup {e[2] : e \in UNION {p.edges : p \in {q \in packages : Update!Name(q) \in names}}}

IsMarking(w, packages, names, n) ==
    w = [k \in 0..n |-> IF k = 0 THEN names ELSE Level(packages, w[k - 1])]

LEMMA MarkingExists ==
  ASSUME NEW packages, NEW names, NEW n \in Nat
  PROVE  \E w : IsMarking(w, packages, names, n)
<1> DEFINE bad == {m \in Nat : ~ \E w : IsMarking(w, packages, names, m)}
<1>1. bad = {}
  <2> SUFFICES ASSUME bad # {} PROVE FALSE
    OBVIOUS
  <2>1. PICK m \in bad : \A j \in bad : m <= j
    <3>1. bad \in SUBSET Nat
      OBVIOUS
    <3> HIDE DEF bad
    <3> QED
      BY <3>1, LeastNumber
  <2>2. m \in Nat /\ ~ \E w : IsMarking(w, packages, names, m)
    OBVIOUS
  <2>3. CASE m = 0
    <3> DEFINE w == [k \in 0..0 |-> names]
    <3>1. IsMarking(w, packages, names, 0)
      BY DEF IsMarking
    <3> HIDE DEF w
    <3> QED
      BY <2>2, <2>3, <3>1
  <2>4. CASE m # 0
    <3>1. m - 1 \in Nat /\ m - 1 \notin bad
      <4> HIDE DEF bad
      <4> QED
        BY <2>1, <2>2, <2>4
    <3>2. PICK v : IsMarking(v, packages, names, m - 1)
      BY <3>1
    <3> DEFINE w == [k \in 0..m |-> IF k = m THEN Level(packages, v[m - 1]) ELSE v[k]]
    <3>3. ASSUME NEW k \in 0..m PROVE w[k] = IF k = 0 THEN names ELSE Level(packages, w[k - 1])
      <4>1. CASE k = 0
        BY <2>2, <2>4, <3>2, <4>1 DEF IsMarking
      <4>2. CASE k = m
        BY <2>2, <2>4, <4>2
      <4>3. CASE k # 0 /\ k # m
        BY <2>2, <2>4, <3>2, <4>3 DEF IsMarking
      <4> QED
        BY <4>1, <4>2, <4>3
    <3>4. IsMarking(w, packages, names, m)
      BY <3>3 DEF IsMarking
    <3> HIDE DEF w
    <3> QED
      BY <2>2, <3>4
  <2> QED
    BY <2>3, <2>4
<1> QED
  BY <1>1

\* The names of a lock that are reached are on some level.
LEMMA Markings ==
  ASSUME NEW packages, NEW names, Update!Cardinality(packages) \in Nat
  PROVE  \E n \in Nat : \E w :
            IsMarking(w, packages, names, n) /\ Update!mark_reachable(packages, names) = w[n]
<1> DEFINE n == Update!Cardinality(packages)
           w == CHOOSE v : IsMarking(v, packages, names, n)
<1>1. IsMarking(w, packages, names, n)
  BY MarkingExists, Zenon
<1>2. Update!mark_reachable(packages, names) = w[n]
  BY Zenon DEF Update!mark_reachable, IsMarking, Level
<1> QED
  BY <1>1, <1>2

\* What has the first names and, with each level, what it depends on, has all levels.
LEMMA MarkingInduction ==
  ASSUME NEW packages, NEW names, NEW n \in Nat, NEW w, IsMarking(w, packages, names, n),
         NEW T, names \subseteq T,
         \A p \in packages : \A e \in p.edges : Update!Name(p) \in T => e[2] \in T
  PROVE  w[n] \subseteq T
<1> DEFINE bad == {k \in 0..n : ~ (w[k] \subseteq T)}
<1>1. bad = {}
  <2> SUFFICES ASSUME bad # {} PROVE FALSE
    OBVIOUS
  <2>1. PICK k \in bad : \A j \in bad : k <= j
    <3>1. bad \in SUBSET Nat
      OBVIOUS
    <3> HIDE DEF bad
    <3> QED
      BY <3>1, LeastNumber
  <2>2. k \in 0..n /\ ~ (w[k] \subseteq T)
    OBVIOUS
  <2>3. k # 0
    BY <2>2 DEF IsMarking
  <2>4. k - 1 \in 0..n /\ k - 1 \notin bad
    <3> HIDE DEF bad
    <3> QED
      BY <2>1, <2>2, <2>3
  <2>5. w[k - 1] \subseteq T
    BY <2>4
  <2>6. w[k] = Level(packages, w[k - 1])
    BY <2>2, <2>3 DEF IsMarking
  <2>7. Level(packages, w[k - 1]) \subseteq T
    BY <2>5 DEF Level
  <2> QED
    BY <2>2, <2>6, <2>7
<1> QED
  BY <1>1

\* A lock has finitely many packages.
LEMMA LocksAreFinite ==
  ASSUME NEW l, GoodLock(l)
  PROVE  Update!Cardinality(l.packages) \in Nat
<1> DEFINE f == [p \in l.packages |-> p.identity]
<1>1. f \in Injection(l.packages, DOMAIN Facts)
  <2>1. f \in [l.packages -> DOMAIN Facts]
    BY DEF GoodLock
  <2>2. \A p, q \in l.packages : f[p] = f[q] => p = q
    BY DEF GoodLock, Update!Name
  <2> QED
    BY <2>1, <2>2 DEF Injection, IsInjective
<1>2. IsFiniteSet(l.packages)
  <2> HIDE DEF f
  <2> QED
    BY <1>1, FS_Injection, UpdateAssumption
<1>3. Update!Cardinality(l.packages) = Cardinality(l.packages)
  BY DEF Update!Cardinality, Cardinality
<1> QED
  BY <1>2, <1>3, FS_CardinalityType

(***************************************************************************)
(* A resolution under the lock of its request                              *)
(***************************************************************************)

\* The lock is in use for the request it was written for, with its releases still offered.
UnderLock ==
    /\ request = lockfile.request /\ GoodLock(lockfile) /\ Fits(LockedIds)
    /\ locked = Update!locked_identities(lockfile.packages) /\ policy \in {"prefer", "require"}

\* The decisions are those of the lock.
AsLocked == nogoods = {} /\ \A d \in Update!Decisions : Assigns(LockedIds, d)

\* A tenant that R does not bring is a locked release.
LEMMA LockedTenants ==
  ASSUME UpdateTyped, NEW S \in SUBSET DOMAIN Update!Candidates, NEW name, NEW v \in Tenants(S, name)
  PROVE  /\ ~ Update!Base(v) => v \in S
         /\ Update!Base(v) => Update!OfName(S, name) = {}
         /\ Facts[v].name = name
BY Listed DEF Tenants, Update!OfName

\* What a decision of the lock requires counts in the request.
LEMMA RequiredIsFollowed ==
  ASSUME UpdateTyped, UnderLock, NEW p, NEW v, Assigns(LockedIds, <<p, v>>), IsKey(p),
         NEW e \in Update!Requirements(p, v)
  PROVE  v \in LockedIds /\ e \in Followed(v, request.roots)
<1>1. v \in Update!loaded(p) /\ v \in Tenants(LockedIds, Update!subject_name(p))
  BY DEF Assigns, IsKey
<1>2. v \in DOMAIN Facts /\ Facts[v].name = Update!subject_name(p)
  BY <1>1, LoadedFacts
<1>3. e \in Update!project_dependency_edges(v, Update!expansion_for_subject(p))
  BY KeyNeeds
<1>4. e \in Facts[v].edges
  BY <1>3 DEF Update!project_dependency_edges
<1>5. v \in LockedIds
  <2>1. ~ Update!Base(v)
    BY <1>2, <1>4, UpdateAssumption
  <2> QED
    BY <1>1, <2>1, LockedTenants DEF UnderLock, Fits
<1>6. CASE e.kind = "suggests"
  <2>1. PICK r \in request.roots : r.suggests /\ Update!subject_for_package(r) = p
    BY <1>3, <1>6 DEF Update!project_dependency_edges, Update!expansion_for_subject
  <2>2. Asked(r) /\ r.name # "R"
    BY UpdateAssumption DEF Asked, UpdateTyped
  <2>3. r.source # <<"git">>
    <3>1. Update!Satisfied(LockedIds, r)
      BY DEF UnderLock, Fits, Update!Sound
    <3> QED
      BY <2>2, <3>1, SatisfiedAssigns DEF UnderLock, Fits
  <2>4. r.name = Facts[v].name
    BY <1>2, <2>1, <2>2, <2>3, Subjects
  <2> QED
    BY <1>4, <1>5, <1>6, <2>1, <2>4 DEF Followed
<1>7. CASE e.kind # "suggests"
  BY <1>3, <1>4, <1>5, <1>7 DEF Update!project_dependency_edges, Followed
<1> QED
  BY <1>6, <1>7

\* The lock records what a requirement on a repository selected.
LEMMA RequiredIsRecorded ==
  ASSUME UpdateTyped, UnderLock, NEW p, NEW v, Assigns(LockedIds, <<p, v>>), Possible(p, v),
         NEW e \in Update!Requirements(p, v)
  PROVE  Recorded(e, lockfile.packages)
<1>1. CASE p = <<"root">>
  BY <1>1, RootNeeds DEF UnderLock, GoodLock
<1>2. CASE IsKey(p)
  <2>1. v \in LockedIds /\ e \in Followed(v, request.roots)
    BY <1>2, RequiredIsFollowed
  <2> QED
    BY <2>1 DEF UnderLock, GoodLock, LockedIds
<1>3. CASE p = <<"R">> \/ p[1] = "occupancy"
  BY <1>3, NothingNeeded
<1> QED
  BY <1>1, <1>2, <1>3 DEF Possible

\* A key names the package it belongs to.
LEMMA LockKeyNames ==
  ASSUME NEW q, NEW s, IsKey(s), s \in Update!identity_solver_keys(q)
  PROVE  Update!Name(q) = Update!subject_name(s)
<1>1. CASE s = <<"installed", Update!Name(q)>>
  BY <1>1 DEF Update!subject_name
<1>2. CASE s = <<"exact", q.identity>>
  BY <1>2 DEF Update!subject_name, Update!Name
<1>3. CASE \E r \in q.visible : s = <<"repository", r, Update!Name(q)>>
  BY <1>3 DEF Update!subject_name
<1>4. CASE s = <<"registry", Facts[q.identity].namespace, Update!Name(q)>>
  BY <1>4 DEF Update!subject_name
<1> QED
  BY <1>1, <1>2, <1>3, <1>4 DEF Update!identity_solver_keys

\* A locked release is locked for every key by which the solver asks for it.
LEMMA LockedForItsKey ==
  ASSUME UpdateTyped, UnderLock, NEW e, Asked(e), e.source # <<"git">>, e.name # "R",
         Recorded(e, lockfile.packages), NEW s, s = Update!subject_for_package(e),
         NEW w \in LockedIds, w \in Update!loaded(s)
  PROVE  s \in DOMAIN locked /\ locked[s] = w
<1>1. PICK q \in lockfile.packages : q.identity = w
  BY DEF LockedIds
<1>2. IsKey(s) /\ Update!subject_name(s) = e.name
  BY Subjects
<1>3. w \in DOMAIN Facts /\ Facts[w].name = e.name /\ ~ Update!Base(w)
  BY <1>1, <1>2, LoadedFacts DEF UnderLock, GoodLock
<1>4. Update!Name(q) = e.name
  BY <1>1, <1>3 DEF Update!Name
<1>5. \A x \in lockfile.packages : Update!Name(x) = e.name => x = q
  BY <1>4 DEF UnderLock, GoodLock
<1>6. s \in Update!identity_solver_keys(q)
  <2>1. CASE s = <<"installed", e.name>>
    BY <1>4, <2>1 DEF Update!identity_solver_keys
  <2>2. CASE s = <<"exact", s[2]>>
    <3>1. s[2] = w
      BY <1>2, <1>3, <2>2, LoadedOffers
    <3> QED
      BY <1>1, <2>2, <3>1 DEF Update!identity_solver_keys
  <2>3. CASE e.source = <<"registry", e.source[2]>> /\ s = <<"registry", e.source[2], e.name>>
             /\ e.source[2] \notin {"git", "base"}
    <3>1. Facts[w].namespace = e.source[2]
      BY <1>2, <1>3, <2>3, LoadedOffers
    <3> QED
      BY <1>1, <1>4, <2>3, <3>1 DEF Update!identity_solver_keys
  <2>4. CASE e.source = <<"repository", e.source[2]>> /\ s = <<"repository", e.source[2], e.name>>
    <3>1. e.source[1] = "repository"
      BY <2>4
    <3>2. e.source[2] \in q.visible
      BY <1>5, <3>1 DEF Recorded
    <3> QED
      BY <1>4, <2>4, <3>2 DEF Update!identity_solver_keys
  <2>5. CASE e.source = <<"exact", e.source[2]>> /\ s = e.source
    BY <2>2, <2>5
  <2> QED
    BY <2>1, <2>2, <2>3, <2>4, <2>5, Subjects
<1>7. s \in DOMAIN locked /\ locked[s] = (CHOOSE x \in lockfile.packages : s \in Update!identity_solver_keys(x)).identity
  BY <1>6 DEF UnderLock, Update!locked_identities
<1>8. \A x \in lockfile.packages : s \in Update!identity_solver_keys(x) => x = q
  BY <1>2, <1>5, LockKeyNames
<1>9. (CHOOSE x \in lockfile.packages : s \in Update!identity_solver_keys(x)) = q
  BY <1>6, <1>8
<1> QED
  BY <1>1, <1>7, <1>9

\* Under a lock, what the decisions require of a package admits the locked version of it.
LEMMA LockedIsAllowed ==
  ASSUME UpdateTyped, UpdateInvariant, UnderLock, AsLocked, NEW p \in Update!Pending, decided # <<>>
  PROVE  \E w \in Update!Allowed(p) : Assigns(LockedIds, <<p, w>>)
<1>0. LockedIds \in SUBSET DOMAIN Update!Candidates /\ Update!Sound(LockedIds)
  BY DEF UnderLock, Fits
<1>1. PICK r \in Update!Ranges : r[1] = p
  BY PendingPackages
<1>2. PICK w \in r[2] : Assigns(LockedIds, <<p, w>>)
  BY <1>0, <1>1, RangesAreAssigned DEF AsLocked
<1>3. ASSUME NEW q \in Update!Ranges, q[1] = p PROVE w \in q[2]
  <2>1. PICK x \in q[2] : Assigns(LockedIds, <<p, x>>)
    BY <1>0, <1>3, RangesAreAssigned DEF AsLocked
  <2>2. x = w
    BY <1>0, <1>2, <2>1, OneAssigned
  <2> QED
    BY <2>1, <2>2
<1>4. w \in Update!Allowed(p)
  BY <1>1, <1>3, LeftVersions DEF AsLocked
<1> QED
  BY <1>2, <1>4

\* The lock says nothing of the key of a base package that R provides.
LEMMA BaseIsNotLocked ==
  ASSUME UpdateTyped, UnderLock, NEW p, p[1] = "installed", Update!OfName(LockedIds, p[2]) = {}
  PROVE  Update!LockedIdentity(p) = None
<1>1. ASSUME p \in DOMAIN locked PROVE FALSE
  <2>1. PICK q \in lockfile.packages : p \in Update!identity_solver_keys(q)
    BY <1>1 DEF UnderLock, Update!locked_identities
  <2>2. IsKey(p) /\ Update!subject_name(p) = p[2]
    BY DEF IsKey, Update!subject_name
  <2>3. Update!Name(q) = p[2]
    BY <2>1, <2>2, LockKeyNames
  <2>4. q.identity \in LockedIds /\ Facts[q.identity].name = p[2]
    BY <2>3 DEF LockedIds, Update!Name
  <2> QED
    BY <2>4 DEF Update!OfName
<1> QED
  BY <1>1 DEF Update!LockedIdentity

\* The version chosen for a key under the lock is the locked one.
LEMMA LockedIsChosen ==
  ASSUME UpdateTyped, UnderLock, NEW p, IsKey(p), NEW range, NEW w \in range, w # None,
         w \in Update!loaded(p), Update!LockedIdentity(p) = w
  PROVE  Update!choose_version(p, range) = w
<1> DEFINE eligible == {id \in Update!loaded(p) \cap range : Update!Required(p) \in {None, id}}
           E == Update!with_eligible_candidates(p, range)
<1>1. w \in eligible
  BY DEF Update!Required
<1>2. w \notin Update!publication_rejections(eligible, Update!LockedIdentity(p))
  BY DEF Update!publication_rejections
<1>3. w \in E /\ E \subseteq Update!loaded(p)
  BY <1>1, <1>2 DEF Update!with_eligible_candidates
<1>4. p # <<"root">> /\ p # <<"R">> /\ p[1] # "occupancy"
  BY DEF IsKey
<1>5. Update!choose_version(p, range) = CHOOSE id \in E : \A o \in E \ {id} : Update!Prefers(o, id, p)
  BY <1>3, <1>4 DEF Update!choose_version
<1> HIDE DEF E
<1>6. \E m \in E : \A o \in E \ {m} : Update!Prefers(o, m, p)
  BY <1>3, PreferredExists
<1>7. ASSUME NEW m \in E, \A o \in E \ {m} : Update!Prefers(o, m, p) PROVE m = w
  <2> SUFFICES ASSUME m # w PROVE FALSE
    OBVIOUS
  <2>1. Update!Prefers(w, m, p)
    BY <1>3, <1>7
  <2>2. Update!preference_rank(w, p) = 3 /\ Update!preference_rank(m, p) \in {1, 2}
    BY DEF Update!preference_rank
  <2> QED
    BY <2>1, <2>2, PreferenceIsLexical
<1> QED
  BY <1>5, <1>6, <1>7

\* Under the lock of its request the resolver decides as the lock does.
LEMMA LockDecides ==
  ASSUME UpdateTyped, UpdateInvariant, UnderLock, AsLocked, NEW p \in Update!Pending, NEW v,
         v = Update!choose_version(p, Update!Allowed(p))
  PROVE  v # None /\ Assigns(LockedIds, <<p, v>>) /\ ~ Update!Rejected(p, v)
<1>0. LockedIds \in SUBSET DOMAIN Update!Candidates /\ Update!Sound(LockedIds)
  BY DEF UnderLock, Fits
<1>1. CASE decided = <<>>
  <2>1. p = <<"root">>
    BY <1>1, PendingPackages
  <2>2. v = "root"
    BY <2>1 DEF Update!choose_version
  <2> QED
    BY <2>1, <2>2, UpdateAssumption DEF Assigns, Update!Rejected
<1>2. CASE decided # <<>>
  <2>1. PICK w \in Update!Allowed(p) : Assigns(LockedIds, <<p, w>>)
    BY <1>2, LockedIsAllowed
  <2>2. PICK r \in Update!Ranges : r[1] = p /\ Needed(r) /\ p # <<"root">>
    BY <1>2, PendingPackages
  <2>3. CASE p = <<"R">>
    <3>1. w = "R"
      BY <2>1, <2>3 DEF Assigns, IsKey
    <3>2. v = "R"
      BY <2>1, <2>3, <3>1 DEF Update!choose_version
    <3> QED
      BY <2>1, <2>3, <3>1, <3>2, UpdateAssumption DEF Update!Rejected
  <2>4. CASE p[1] = "occupancy"
    <3>1. PICK u \in DOMAIN Facts : r[2] = {u}
      BY <2>2, <2>4 DEF Needed, IsKey
    <3>2. \A x \in Update!Allowed(p) : x = u
      BY <2>2, <3>1, AllowedVersions
    <3>3. v = CHOOSE id \in Update!Allowed(p) : TRUE
      BY <2>1, <2>4 DEF Update!choose_version
    <3>4. v \in Update!Allowed(p)
      BY <2>1, <3>3
    <3>5. v = w /\ v = u
      BY <2>1, <3>2, <3>4
    <3> QED
      BY <2>1, <2>4, <3>5, UpdateAssumption DEF Update!Rejected
  <2>5. CASE IsKey(p)
    <3>1. w \in Update!loaded(p) /\ w \in Tenants(LockedIds, Update!subject_name(p))
      BY <2>1, <2>5 DEF Assigns, IsKey
    <3>2. w \in DOMAIN Facts /\ w # None /\ Facts[w].name = Update!subject_name(p)
      BY <2>5, <3>1, LoadedFacts, UpdateAssumption
    <3>3. CASE Update!Base(w)
      <4>1. p[1] = "installed" /\ p[2] \in BaseNames
        BY <2>5, <3>1, <3>3, LoadedFacts
      <4>2. Update!OfName(LockedIds, p[2]) = {}
        <5>1. Update!subject_name(p) = p[2]
          BY <4>1 DEF Update!subject_name
        <5> QED
          BY <1>0, <3>1, <3>3, <5>1, LockedTenants
      <4>3. Update!Required(p) = None
        BY <4>1, <4>2, BaseIsNotLocked DEF Update!Required
      <4>4. v # None /\ v \in Update!loaded(p)
        BY <2>1, <2>5, <3>1, <4>3, ChosenForKey
      <4>5. v \in DOMAIN Facts /\ Update!Base(v) /\ Facts[v].name = Update!subject_name(p)
        BY <2>5, <4>1, <4>4, LoadedFacts
      <4>6. v = w
        BY <3>2, <3>3, <4>5, UpdateAssumption
      <4>7. ~ Update!Rejected(p, v)
        BY <4>5 DEF Update!Rejected, Update!publication_rejections
      <4> QED
        BY <2>1, <4>4, <4>6, <4>7
    <3>4. CASE ~ Update!Base(w)
      <4>1. w \in LockedIds
        BY <1>0, <3>1, <3>4, LockedTenants
      <4>2. PICK i \in DOMAIN decided : /\ Possible(decided[i].package, decided[i].version)
                                        /\ r \in Update!get_dependencies(decided[i].package, decided[i].version)
        BY RangesAreNeeds
      <4>3. Assigns(LockedIds, <<decided[i].package, decided[i].version>>)
        BY DEF AsLocked, Update!Decisions, Update!Decision
      <4>4. PICK e \in Update!Requirements(decided[i].package, decided[i].version) :
              Asked(e) /\ e.source # <<"git">> /\ p = Update!subject_for_package(e)
        BY <2>2, <2>5, <4>2, NeedForms DEF IsKey
      <4>5. Recorded(e, lockfile.packages)
        BY <4>2, <4>3, RequiredIsRecorded
      <4>6. e.name # "R"
        BY <2>5, <4>4, SubjectOfR DEF IsKey
      <4>7. p \in DOMAIN locked /\ locked[p] = w
        BY <3>1, <4>1, <4>4, <4>5, <4>6, LockedForItsKey
      <4>8. Update!LockedIdentity(p) = w
        BY <4>7 DEF Update!LockedIdentity, UnderLock
      <4>9. v = w
        BY <2>1, <2>5, <3>1, <3>2, <4>8, LockedIsChosen
      <4>10. ~ Update!Rejected(p, v)
        BY <4>8, <4>9 DEF Update!Rejected, Update!publication_rejections
      <4> QED
        BY <2>1, <3>2, <4>9, <4>10
    <3> QED
      BY <3>3, <3>4
  <2> QED
    BY <2>2, <2>3, <2>4, <2>5 DEF Needed
<1> QED
  BY <1>1, <1>2

\* A requirement that a solution satisfies can be loaded.
LEMMA SatisfiedLoads ==
  ASSUME UpdateTyped, CataloguesGrow, NEW S \in SUBSET DOMAIN Update!Candidates, Update!Sound(S),
         NEW e, Asked(e), Update!Satisfied(S, e)
  PROVE  e.source # <<"git">> /\ ~ Update!RangeFails(Update!subject_for_package(e), e.allowed)
<1> DEFINE s == Update!subject_for_package(e)
<1>1. e.source # <<"git">> /\ \E x \in Update!ranges_for_subject(s, e.allowed) : Assigns(S, <<s, x>>)
  BY SatisfiedAssigns
<1>2. PICK x \in Update!ranges_for_subject(s, e.allowed) : Assigns(S, <<s, x>>)
  BY <1>1
<1>3. CASE e.name = "R"
  BY <1>1, <1>3, SubjectOfR DEF Update!RangeFails
<1>4. CASE e.name # "R"
  <2>1. IsKey(s)
    BY <1>1, <1>4, Subjects
  <2>2. s # <<"R">>
    BY <2>1 DEF IsKey
  <2>3. x \in Update!loaded(s)
    BY <1>2, <2>2 DEF Update!ranges_for_subject
  <2> HIDE DEF s
  <2>4. ~ Update!LoadFails(s)
    <3>1. CASE s[1] = "installed" /\ s[2] \in BaseNames
      BY <3>1 DEF Update!LoadFails
    <3>2. CASE ~ (s[1] = "installed" /\ s[2] \in BaseNames)
      <4>1. x \in DOMAIN Update!Candidates /\ Facts[x].name = Update!subject_name(s)
        BY <2>1, <2>3, <3>2, LoadedFacts
      <4>2. Facts[x].name \notin Catalogs[catalog].broken
        BY <4>1 DEF CataloguesGrow, UpdateTyped, Update!Candidates
      <4> QED
        BY <4>1, <4>2 DEF Update!LoadFails
    <3> QED
      BY <3>1, <3>2
  <2>5. ~ Update!RangeFails(s, e.allowed)
    BY <1>2, <2>4 DEF Update!RangeFails
  <2> QED
    BY <1>1, <2>5 DEF s
<1> QED
  BY <1>3, <1>4

\* The locked version of a package can be decided on.
LEMMA LockedDecisionHolds ==
  ASSUME UpdateTyped, UpdateInvariant, CataloguesGrow, UnderLock, AsLocked, NEW p \in Update!Pending, NEW v,
         v = Update!choose_version(p, Update!Allowed(p))
  PROVE  /\ v # None /\ Assigns(LockedIds, <<p, v>>)
         /\ ~ Update!Unavailable(p, v) /\ ~ Update!DependenciesFail(p, v)
         /\ ~ Update!Conflicts(p, v, Update!get_dependencies(p, v))
<1>0. LockedIds \in SUBSET DOMAIN Update!Candidates /\ Update!Sound(LockedIds)
  BY DEF UnderLock, Fits
<1>1. v # None /\ Assigns(LockedIds, <<p, v>>) /\ ~ Update!Rejected(p, v)
  BY LockDecides
<1>2. ASSUME NEW e \in Update!Requirements(p, v)
      PROVE  e.source # <<"git">> /\ ~ Update!RangeFails(Update!subject_for_package(e), e.allowed)
  <2>1. Asked(e) /\ Update!Satisfied(LockedIds, e)
    BY <1>0, <1>1, RequirementsAreSatisfied
  <2> QED
    BY <1>0, <2>1, SatisfiedLoads
<1>3. ~ Update!Unavailable(p, v)
  BY <1>1, <1>2 DEF Update!Unavailable
<1>4. ~ Update!DependenciesFail(p, v)
  BY <1>2 DEF Update!DependenciesFail
<1>5. Possible(p, v)
  BY <1>1, <1>3, <1>4, ChosenIsPossible
<1>6. ASSUME Update!Conflicts(p, v, Update!get_dependencies(p, v)) PROVE FALSE
  <2>1. Refuted(Update!Decisions \cup {<<p, v>>})
    BY <1>5, <1>6, ConflictIsRefuted
  <2>2. PICK d \in Update!Decisions \cup {<<p, v>>} : ~ Assigns(LockedIds, d)
    BY <1>0, <2>1 DEF Refuted
  <2> QED
    BY <1>1, <2>2 DEF AsLocked
<1> QED
  BY <1>1, <1>3, <1>4, <1>6

\* What UnderLock and AsLocked are about is kept.
LEMMA UnderLockKept ==
  ASSUME UnderLock, Kept, lockfile' = lockfile
  PROVE  UnderLock' /\ LockedIds' = LockedIds
<1>1. LockedIds' = LockedIds
  BY DEF LockedIds
<1>2. GoodLock(lockfile)' <=> GoodLock(lockfile)
  BY DEF GoodLock, Recorded, RootNames, Followed, Update!mark_reachable, Update!Name
<1>3. Fits(LockedIds)' <=> Fits(LockedIds)
  BY <1>1, LoadedKept, SoundKept DEF Fits
<1>4. Update!locked_identities(lockfile.packages)' = Update!locked_identities(lockfile.packages)
  BY DEF Update!locked_identities, Update!identity_solver_keys, Update!Name
<1> QED
  BY <1>1, <1>2, <1>3, <1>4 DEF UnderLock, Kept

LEMMA DecideAsLocked ==
  ASSUME UpdateTyped, UpdateInvariant, CataloguesGrow, UnderLock, AsLocked, Update!Decide, lockfile' = lockfile
  PROVE  UnderLock' /\ AsLocked' /\ outcome' \in {"solving", "views differ"}
<1>1. outcome = "solving" /\ Kept
  BY DEF Update!Decide, Kept
<1>2. PICK p \in Update!Pending :
        LET v == Update!choose_version(p, Update!Allowed(p))
        IN  IF v = None THEN Update!Backtrack(Update!Decisions) /\ interned' = interned
            ELSE \/ Update!Unavailable(p, v)
                 \/ Update!DependenciesFail(p, v)
                 \/ /\ outcome' = "views differ"
                    /\ UNCHANGED <<decided, nogoods, interned>>
                 \/ /\ ~ Update!Unavailable(p, v) /\ ~ Update!DependenciesFail(p, v)
                    /\ LET needs == Update!get_dependencies(p, v)
                       IN  IF Update!Conflicts(p, v, needs)
                           THEN Update!Backtrack(Update!Decisions \cup {<<p, v>>})
                           ELSE /\ decided' = Append(decided,
                                     [package |-> p, version |-> v, needs |-> needs])
                                /\ UNCHANGED <<nogoods, outcome>>
  BY DEF Update!Decide
<1> DEFINE v == Update!choose_version(p, Update!Allowed(p))
<1>3. /\ v # None /\ Assigns(LockedIds, <<p, v>>)
      /\ ~ Update!Unavailable(p, v) /\ ~ Update!DependenciesFail(p, v)
      /\ ~ Update!Conflicts(p, v, Update!get_dependencies(p, v))
  BY LockedDecisionHolds
<1>4. UnderLock' /\ LockedIds' = LockedIds
  BY <1>1, UnderLockKept
<1>5. \A d : Assigns(LockedIds, d)' <=> Assigns(LockedIds, d)
  BY <1>1, <1>4, SoundKept
<1>6. CASE outcome' = "views differ" /\ UNCHANGED <<decided, nogoods, interned>>
  <2>1. Update!Decisions' = Update!Decisions
    BY <1>6 DEF Update!Decisions, Update!Decision
  <2> QED
    BY <1>4, <1>5, <1>6, <2>1 DEF AsLocked
<1>7. CASE /\ decided' = Append(decided, [package |-> p, version |-> v, needs |-> Update!get_dependencies(p, v)])
           /\ UNCHANGED <<nogoods, outcome>>
  <2> DEFINE x == [package |-> p, version |-> v, needs |-> Update!get_dependencies(p, v)]
  <2>1. x.package = p /\ x.version = v /\ decided' = Append(decided, x)
    BY <1>7
  <2> HIDE DEF x, v
  <2>2. Len(decided) \in Nat /\ DOMAIN decided = 1..Len(decided)
    BY SequenceDomain DEF UpdateTyped
  <2>3. /\ DOMAIN decided' = 1..(Len(decided) + 1)
        /\ \A i \in 1..(Len(decided) + 1) : decided'[i] = IF i \in DOMAIN decided THEN decided[i] ELSE x
    BY <2>1, AppendSequence DEF UpdateTyped
  <2>4. Update!Decisions' \subseteq Update!Decisions \cup {<<p, v>>}
    BY <2>1, <2>2, <2>3 DEF Update!Decisions, Update!Decision
  <2> QED
    BY <1>1, <1>3, <1>4, <1>5, <1>7, <2>4 DEF AsLocked
<1> HIDE DEF v
<1> QED
  BY <1>2, <1>3, <1>6, <1>7 DEF v

\* Complete decisions under the lock select the locked releases.
LEMMA LockIsReproduced ==
  ASSUME UpdateTyped, UpdateInvariant, Complete, UnderLock, AsLocked
  PROVE  Update!Identities = LockedIds
<1>0. LockedIds \in SUBSET DOMAIN Update!Candidates /\ Update!Sound(LockedIds)
  BY DEF UnderLock, Fits
<1>1. ASSUME NEW v \in Update!Identities PROVE v \in LockedIds
  <2>1. PICK i \in DOMAIN decided : IsKey(decided[i].package) /\ decided[i].version = v /\ ~ Update!Base(v)
    BY IdentitiesAreChosen DEF Chosen
  <2>2. Assigns(LockedIds, <<decided[i].package, v>>)
    BY <2>1 DEF AsLocked, Update!Decisions, Update!Decision
  <2>3. v \in Tenants(LockedIds, Update!subject_name(decided[i].package))
    BY <2>1, <2>2 DEF Assigns, IsKey
  <2> QED
    BY <1>0, <2>1, <2>3, LockedTenants
<1>2. Update!Sound(Update!Identities)
  BY CompleteIsSound
<1>3. \A x, y \in LockedIds : Facts[x].name = Facts[y].name => x = y
  BY <1>0 DEF Update!Sound
<1> DEFINE names == RootNames(request.roots)
           T == {n \in names \cup {e[2] : e \in UNION {p.edges : p \in lockfile.packages}} :
                    Update!OfName(LockedIds, n) \subseteq Update!Identities}
<1>4. ASSUME NEW e, e.name # "R", Update!Satisfied(Update!Identities, e), Update!Satisfied(LockedIds, e)
      PROVE  Update!OfName(LockedIds, e.name) \subseteq Update!Identities
  <2>1. CASE e.source = <<"any">> /\ e.name \in BaseNames /\ Update!exact_root_identity(e.name) = {}
    <3>1. Update!OfName(LockedIds, e.name) = {}
      BY <1>4, <2>1 DEF Update!Satisfied
    <3> QED
      BY <3>1
  <2>2. CASE ~ (e.source = <<"any">> /\ e.name \in BaseNames /\ Update!exact_root_identity(e.name) = {})
    <3>1. PICK id \in Update!OfName(Update!Identities, e.name) : TRUE
      BY <1>4, <2>2 DEF Update!Satisfied
    <3>2. id \in Update!Identities /\ Facts[id].name = e.name
      BY <3>1 DEF Update!OfName
    <3>3. id \in LockedIds
      BY <1>1, <3>2
    <3> QED
      BY <1>3, <3>2, <3>3 DEF Update!OfName
  <2> QED
    BY <2>1, <2>2
<1>5. names \subseteq T
  <2> SUFFICES ASSUME NEW n \in names PROVE Update!OfName(LockedIds, n) \subseteq Update!Identities
    OBVIOUS
  <2>1. PICK r \in request.roots : r.name = n
    BY DEF RootNames
  <2>2. r.name # "R"
    BY UpdateAssumption DEF UpdateTyped
  <2>3. Update!Satisfied(Update!Identities, r) /\ Update!Satisfied(LockedIds, r)
    BY <1>0, <1>2 DEF Update!Sound
  <2> QED
    BY <1>4, <2>1, <2>2, <2>3
<1>6. ASSUME NEW p \in lockfile.packages, NEW e \in p.edges, Update!Name(p) \in T PROVE e[2] \in T
  <2>1. p.identity \in LockedIds /\ p.identity \in Update!OfName(LockedIds, Update!Name(p))
    BY DEF LockedIds, Update!OfName, Update!Name
  <2>2. p.identity \in Update!Identities
    BY <1>6, <2>1
  <2>3. PICK d \in Followed(p.identity, request.roots) : d.name = e[2]
    BY DEF UnderLock, GoodLock
  <2>4. Update!Satisfied(Update!Identities, d) /\ Update!Satisfied(LockedIds, d)
    <3>1. /\ d \in Facts[p.identity].edges /\ d.kind # "enhances"
          /\ d.kind = "suggests" => \E r \in request.roots : r.name = Facts[p.identity].name /\ r.suggests
      BY DEF Followed
    <3> QED
      BY <1>0, <1>2, <2>1, <2>2, <3>1 DEF Update!Sound
  <2>5. Update!OfName(LockedIds, e[2]) \subseteq Update!Identities
    <3>1. CASE d.name = "R"
      <4>1. \A id \in LockedIds : Facts[id].name # "R"
        BY <1>0, Listed, UpdateAssumption
      <4> QED
        BY <2>3, <3>1, <4>1 DEF Update!OfName
    <3>2. CASE d.name # "R"
      BY <1>4, <2>3, <2>4, <3>2
    <3> QED
      BY <3>1, <3>2
  <2> QED
    BY <2>5
<1>7. ASSUME NEW v \in LockedIds PROVE v \in Update!Identities
  <2> HIDE DEF T
  <2>1. PICK p \in lockfile.packages : p.identity = v
    BY DEF LockedIds
  <2>2. Update!Name(p) \in Update!mark_reachable(lockfile.packages, names)
    BY DEF UnderLock, GoodLock
  <2>3. Update!Cardinality(lockfile.packages) \in Nat
    BY LocksAreFinite DEF UnderLock
  <2> HIDE DEF names
  <2>4. PICK n \in Nat : \E w :
            IsMarking(w, lockfile.packages, names, n) /\ Update!mark_reachable(lockfile.packages, names) = w[n]
    BY <2>3, Markings
  <2>5. PICK w : IsMarking(w, lockfile.packages, names, n) /\ Update!mark_reachable(lockfile.packages, names) = w[n]
    BY <2>4
  <2>6. w[n] \subseteq T
    BY <1>5, <1>6, <2>5, MarkingInduction
  <2>7. Update!OfName(LockedIds, Update!Name(p)) \subseteq Update!Identities
    BY <2>2, <2>5, <2>6 DEF T
  <2> QED
    BY <2>1, <2>7 DEF Update!OfName, Update!Name
<1> QED
  BY <1>1, <1>7

\* A solution of a catalogue is one of those that grew out of it.
LEMMA SolutionsLast ==
  ASSUME UpdateTyped, CataloguesGrow, policy = "unlocked", NEW S, Fits(S),
         catalog' \in catalog..Len(Catalogs), request' = request
  PROVE  Fits(S)'
<1>0. catalog \in DOMAIN Catalogs
  BY DEF UpdateTyped
<1>1. S \in SUBSET DOMAIN Update!Candidates /\ Update!Sound(S)
  BY DEF Fits
<1>2. ASSUME NEW id \in S
      PROVE  id \in DOMAIN Update!Candidates' /\ Update!Offered(id) \subseteq Update!Offered(id)'
  <2>1. id \in DOMAIN Catalogs[catalog].candidates
    BY <1>1 DEF Update!Candidates
  <2>2. /\ id \in DOMAIN Catalogs[catalog'].candidates
        /\ \A o \in Catalogs[catalog].candidates[id] : o.available =>
              \E x \in Catalogs[catalog'].candidates[id] : x.available /\ x.repository = o.repository
    BY <1>0, <2>1 DEF CataloguesGrow
  <2> QED
    BY <2>2 DEF Update!Offered, Update!Candidates
<1>3. \A name : Update!exact_root_identity(name)' = Update!exact_root_identity(name)
  BY DEF Update!exact_root_identity
<1>4. ASSUME NEW e, Asked(e), Update!Satisfied(S, e) PROVE Update!Satisfied(S, e)'
  <2>0. Update!exact_root_identity(e.name)' = Update!exact_root_identity(e.name)
    BY <1>3
  <2>1. CASE e.name = "R"
    BY <1>4, <2>1 DEF Update!Satisfied
  <2>2. CASE e.name # "R" /\ e.source = <<"any">> /\ e.name \in BaseNames
             /\ Update!exact_root_identity(e.name) = {}
    BY <1>4, <2>0, <2>2 DEF Update!Satisfied
  <2>3. CASE e.name # "R" /\ ~ (e.source = <<"any">> /\ e.name \in BaseNames
                                /\ Update!exact_root_identity(e.name) = {})
    <3>1. PICK id \in Update!OfName(S, e.name) :
            /\ Facts[id].version \in e.allowed
            /\ CASE e.source[1] = "any" -> TRUE
                 [] e.source[1] = "registry" -> Facts[id].namespace = e.source[2]
                 [] e.source[1] = "repository" -> e.source[2] \in Update!Offered(id)
                 [] e.source[1] = "exact" -> e.source[2] = id
                 [] e.source[1] = "git" -> FALSE
      BY <1>4, <2>3 DEF Update!Satisfied
    <3>2. Update!Offered(id) \subseteq Update!Offered(id)'
      BY <1>2, <3>1 DEF Update!OfName
    <3>3. /\ Update!OfName(S, e.name)' = Update!OfName(S, e.name) /\ Facts[id].version \in e.allowed
          /\ CASE e.source[1] = "any" -> TRUE
               [] e.source[1] = "registry" -> Facts[id].namespace = e.source[2]
               [] e.source[1] = "repository" -> e.source[2] \in Update!Offered(id)'
               [] e.source[1] = "exact" -> e.source[2] = id
               [] e.source[1] = "git" -> FALSE
      <4>1. e.source[1] \in {"any", "git", "registry", "repository", "exact"}
        BY <1>4, SourceForms
      <4> QED
        BY <3>1, <3>2, <4>1 DEF Update!OfName
    <3> QED
      BY <2>0, <2>3, <3>3 DEF Update!Satisfied
  <2> QED
    BY <2>1, <2>2, <2>3
<1>5. locked = <<>>
  BY DEF UpdateTyped
<1>6. Update!Sound(S)'
  <2>1. ASSUME NEW id \in S
        PROVE  /\ Update!Offered(id)' # {} \/ \E r \in request.roots : r.source = <<"exact", id>>
               /\ \A e \in Facts[id].edges :
                    \/ Update!Satisfied(S, e)'
                    \/ e.kind = "suggests" /\ ~ \E r \in request.roots : r.name = Facts[id].name /\ r.suggests
                    \/ e.kind = "enhances"
               /\ request.cutoff = 0 \/ Facts[id].date \in 1..request.cutoff
    <3>1. Update!Offered(id)' # {} \/ \E r \in request.roots : r.source = <<"exact", id>>
      BY <1>1, <1>2 DEF Update!Sound
    <3>2. ASSUME NEW e \in Facts[id].edges
          PROVE  \/ Update!Satisfied(S, e)'
                 \/ e.kind = "suggests" /\ ~ \E r \in request.roots : r.name = Facts[id].name /\ r.suggests
                 \/ e.kind = "enhances"
      <4>1. Asked(e)
        BY <1>1, Listed DEF Asked
      <4> QED
        BY <1>1, <1>4, <4>1 DEF Update!Sound
    <3>3. request.cutoff = 0 \/ Facts[id].date \in 1..request.cutoff
      <4>1. ~ \E k \in DOMAIN locked : locked[k] = id
        BY <1>5
      <4> QED
        BY <1>1, <4>1 DEF Update!Sound
    <3> QED
      BY <3>1, <3>2, <3>3
  <2>2. \A r \in request.roots : Update!Satisfied(S, r)'
    BY <1>1, <1>4 DEF Update!Sound, Asked
  <2> QED
    BY <1>1, <2>1, <2>2 DEF Update!Sound
<1> QED
  BY <1>1, <1>2, <1>6 DEF Fits

\* What a lock promises, from the moment it is written.
Reproducing ==
    /\ phase \in {"resolving", "locked"} => policy = "unlocked"
    /\ phase = "locked" => lockfile.request = request /\ GoodLock(lockfile) /\ Fits(LockedIds)
    /\ phase \in {"again", "answered", "mismatch"} /\ request = lockfile.request =>
          UnderLock /\ AsLocked /\ outcome \in {"solving", "solved", "views differ"} /\ phase # "mismatch"
    /\ phase \in {"answered", "mismatch"} => outcome # "solving"
    /\ phase = "answered" /\ policy = "require" /\ outcome = "solved" => Update!Identities = LockedIds

LEMMA ReproducingAnswers ==
  ASSUME UpdateTyped, UpdateInvariant, Reproducing
  PROVE  Update!LocksReproduce
<1>1. ASSUME phase \in {"answered", "mismatch"}, request = lockfile.request, outcome # "views differ"
      PROVE  phase = "answered" /\ outcome = "solved" /\ Update!Identities = LockedIds
  <2>1. phase = "answered" /\ outcome = "solved" /\ UnderLock /\ AsLocked
    BY <1>1 DEF Reproducing
  <2>2. Complete
    BY <2>1 DEF UpdateInvariant, Complete
  <2> QED
    BY <2>1, <2>2, LockIsReproduced
<1> QED
  BY <1>1 DEF Reproducing, Update!LocksReproduce, LockedIds

\* What complete decisions select is what was decided on, in every state.
SelectsTheChosen == \A x : x \in Update!Identities <=> Chosen(x)

LEMMA AnswersSelectTheChosen == UpdateTyped /\ UpdateInvariant /\ Complete => SelectsTheChosen
BY IdentitiesAreChosen DEF SelectsTheChosen

\* A resolution under a lock stays one.
LEMMA LockStays ==
  ASSUME Kept, UNCHANGED <<decided, nogoods, lockfile>>, UnderLock, AsLocked
  PROVE  UnderLock' /\ AsLocked'
<1>1. UnderLock' /\ LockedIds' = LockedIds
  BY UnderLockKept
<1>2. Update!Decisions' = Update!Decisions
  BY DEF Update!Decisions, Update!Decision
<1>3. \A d : Assigns(LockedIds, d)' <=> Assigns(LockedIds, d)
  BY <1>1, SoundKept
<1> QED
  BY <1>1, <1>2, <1>3 DEF AsLocked

\* An answer, and the lock it is compared with, stay as they are.
LEMMA AnswerStays ==
  ASSUME UpdateTyped, UpdateInvariant, UNCHANGED <<Update!solverVars, lockfile>>
  PROVE  /\ Kept /\ LockedIds' = LockedIds /\ outcome' = outcome
         /\ UnderLock /\ AsLocked => UnderLock' /\ AsLocked'
         /\ outcome = "solved" => Update!Identities' = Update!Identities
<1>1. /\ Kept /\ outcome' = outcome /\ decided' = decided /\ nogoods' = nogoods /\ lockfile' = lockfile
      /\ UNCHANGED <<catalog, request, policy, locked, decided, nogoods, outcome>>
  BY DEF Kept, Update!solverVars
<1>2. LockedIds' = LockedIds
  BY <1>1 DEF LockedIds
<1>3. UnderLock /\ AsLocked => UnderLock' /\ AsLocked'
  BY <1>1, LockStays
<1>4. ASSUME outcome = "solved" PROVE Update!Identities' = Update!Identities
  <2>1. UpdateTyped' /\ UpdateInvariant'
    BY <1>1, AnswerKept
  <2>2. Complete /\ Complete'
    BY <1>1, <1>4, <2>1 DEF UpdateInvariant, Complete
  <2>3. \A x : x \in Update!Identities <=> Chosen(x)
    BY <2>2, IdentitiesAreChosen
  <2>4. \A x : x \in Update!Identities' <=> Chosen(x)'
    <3>1. SelectsTheChosen'
      BY <2>1, <2>2, AnswersSelectTheChosen, PTL
    <3> QED
      BY <3>1 DEF SelectsTheChosen
  <2>5. \A x : Chosen(x)' <=> Chosen(x)
    BY <1>1 DEF Chosen, IsKey
  <2> QED
    BY <2>3, <2>4, <2>5
<1> QED
  BY <1>1, <1>2, <1>3, <1>4

LEMMA SolveReproduces ==
  ASSUME UpdateTyped, UpdateInvariant, CataloguesGrow, Reproducing, Update!Solve
  PROVE  Reproducing'
<1>1. phase \in {"resolving", "again"} /\ phase' = phase /\ lockfile' = lockfile
  BY DEF Update!Solve
<1>2. Kept
  BY DEF Update!Solve, Update!Decide, Update!solve, Kept
<1>3. CASE phase = "resolving"
  BY <1>1, <1>2, <1>3 DEF Reproducing, Kept
<1>4. CASE phase = "again" /\ request # lockfile.request
  BY <1>1, <1>2, <1>4 DEF Reproducing, Kept
<1>5. CASE phase = "again" /\ request = lockfile.request
  <2>1. UnderLock /\ AsLocked
    BY <1>5 DEF Reproducing
  <2>2. UnderLock' /\ AsLocked' /\ outcome' \in {"solving", "solved", "views differ"}
    <3>1. CASE Update!Decide
      BY <1>1, <2>1, <3>1, DecideAsLocked
    <3>2. CASE Update!solve
      <4>1. UNCHANGED <<decided, nogoods, lockfile>> /\ outcome' \in {"name conflict", "solved"}
        BY <1>1, <3>2 DEF Update!solve
      <4>2. outcome' # "name conflict"
        BY <3>2, SolveKeeps DEF UpdateInvariant
      <4> QED
        BY <1>2, <2>1, <4>1, <4>2, LockStays
    <3> QED
      BY <3>1, <3>2 DEF Update!Solve
  <2> QED
    BY <1>1, <1>5, <2>2 DEF Reproducing
<1> QED
  BY <1>1, <1>3, <1>4, <1>5

LEMMA WriteReproduces ==
  ASSUME UpdateTyped, UpdateInvariant, Reproducing, Update!WriteLock
  PROVE  Reproducing'
<1> DEFINE l == [packages |-> Update!from_resolution(Update!Solution), request |-> request]
<1>1. /\ phase = "resolving" /\ outcome = "solved" /\ UNCHANGED Update!solverVars
      /\ \/ Update!consume_composed_environment(l, request) /\ lockfile' = l /\ phase' = "locked"
         \/ phase' = "unusable"
  BY DEF Update!WriteLock
<1>2. Kept
  BY <1>1 DEF Update!solverVars, Kept
<1>3. CASE phase' = "unusable"
  BY <1>3 DEF Reproducing
<1>4. CASE Update!consume_composed_environment(l, request) /\ lockfile' = l /\ phase' = "locked"
  <2>1. Complete
    BY <1>1 DEF UpdateInvariant, Complete
  <2>2. l.request = request
    OBVIOUS
  <2>3. GoodLock(l) /\ {p.identity : p \in l.packages} = Update!Identities
    BY <1>4, <2>1, WrittenLock
  <2>4. Fits(Update!Identities)
    BY <2>1, AnswerFits
  <2> HIDE DEF l
  <2>5. GoodLock(lockfile)'
    BY <1>4, <2>3 DEF GoodLock, Recorded, RootNames, Followed, Update!mark_reachable, Update!Name
  <2>6. LockedIds' = Update!Identities
    BY <1>4, <2>3 DEF LockedIds
  <2>7. Fits(LockedIds)'
    BY <1>2, <2>4, <2>6, LoadedKept, SoundKept DEF Fits
  <2>8. lockfile'.request = request' /\ policy' = "unlocked"
    BY <1>1, <1>2, <1>4, <2>2 DEF Kept, Reproducing
  <2> QED
    BY <1>4, <2>5, <2>7, <2>8 DEF Reproducing
<1> QED
  BY <1>1, <1>3, <1>4

LEMMA AgainReproduces ==
  ASSUME UpdateTyped, UpdateInvariant, CataloguesGrow, Reproducing, Update!ResolveAgain
  PROVE  Reproducing'
<1>1. /\ phase = "locked" /\ lockfile' = lockfile /\ policy' \in {"prefer", "require"}
      /\ catalog' \in catalog..Len(Catalogs) /\ decided' = <<>> /\ nogoods' = {} /\ outcome' = "solving"
      /\ \/ phase' = "refused"
         \/ phase' = "again" /\ locked' = Update!locked_identities(lockfile.packages)
  BY DEF Update!ResolveAgain, Update!Begin
<1>2. policy = "unlocked" /\ lockfile.request = request /\ GoodLock(lockfile) /\ Fits(LockedIds)
  BY <1>1 DEF Reproducing
<1>3. LockedIds' = LockedIds
  BY <1>1 DEF LockedIds
<1>4. ASSUME phase' = "again", request' = lockfile'.request PROVE UnderLock' /\ AsLocked'
  <2>1. request' = request
    BY <1>1, <1>2, <1>4
  <2>2. Fits(LockedIds)'
    BY <1>1, <1>2, <1>3, <2>1, SolutionsLast
  <2>3. GoodLock(lockfile)'
    BY <1>1, <1>2 DEF GoodLock, Recorded, RootNames, Followed, Update!mark_reachable, Update!Name
  <2>4. locked' = Update!locked_identities(lockfile.packages)'
    BY <1>1, <1>4 DEF Update!locked_identities, Update!identity_solver_keys, Update!Name
  <2>5. AsLocked'
    BY <1>1 DEF AsLocked, Update!Decisions, Update!Decision
  <2> QED
    BY <1>1, <1>4, <2>2, <2>3, <2>4, <2>5 DEF UnderLock
<1> QED
  BY <1>1, <1>4 DEF Reproducing

LEMMA EndReproduces ==
  ASSUME UpdateTyped, UpdateInvariant, Reproducing, Update!Conclude \/ Update!Terminating
  PROVE  Reproducing'
<1>1. UNCHANGED <<Update!solverVars, lockfile>>
  BY DEF Update!Conclude, Update!Terminating, Update!vars
<1>2. /\ Kept /\ LockedIds' = LockedIds /\ outcome' = outcome /\ lockfile' = lockfile
      /\ request' = request /\ policy' = policy
      /\ UnderLock /\ AsLocked => UnderLock' /\ AsLocked'
      /\ outcome = "solved" => Update!Identities' = Update!Identities
  BY <1>1, AnswerStays DEF Kept
<1>3. CASE Update!Conclude
  <2>1. /\ phase = "again" /\ outcome # "solving"
        /\ phase' = IF policy = "require" /\ outcome = "solved" /\ Update!Identities # LockedIds
                    THEN "mismatch" ELSE "answered"
    BY <1>3 DEF Update!Conclude, Update!verify_exact_identity_set, LockedIds
  <2>2. ASSUME request = lockfile.request, outcome = "solved" PROVE Update!Identities = LockedIds
    <3>1. UnderLock /\ AsLocked
      BY <2>1, <2>2 DEF Reproducing
    <3>2. Complete
      BY <2>2 DEF UpdateInvariant, Complete
    <3> QED
      BY <3>1, <3>2, LockIsReproduced
  <2> QED
    BY <1>2, <2>1, <2>2 DEF Reproducing
<1>4. CASE Update!Terminating
  <2>1. phase' = phase
    BY <1>4 DEF Update!Terminating, Update!vars
  <2>2. phase # "locked"
    BY <1>4 DEF Update!Terminating, Update!Over
  <2> QED
    BY <1>2, <2>1, <2>2 DEF Reproducing
<1> QED
  BY <1>3, <1>4

LEMMA StutterReproduces ==
  ASSUME UpdateTyped, UpdateInvariant, Reproducing, UNCHANGED <<Update!solverVars, lockfile, phase>>
  PROVE  Reproducing'
<1>1. /\ Kept /\ LockedIds' = LockedIds /\ outcome' = outcome
      /\ UnderLock /\ AsLocked => UnderLock' /\ AsLocked'
      /\ outcome = "solved" => Update!Identities' = Update!Identities
  BY AnswerStays
<1>2. phase' = phase /\ lockfile' = lockfile /\ request' = request /\ policy' = policy
  BY <1>1 DEF Kept
<1>3. GoodLock(lockfile)' <=> GoodLock(lockfile)
  BY <1>2 DEF GoodLock, Recorded, RootNames, Followed, Update!mark_reachable, Update!Name
<1>4. Fits(LockedIds)' <=> Fits(LockedIds)
  BY <1>1, LoadedKept, SoundKept DEF Fits
<1> QED
  BY <1>1, <1>2, <1>3, <1>4 DEF Reproducing

LEMMA ReproducingKept ==
  ASSUME UpdateTyped, UpdateInvariant, CataloguesGrow, Reproducing, Update!Next
  PROVE  Reproducing'
BY SolveReproduces, WriteReproduces, AgainReproduces, EndReproduces DEF Update!Next

(***************************************************************************)
(* The resolver among the components of a project                          *)
(***************************************************************************)

UpdateNow == which = "update" => UpdateTyped /\ UpdateInvariant

LEMMA UpdateStarts ==
  ASSUME ProjectInit
  PROVE  UpdateNow
<1> SUFFICES ASSUME which = "update" PROVE UpdateTyped /\ UpdateInvariant
  BY DEF UpdateNow
<1>1. Update!Init
  BY DEF ProjectInit
<1>2. /\ catalog \in DOMAIN Catalogs /\ request \in Requests /\ policy = "unlocked" /\ locked = <<>>
      /\ decided = <<>> /\ nogoods = {} /\ outcome = "solving"
  BY <1>1 DEF Update!Init
<1>3. DOMAIN decided = {} /\ IsSequence(decided)
  BY <1>2, EmptySequence
<1> QED
  BY <1>2, <1>3 DEF UpdateTyped, UpdateInvariant, DecisionsAreKnown, Agreeing, ConflictsAreReal

LEMMA UpdateContinues ==
  ASSUME UpdateNow, [ProjectNext]_projectVars
  PROVE  UpdateNow'
<1> SUFFICES ASSUME which' = "update" PROVE UpdateTyped' /\ UpdateInvariant'
  BY DEF UpdateNow
<1>1. which' = which
  BY DEF ProjectNext, CopyNext, CopyEnded, CommandNext, PreparationNext, ResolutionNext, UpdateNext, projectVars
<1>2. UpdateTyped /\ UpdateInvariant
  BY <1>1 DEF UpdateNow
<1>3. CASE UpdateNext
  BY <1>2, <1>3, UpdateKeeps DEF UpdateNext
<1>4. CASE UNCHANGED projectVars
  BY <1>2, <1>4, AnswerKept DEF projectVars, updateOnly
<1> QED
  BY <1>1, <1>3, <1>4 DEF ProjectNext, CopyNext, CopyEnded, CommandNext, PreparationNext, ResolutionNext

(***************************************************************************)
(* What a resolution returns (adapter.rs and lib.rs of rsolve-resolver) is  *)
(* a solution in the sense of the reference, which knows nothing of solver  *)
(* keys, occupancy or decisions; it never ends in a name conflict, since    *)
(* releases occupy their names; and when a resolution without a lock says   *)
(* that there is none, no set of releases of the catalogue is a solution.   *)
(* This holds for any releases, catalogues, requests and locks, and         *)
(* whatever PubGrub forgets after a conflict.                               *)
(***************************************************************************)
THEOREM AnswersAreTheReferences == ProjectSpec => []AnswerIsTheReferences
<1>1. ProjectInit => UpdateNow
  BY UpdateStarts
<1>2. UpdateNow /\ [ProjectNext]_projectVars => UpdateNow'
  BY UpdateContinues
<1>3. UpdateNow => AnswerIsTheReferences
  BY InvariantAnswers DEF UpdateNow, AnswerIsTheReferences
<1> QED
  BY <1>1, <1>2, <1>3, PTL DEF ProjectSpec

ReproducingNow == which = "update" => Reproducing

LEMMA ReproducingStarts ==
  ASSUME ProjectInit
  PROVE  ReproducingNow
<1> SUFFICES ASSUME which = "update" PROVE Reproducing
  BY DEF ReproducingNow
<1>1. phase = "resolving" /\ policy = "unlocked"
  BY DEF ProjectInit, Update!Init
<1> QED
  BY <1>1 DEF Reproducing

LEMMA ReproducingContinues ==
  ASSUME CataloguesGrow, UpdateNow, ReproducingNow, [ProjectNext]_projectVars
  PROVE  ReproducingNow'
<1> SUFFICES ASSUME which' = "update" PROVE Reproducing'
  BY DEF ReproducingNow
<1>1. which' = which
  BY DEF ProjectNext, CopyNext, CopyEnded, CommandNext, PreparationNext, ResolutionNext, UpdateNext, projectVars
<1>2. UpdateTyped /\ UpdateInvariant /\ Reproducing
  BY <1>1 DEF UpdateNow, ReproducingNow
<1>3. CASE UpdateNext
  BY <1>2, <1>3, ReproducingKept DEF UpdateNext
<1>4. CASE UNCHANGED projectVars
  <2>1. UNCHANGED <<Update!solverVars, lockfile, phase>>
    BY <1>4 DEF projectVars, updateOnly, Update!solverVars
  <2> QED
    BY <1>2, <2>1, StutterReproduces
<1> QED
  BY <1>1, <1>3, <1>4 DEF ProjectNext, CopyNext, CopyEnded, CommandNext, PreparationNext, ResolutionNext

(***************************************************************************)
(* A lock is reproduced while the manifest stays as it was: resolved again  *)
(* under the lock (resolve_with_lock_policy, preferring or exact), against  *)
(* a catalogue that may have newer releases of everything but still offers  *)
(* what it did, the request selects exactly the locked releases, unless the *)
(* resolution stops because two keys show a release differently.  The exact *)
(* policy never answers with anything else, whatever the request.           *)
(***************************************************************************)
THEOREM LocksAreReproduced ==
  ASSUME CataloguesGrow
  PROVE  ProjectSpec => []LocksReproduce
<1>1. ProjectInit => UpdateNow /\ ReproducingNow
  BY UpdateStarts, ReproducingStarts
<1>2. UpdateNow /\ ReproducingNow /\ [ProjectNext]_projectVars => UpdateNow' /\ ReproducingNow'
  BY UpdateContinues, ReproducingContinues
<1>3. UpdateNow /\ ReproducingNow => LocksReproduce
  BY ReproducingAnswers DEF UpdateNow, ReproducingNow, LocksReproduce
<1> QED
  BY <1>1, <1>2, <1>3, PTL DEF ProjectSpec
=============================================================================
