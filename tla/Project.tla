------------------------------ MODULE Project ------------------------------
(***************************************************************************)
(* The components that work on one project and whose states are small, in  *)
(* one specification: `which` says the one that runs.  A variable belongs  *)
(* to every component that has one of its name, and is <<>> where the      *)
(* component that runs has none.                                           *)
(***************************************************************************)
EXTENDS Integers, Sequences, FiniteSets

CONSTANTS
    Explored,       \* the components that run
    None,
    \* BoundedCopy
    Lengths, Expected, HardLimit, Buffer, MaxSize,
    \* LockCommand
    Commands, Resolutions, MaxForeign,
    \* RepositoryPreparation
    Calls, SelectionLists, Repositories, Bytes, MaxLost,
    \* RepositoryResolution
    PackageNames, RBase, Unqualified, Environments,
    \* LockUpdate
    Facts, Catalogs, Ranks, BaseNames, RVersion, Requests

VARIABLES
    which,
    length, expected, size, consumed, outcome,
    folding, dir, disk, files, synced, proc, foreign, down,
    selection, offline, bound, view, call, lost,
    env, stage, snap, cranRoots, prepared, work, plan, groups,
    catalog, request, policy, locked, decided, nogoods, interned, lockfile, phase

copyOnly == <<length, expected, size, consumed>>
commandOnly == <<folding, dir, disk, files, synced, proc, foreign, down>>
preparationOnly == <<selection, offline, bound, view, call, lost>>
resolutionOnly == <<env, stage, snap, cranRoots, prepared, work, plan, groups>>
updateOnly == <<catalog, request, policy, locked, decided, nogoods, interned, lockfile, phase>>

projectVars == <<which, copyOnly, outcome, commandOnly, preparationOnly, resolutionOnly, updateOnly>>

Stream == INSTANCE BoundedCopy
Command == INSTANCE LockCommand
Preparation == INSTANCE RepositoryPreparation WITH Selections <- SelectionLists
Resolution == INSTANCE RepositoryResolution WITH
    Packages <- PackageNames, AnySource <- Unqualified, pc <- stage
Update == INSTANCE LockUpdate WITH lock <- lockfile

-----------------------------------------------------------------------------
(* What the components assume.                                              *)

(* Sizes are u64, of which MaxSize is the greatest.                         *)
ASSUME SizesAssumption ==
    /\ MaxSize \in Nat /\ Buffer \in Nat \ {0} /\ Buffer <= MaxSize
    /\ HardLimit \in 0..MaxSize
    /\ Lengths \subseteq Nat
    /\ Expected \subseteq 0..MaxSize \cup {None}
    /\ None \notin Int

(* A file that a command wrote is told apart from a directory.              *)
ASSUME CommandAssumption == "directory" \notin DOMAIN Commands

(* A selection is a list of packages, whose visible repositories are a list *)
(* too; every configured repository offers something, or nothing, of each.  *)
ASSUME PreparationAssumption ==
    /\ SelectionLists \subseteq Seq(Preparation!Packages)
    /\ \A p \in Preparation!Packages : Len(p.visible) \in Nat /\ DOMAIN Repositories \subseteq DOMAIN p.offers

(* Repositories are CRAN or r-universe ones (others are rejected), a cached *)
(* view of CRAN is partial and of the same contents as the registry, and a  *)
(* root that names its repository is not called like a base package.        *)
ASSUME ResolutionAssumption ==
    /\ IsFiniteSet(PackageNames)
    /\ \A x \in Environments :
        /\ IsFiniteSet(DOMAIN x.repos)
        /\ \A e \in DOMAIN x.repos :
              x.repos[e].kind \in {"cran", "r-universe"} /\ x.repos[e].allow \subseteq PackageNames
        /\ \A r \in x.roots : r.source \notin {Unqualified, "git"} => r.name \notin RBase
        /\ x.view # None => ~x.view.complete /\ \A p \in DOMAIN x.view.held : x.view.held[p] = x.cran[p]
        /\ \A S \in SUBSET PackageNames :
              None \notin {[held |-> [p \in S |-> x.cran[p]], complete |-> FALSE],
                          [held |-> [p \in S |-> x.univ[p]], complete |-> TRUE]}

(* The source of a requirement: a dependency that a release declares never  *)
(* names an exact release, and no registry is that of Git or base releases. *)
Declared(source) ==
    \/ source \in {<<"any">>, <<"git">>}
    \/ source = <<"repository", source[2]>>
    \/ source = <<"registry", source[2]>> /\ source[2] \notin {"git", "base"}

(* Releases are told apart by their order, and none is called R; exactly    *)
(* the base packages come with R, one for each name, and require nothing; a *)
(* direct Git release has the name its root asks for.                       *)
ASSUME UpdateAssumption ==
    /\ IsFiniteSet(DOMAIN Facts) /\ None \notin DOMAIN Facts \cup {"root", "R"}
    /\ \A id \in DOMAIN Facts :
        /\ {Facts[id].version, Facts[id].date, Facts[id].order} \subseteq Nat /\ Facts[id].name # "R"
        /\ Facts[id].exposure = "runtime" <=> Update!Base(id)
        /\ Update!Base(id) => Facts[id].edges = {}
        /\ \A e \in Facts[id].edges :
            /\ e.kind \in {"depends", "imports", "linking", "suggests", "enhances"}
            /\ Declared(e.source) /\ (e.name = "R" => e.source = <<"any">>)
        /\ \A other \in DOMAIN Facts :
            \/ Facts[id].order = Facts[other].order
            \/ Update!Base(id) /\ Update!Base(other) /\ Facts[id].name = Facts[other].name
            => id = other
    /\ IsFiniteSet(DOMAIN Ranks) /\ \A r \in DOMAIN Ranks : Ranks[r] \in Nat
    /\ Len(Catalogs) \in Nat /\ DOMAIN Catalogs = 1..Len(Catalogs)
    /\ \A c \in DOMAIN Catalogs : \A id \in DOMAIN Catalogs[c].candidates :
        /\ id \in DOMAIN Facts /\ ~ Update!Base(id)
        /\ \A o \in Catalogs[c].candidates[id] : o.repository \in DOMAIN Ranks
    /\ \A q \in Requests : q.cutoff \in Nat /\ \A r \in q.roots :
        /\ r.name # "R"
        /\ \/ Declared(r.source)
           \/ /\ r.source = <<"exact", r.source[2]>> /\ r.source[2] \in DOMAIN Facts
              /\ Facts[r.source[2]].name = r.name /\ Facts[r.source[2]].exposure = "exact"
              /\ Facts[r.source[2]].namespace = "git"

(* A later catalogue still offers what an earlier one did, and the releases *)
(* of a catalogue can be loaded.  Only LocksReproduce needs it.             *)
CataloguesGrow ==
    \A c \in DOMAIN Catalogs : \A id \in DOMAIN Catalogs[c].candidates :
        /\ Facts[id].name \notin Catalogs[c].broken
        /\ \A d \in c..Len(Catalogs) :
            /\ id \in DOMAIN Catalogs[d].candidates
            /\ \A o \in Catalogs[c].candidates[id] : o.available =>
                  \E x \in Catalogs[d].candidates[id] : x.available /\ x.repository = o.repository

-----------------------------------------------------------------------------
NoCopy == length = <<>> /\ expected = <<>> /\ size = <<>> /\ consumed = <<>>
NoCommand ==
    /\ folding = <<>> /\ dir = <<>> /\ disk = <<>> /\ files = <<>> /\ synced = <<>> /\ proc = <<>>
    /\ foreign = <<>> /\ down = <<>>
NoPreparation ==
    selection = <<>> /\ offline = <<>> /\ bound = <<>> /\ view = <<>> /\ call = <<>> /\ lost = <<>>
NoResolution ==
    /\ env = <<>> /\ stage = <<>> /\ snap = <<>> /\ cranRoots = <<>> /\ prepared = <<>> /\ work = <<>>
    /\ plan = <<>> /\ groups = <<>>
NoUpdate ==
    /\ catalog = <<>> /\ request = <<>> /\ policy = <<>> /\ locked = <<>> /\ decided = <<>> /\ nogoods = <<>>
    /\ interned = <<>> /\ lockfile = <<>> /\ phase = <<>>
Nothing == NoCopy /\ outcome = <<>> /\ NoCommand /\ NoPreparation /\ NoResolution /\ NoUpdate

ProjectInit ==
    \/ which = "copy" /\ Stream!Init /\ NoCommand /\ NoPreparation /\ NoResolution /\ NoUpdate
    \/ which = "command" /\ Command!Init /\ NoCopy /\ outcome = <<>> /\ NoPreparation /\ NoResolution /\ NoUpdate
    \/ which = "preparation" /\ Preparation!Init /\ NoCopy /\ outcome = <<>> /\ NoCommand /\ NoResolution /\ NoUpdate
    \/ which = "resolution" /\ Resolution!Init /\ NoCopy /\ NoCommand /\ NoPreparation /\ NoUpdate
    \/ which = "update" /\ Update!Init /\ NoCopy /\ NoCommand /\ NoPreparation /\ NoResolution

CopyNext ==
    which = "copy" /\ Stream!Next /\ UNCHANGED <<which, commandOnly, preparationOnly, resolutionOnly, updateOnly>>
CopyEnded == which = "copy" /\ outcome # "none" /\ UNCHANGED projectVars
CommandNext ==
    /\ which = "command" /\ Command!Next
    /\ UNCHANGED <<which, copyOnly, outcome, preparationOnly, resolutionOnly, updateOnly>>
PreparationNext ==
    /\ which = "preparation" /\ Preparation!Next
    /\ UNCHANGED <<which, copyOnly, outcome, commandOnly, resolutionOnly, updateOnly>>
ResolutionNext ==
    which = "resolution" /\ Resolution!Next /\ UNCHANGED <<which, copyOnly, commandOnly, preparationOnly, updateOnly>>
UpdateNext ==
    which = "update" /\ Update!Next /\ UNCHANGED <<which, copyOnly, commandOnly, preparationOnly, resolutionOnly>>

ProjectNext == CopyNext \/ CopyEnded \/ CommandNext \/ PreparationNext \/ ResolutionNext \/ UpdateNext
ProjectSpec == which \in Explored /\ ProjectInit /\ [][ProjectNext]_projectVars

-----------------------------------------------------------------------------
(* The properties of the components, where they are the ones that run.      *)

(* The copy of a stream accepts exactly the lengths it should, however the  *)
(* reader cuts the stream (BoundedCopy).                                    *)
OutcomeIsTheReference == which = "copy" => Stream!OutcomeIsTheReference

(* The lock is there as a whole or not at all (LockCommand).                *)
LockIsWhole == which = "command" => Command!LockIsWhole

(* The report of `rsolve lock` does not replace its lock (LockCommand).     *)
ReportsSpareTheLock == [][which = "command" => Command!SparesTheLock]_projectVars

(* A repository holds all of a selection, from where it should come         *)
(* (RepositoryPreparation).                                                 *)
PublishedIsTheSelection == which = "preparation" => Preparation!PublishedIsTheSelection

(* Each snapshot the solver gets covers what may be demanded of it          *)
(* (RepositoryResolution).                                                  *)
SnapshotsCoverTheClosure == which = "resolution" => Resolution!SnapshotsCoverTheClosure

(* A package that CRAN does not have is an ordinary absence                 *)
(* (RepositoryResolution).                                                  *)
AbsenceIsOrdinary == which = "resolution" => Resolution!AbsenceIsOrdinary

(* The adapter's answer is that of the reference search (LockUpdate).       *)
AnswerIsTheReferences == which = "update" => Update!AnswerIsTheReferences

(* A lock is reproduced while the manifest stays as it was (LockUpdate).    *)
LocksReproduce == which = "update" => Update!LocksReproduce

=============================================================================
