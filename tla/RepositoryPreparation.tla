----------------------- MODULE RepositoryPreparation -----------------------
(***************************************************************************)
(* prepare_r_universe_project_repository (repository_preparation.rs) and    *)
(* the acquisition of selected artifacts (artifact_acquisition.rs): every   *)
(* selected package is planned and probed before anything is fetched, the   *)
(* plans are carried out in order, and the acquired artifacts are           *)
(* materialized as one repository.  Several calls share the artifact cache  *)
(* and the project.                                                        *)
(*                                                                         *)
(* The cache is used as ArtifactIndex promises it, the project as           *)
(* ProjectView does: `bound` and `view` are their states.                   *)
(***************************************************************************)
EXTENDS Naturals, Sequences

CONSTANTS
    Calls,
    Selections,    \* sequences of [name, git, visible, offers]
    Repositories,  \* [repository -> [universe : BOOLEAN, allowed : names]]
    Bytes,         \* what a server may send: the names its archive describes
    MaxLost,       \* bound on the artifacts the cache loses
    None

VARIABLES
    selection,     \* [call -> the resolution's packages]
    offline,       \* [call -> the acquisition mode is Offline]
    bound,         \* [descriptor -> the archive the cache holds, or None]
    view,          \* the materialized artifacts, or None
    call,          \* [call -> [pc, plans, failed, artifacts, body]]
    lost

vars == <<selection, offline, bound, view, call, lost>>

Packages == UNION {{s[i] : i \in 1..Len(s)} : s \in Selections}
Artifacts == UNION {UNION {p.offers[r] : r \in DOMAIN p.offers} : p \in Packages}

(* The descriptor includes the expectation: the release's name and version. *)
Descriptors == {<<a, p.name>> : a \in Artifacts, p \in Packages}

Idle == [pc |-> "preflight", plans |-> <<>>, failed |-> FALSE, artifacts |-> <<>>, body |-> None]

Init ==
    /\ selection \in [Calls -> Selections]
    /\ offline \in [Calls -> BOOLEAN]
    /\ bound = [d \in Descriptors |-> None]
    /\ view = None
    /\ call = [c \in Calls |-> Idle]
    /\ lost = 0

-----------------------------------------------------------------------------
(* plan_selected_artifact: the visible repositories in their order.         *)

package_allowed(r, p) == p.name \in Repositories[r].allowed

Candidate(p, r) ==
    /\ r \in DOMAIN Repositories /\ package_allowed(r, p) /\ Repositories[r].universe
    /\ p.offers[r] # {}

(* A mutant: a repository of lower priority decides.                        *)
LastRepository(p) ==
    LET good == {i \in 1..Len(p.visible) : Candidate(p, p.visible[i])}
    IN  IF good = {} THEN None ELSE p.visible[CHOOSE i \in good : \A j \in good : j <= i]

FirstRepository(p) ==
    LET good == {i \in 1..Len(p.visible) : Candidate(p, p.visible[i])}
    IN  IF good = {} THEN None ELSE p.visible[CHOOSE i \in good : \A j \in good : i <= j]

unique_artifact(artifacts) == IF \E a \in artifacts : artifacts = {a} THEN CHOOSE a \in artifacts : TRUE ELSE None

plan_selected_artifact(p) ==
    IF FirstRepository(p) = None \/ ~ p.git THEN None
    ELSE unique_artifact(p.offers[FirstRepository(p)])

validate_http_locator(a) == a.http

Remaining(c) == selection[c][Len(call[c].plans) + 1]
Descriptor(a, p) == <<a, p.name>>
SameCall == UNCHANGED <<selection, offline, view, lost>>

(* preflight_selected_artifact, of one package; a failure, of the look into *)
(* the cache too, is collected and the other packages are still examined.   *)
Preflight(c) ==
    /\ call[c].pc = "preflight" /\ Len(call[c].plans) < Len(selection[c])
    /\ \E probed \in BOOLEAN :
        LET p == Remaining(c)
            a == plan_selected_artifact(p)
            cached == IF a = None \/ ~ probed THEN None ELSE bound[Descriptor(a, p)]
            capable == /\ a # None /\ probed
                       /\ cached # None \/ (~ offline[c] /\ validate_http_locator(a))
        IN  call' = [call EXCEPT
                         ![c].plans = Append(@, [artifact |-> a, cached |-> cached]),
                         ![c].failed = @ \/ ~ capable]
    /\ UNCHANGED bound /\ SameCall

PreflightEnds(c) ==
    /\ call[c].pc = "preflight" /\ Len(call[c].plans) = Len(selection[c])
    /\ call' = [call EXCEPT ![c].pc = IF call[c].failed THEN "failed" ELSE "acquire"]
    /\ UNCHANGED bound /\ SameCall

-----------------------------------------------------------------------------
(* acquire_planned_artifact, of one package.                                *)

Place(c) == Len(call[c].artifacts) + 1
Plan(c) == call[c].plans[Place(c)]
Key(c) == Descriptor(Plan(c).artifact, selection[c][Place(c)])
Acquired(c, b) == [artifact |-> Plan(c).artifact, name |-> selection[c][Place(c)].name, bytes |-> b]
Planned(c, pc) == call[c].pc = pc /\ Place(c) <= Len(call[c].plans)

(* What the preflight found, or what a second look finds; the look may fail. *)
Acquire(c) ==
    /\ Planned(c, "acquire")
    /\ LET b == IF Plan(c).artifact = None THEN None
                ELSE IF Plan(c).cached # None THEN Plan(c).cached ELSE bound[Key(c)]
       IN  \/ /\ b # None
              /\ call' = [call EXCEPT ![c].artifacts = Append(@, Acquired(c, b))]
           \/ /\ b = None
              /\ call' = [call EXCEPT ![c].pc = IF offline[c] THEN "failed" ELSE "fetch"]
           \/ /\ Plan(c).cached = None
              /\ call' = [call EXCEPT ![c].pc = "failed"]
    /\ UNCHANGED bound /\ SameCall

(* The server sends an archive; it may instead refuse, or fail.             *)
Fetch(c) ==
    /\ call[c].pc = "fetch"
    /\ \/ \E b \in Bytes : call' = [call EXCEPT ![c].pc = "commit", ![c].body = b]
       \/ call' = [call EXCEPT ![c].pc = "failed"]
    /\ UNCHANGED bound /\ SameCall

(* The archive describes the release the expectation names.                 *)
Validates(b, name) == name \in b

(* commit_source_artifact_with_expectation: what the index is bound to, or  *)
(* what was fetched, once it is validated.  A call that fails may have      *)
(* bound it all the same.                                                   *)
Commit(c) ==
    /\ call[c].pc = "commit"
    /\ LET b == IF bound[Key(c)] # None THEN bound[Key(c)] ELSE call[c].body
       IN  \/ /\ bound[Key(c)] # None \/ Validates(b, Key(c)[2])
              /\ bound' = [bound EXCEPT ![Key(c)] = b]
              /\ \/ call' = [call EXCEPT ![c].pc = "acquire", ![c].body = None,
                                         ![c].artifacts = Append(@, Acquired(c, b))]
                 \/ call' = [call EXCEPT ![c].pc = "failed"]
           \/ bound' = bound /\ call' = [call EXCEPT ![c].pc = "failed"]
    /\ SameCall

Materialize(c) ==
    /\ call[c].pc = "acquire" /\ Place(c) > Len(call[c].plans)
    /\ \/ /\ view \in {None, call[c].artifacts}
          /\ view' = call[c].artifacts /\ call' = [call EXCEPT ![c].pc = "done"]
       \/ view' = view /\ call' = [call EXCEPT ![c].pc = "failed"]
    /\ UNCHANGED <<selection, offline, bound, lost>>

(* Something outside the program removes a cached descriptor, or a loss of  *)
(* power undoes its publication (Forget of ArtifactIndex).                  *)
Lose(d) ==
    /\ lost < MaxLost /\ bound[d] # None
    /\ bound' = [bound EXCEPT ![d] = None] /\ lost' = lost + 1
    /\ UNCHANGED <<selection, offline, view, call>>

Over == \A c \in Calls : call[c].pc \in {"done", "failed"}
Returned == Over /\ UNCHANGED vars

Next ==
    \/ \E c \in Calls : \/ Preflight(c) \/ PreflightEnds(c) \/ Acquire(c)
                        \/ Fetch(c) \/ Commit(c) \/ Materialize(c)
    \/ ~ Over /\ \E d \in Descriptors : Lose(d)
    \/ Returned

Spec == Init /\ [][Next]_vars

-----------------------------------------------------------------------------
(***************************************************************************)
(* The repository of a project holds every package of some call's           *)
(* selection, in one piece: for each, the only source artifact the first    *)
(* visible repository able to give one offers, and bytes that describe the  *)
(* release.  No package is silently left out, whatever the other calls and  *)
(* the servers do between the preflight and the acquisition.                *)
(***************************************************************************)
Wanted(p, a) ==
    \E i \in 1..Len(p.visible) :
        /\ Candidate(p, p.visible[i]) /\ p.offers[p.visible[i]] = {a}
        /\ \A j \in 1..(i - 1) : ~ Candidate(p, p.visible[j])

PublishedIsTheSelection ==
    view # None =>
        \E c \in Calls :
            /\ Len(view) = Len(selection[c])
            /\ \A i \in 1..Len(view) :
                /\ view[i].name = selection[c][i].name
                /\ Wanted(selection[c][i], view[i].artifact)
                /\ view[i].name \in view[i].bytes

=============================================================================
