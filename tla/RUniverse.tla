----------------------------- MODULE RUniverse -----------------------------
(***************************************************************************)
(* The r-universe provider (rsolve-provider/src/r_universe.rs and          *)
(* r_universe/provider.rs): a catalogue is fetched in several requests     *)
(* without any lock, validated as a whole and published as a view of the   *)
(* snapshot store under its endpoint and its coverage scope; a later call  *)
(* opens the newest view that covers what it asks for.                     *)
(*                                                                         *)
(* A package at an endpoint is an entry of the catalogue or Absent.        *)
(* `history` records every state the servers went through.                 *)
(***************************************************************************)
EXTENDS Naturals, FiniteSets, Sequences

CONSTANTS
    Calls,          \* the calls, each of a process of its own
    Packages,
    Endpoints,      \* of one registry
    Entries,        \* what an endpoint may have for a package
    Scopes,         \* the scopes asked for: All, or a set of packages
    FirstEntries,   \* what the endpoints have at first
    Changing,       \* bound: the endpoints that change
    MaxChanges,     \* bound on the changes of the servers
    MaxDamage,      \* bound on the damage to view heads
    All, Absent, None

VARIABLES
    history,        \* the states of the servers, the present one last
    views,          \* (endpoint, scope) -> the view head, or None
    call,           \* the local state of each call
    damage          \* how many heads were damaged

vars == <<history, views, call, damage>>

universe == history[Len(history)]
Goto(c, changes) == call' = [call EXCEPT ![c] = [f \in DOMAIN @ |-> IF f \in DOMAIN changes THEN changes[f] ELSE @[f]]]

NotStarted == [pc |-> "start", endpoint |-> None, scope |-> None, mode |-> None, todo |-> None, got |-> None,
               began |-> 0, view |-> None, error |-> None]

Init ==
    /\ history \in {<<[e \in Endpoints |-> first]>> : first \in FirstEntries}
    /\ views = [k \in Endpoints \X Scopes |-> None]
    /\ call = [c \in Calls |-> NotStarted]
    /\ damage = 0

----------------------------------------------------------------------------
(* CoverageScope.                                                          *)

CoversAnyOf(available, requested) == available = All \/ (requested # All /\ requested \cap available # {})
covers(available, requested) == available = All \/ (requested # All /\ requested \subseteq available)

extra_package_count(available, requested) ==
    IF available = All THEN (IF requested = All THEN 0 ELSE Cardinality(Packages) + 1)
    ELSE Cardinality(available) - Cardinality(requested)

(* canonical_allowlist refuses an empty set of packages.                   *)
canonical(scope) == scope = All \/ scope # {}

----------------------------------------------------------------------------
(* A catalogue is read as a whole: one entry that is malformed or whose    *)
(* build did not succeed refuses the response.                             *)

parse_source_artifact(e) == e.status = "success"
parse_dependencies(e) == e.dependencies = "agree"
parse_package(e) == parse_source_artifact(e) /\ parse_dependencies(e)
from_json(response) == \A p \in DOMAIN response : parse_package(response[p])
to_wire_release(e) == e.version

Present(e) == {p \in Packages : universe[e][p] # Absent}
Respond(e, packages) == [p \in packages |-> universe[e][p]]

(* A call that returns keeps its answer and forgets the rest.              *)
Return(c, view) == Goto(c, [pc |-> "done", view |-> view, todo |-> None, got |-> None])
Fail(c, error) == call' = [call EXCEPT ![c] = [NotStarted EXCEPT !.pc = "done", !.error = error]]

(* RUniverseProvider::new and the choice made by the resolution: offline,  *)
(* with a refresh requested, or taking a compatible view when there is one.*)
Start(c, endpoint, scope, mode) ==
    /\ call[c].pc = "start"
    /\ IF ~canonical(scope) THEN Fail(c, "invalid_allowlist")
       ELSE Goto(c, [pc |-> IF mode = "refresh" THEN "fetch" ELSE "open",
                     endpoint |-> endpoint, scope |-> scope, mode |-> mode, began |-> Len(history)])
    /\ UNCHANGED <<history, views, damage>>

(* open_compatible_with_mode, under the refresh lock: the newest view that *)
(* covers the request, among equals the one with the fewest other          *)
(* packages.  Online, only views validated for this endpoint count.        *)
Heads == {k \in DOMAIN views : views[k] # None}
Compatible(c) ==
    {k \in Heads : /\ views[k].intact
                   /\ call[c].mode = "offline" \/ k[1] = call[c].endpoint
                   /\ covers(k[2], call[c].scope)}
Preferred(c, k, l) ==
    \/ views[k].sequence > views[l].sequence
    \/ /\ views[k].sequence = views[l].sequence
       /\ extra_package_count(k[2], call[c].scope) <= extra_package_count(l[2], call[c].scope)

Open(c) ==
    /\ call[c].pc = "open"
    /\ \/ \E k \in Compatible(c) :
             /\ \A l \in Compatible(c) : Preferred(c, k, l)
             /\ Return(c, views[k])
       \/ /\ Compatible(c) = {}
          /\ IF call[c].mode = "online" THEN Goto(c, [pc |-> "fetch"])
             ELSE Fail(c, IF \E k \in Heads : ~views[k].intact THEN "corrupt"
                          ELSE IF Heads = {} THEN "missing" ELSE "incompatible")
    /\ UNCHANGED <<history, views, damage>>

----------------------------------------------------------------------------
(* fetch.                                                                  *)

Fetch(c) ==
    /\ call[c].pc = "fetch"
    /\ Goto(c, IF call[c].scope = All THEN [pc |-> "list"]
               ELSE [pc |-> "single", todo |-> call[c].scope, got |-> [p \in {} |-> None]])
    /\ UNCHANGED <<history, views, damage>>

(* An allowlist: one request for each package.                             *)
Single(c) ==
    /\ call[c].pc = "single"
    /\ LET e == call[c].endpoint IN
       \/ call[c].todo = {} /\ Goto(c, [pc |-> "publish"])
       \/ \E p \in call[c].todo :
             IF universe[e][p] = Absent THEN Fail(c, "not_found")
             ELSE IF ~from_json(Respond(e, {p})) THEN Fail(c, "invalid_response")
             ELSE Goto(c, [todo |-> call[c].todo \ {p},
                           got |-> [q \in DOMAIN call[c].got \cup {p} |->
                                        IF q = p THEN universe[e][p] ELSE call[c].got[q]]])
    /\ UNCHANGED <<history, views, damage>>

(* The whole catalogue: the list of names, and then as many packages as it *)
(* has names.  parse_package_list.                                         *)
List(c) ==
    /\ call[c].pc = "list"
    /\ Goto(c, [pc |-> "bulk", todo |-> Present(call[c].endpoint)])
    /\ UNCHANGED <<history, views, damage>>

AcceptAnyCoverage(found, expected) == Cardinality(found) = Cardinality(expected)
validate_bulk_coverage(found, expected) == found = expected

limited(packages, limit) == IF Cardinality(packages) <= limit THEN {packages}
                            ELSE {s \in SUBSET packages : Cardinality(s) = limit}

Bulk(c) ==
    /\ call[c].pc = "bulk"
    /\ LET e == call[c].endpoint IN
       \E packages \in limited(Present(e), Cardinality(call[c].todo)) :
          IF ~validate_bulk_coverage(packages, call[c].todo) THEN Fail(c, "coverage_mismatch")
          ELSE IF ~from_json(Respond(e, packages)) THEN Fail(c, "invalid_response")
          ELSE Goto(c, [pc |-> "publish", got |-> Respond(e, packages)])
    /\ UNCHANGED <<history, views, damage>>

RequestFails(c) ==
    /\ call[c].pc \in {"single", "list", "bulk"}
    /\ Fail(c, "transport")
    /\ UNCHANGED <<history, views, damage>>

(* snapshot_input and build_and_publish_with_endpoint: under the lock, the *)
(* view replaces the one of the same endpoint and scope.  Nothing can be   *)
(* published over a store whose heads are all invalid.                     *)
Sequences == {views[k].sequence : k \in {h \in Heads : views[h].intact}}
NextSequence == IF Sequences = {} THEN 1 ELSE 1 + CHOOSE n \in Sequences : \A m \in Sequences : m <= n

Publish(c) ==
    /\ call[c].pc = "publish"
    /\ LET view == [sequence |-> NextSequence, intact |-> TRUE, scope |-> call[c].scope, endpoint |-> call[c].endpoint,
                    content |-> [p \in DOMAIN call[c].got |-> to_wire_release(call[c].got[p])],
                    began |-> call[c].began, ended |-> Len(history)]
       IN IF Heads # {} /\ Sequences = {} THEN Fail(c, "snapshot") /\ UNCHANGED views
          ELSE /\ views' = [views EXCEPT ![<<call[c].endpoint, call[c].scope>>] = view]
               /\ Return(c, view)
    /\ UNCHANGED <<history, damage>>

----------------------------------------------------------------------------
Change(e, p, entry) ==
    /\ Len(history) <= MaxChanges /\ universe[e][p] # entry
    /\ history' = Append(history, [universe EXCEPT ![e][p] = entry])
    /\ UNCHANGED <<views, call, damage>>

Damage(k) ==
    /\ damage < MaxDamage /\ k \in Heads
    /\ views' = [views EXCEPT ![k].intact = FALSE] /\ damage' = damage + 1
    /\ UNCHANGED <<history, call>>

Finished == (\A c \in Calls : call[c].pc = "done") /\ UNCHANGED vars

Next ==
    \/ \E c \in Calls :
          \/ \E e \in Endpoints, scope \in Scopes, mode \in {"online", "offline", "refresh"} : Start(c, e, scope, mode)
          \/ Open(c) \/ Fetch(c) \/ Single(c) \/ List(c) \/ Bulk(c) \/ RequestFails(c) \/ Publish(c)
    \/ \E e \in Changing, p \in Packages, entry \in Entries \cup {Absent} : Change(e, p, entry)
    \/ \E k \in DOMAIN views : Damage(k)
    \/ Finished

Spec == Init /\ [][Next]_vars

----------------------------------------------------------------------------
(* What the package had, as a release number or as nothing.                *)
Answer(view, p) == IF p \in DOMAIN view.content THEN view.content[p] ELSE Absent
Offered(state, p) == IF state[p] = Absent THEN Absent ELSE to_wire_release(state[p])

(* The answer of a call, for every package it asked for and even from a    *)
(* view that another call published, is what the endpoint of the view had  *)
(* for that package at a moment while the view was fetched: in particular  *)
(* a package is missing from it only if the endpoint did not have it.  A   *)
(* refresh answers with what was there since the call began.               *)
AnswersWereOffered ==
    \A c \in Calls : call[c].view # None =>
        LET view == call[c].view IN
        /\ \A p \in (IF call[c].scope = All THEN Packages ELSE call[c].scope) :
              \E i \in view.began .. view.ended : Answer(view, p) = Offered(history[i][view.endpoint], p)
        /\ call[c].mode = "refresh" => view.began >= call[c].began

(* The names in a view of the whole catalogue are those the endpoint had   *)
(* at one moment, although the list and the packages were read apart.      *)
CataloguesAreWhole ==
    \A k \in Heads : k[2] = All =>
        \E i \in views[k].began .. views[k].ended :
            DOMAIN views[k].content = {p \in Packages : history[i][k[1]][p] # Absent}
=============================================================================
