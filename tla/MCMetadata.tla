----------------------------- MODULE MCMetadata -----------------------------
(***************************************************************************)
(* Small instances of the components that obtain metadata and sources over *)
(* the network.                                                            *)
(***************************************************************************)
EXTENDS Metadata, TLC

CONSTANTS a, b, e1, e2  \* packages and endpoints of r-universe

-----------------------------------------------------------------------------
(* RawMetadataCache: two sessions and two representations, the first        *)
(* version of which does not parse and the last of which is not stored.     *)

storedEntries == {[body |-> 0, etag |-> 0, cc |-> "Fallback", observed |-> 0, validated |-> 0]}

-----------------------------------------------------------------------------
(* CranSession: two sessions, one after the other, on two packages, one of  *)
(* which gets a release, and every kind of repository.                      *)

repositories ==
    {[kind |-> "cran", lacks |-> {}], [kind |-> "cran", lacks |-> {"feed"}],
     [kind |-> "mirror", lacks |-> {}], [kind |-> "mirror", lacks |-> {"index"}],
     [kind |-> "plain", lacks |-> {"index"}], [kind |-> "plain", lacks |-> {"history", "index"}]}
asked == <<1, 2>>

-----------------------------------------------------------------------------
(* RUniverse: two calls on two endpoints, one of which changes twice.       *)

offer(n, status, agreement) == [version |-> n, status |-> status, dependencies |-> agreement]
offers == {offer(2, "success", "agree"), offer(1, "success", "disagree")}
scopes == {All, {}, {a}, {a, b}}
firstOffers == {a :> offer(1, "success", "agree") @@ b :> Absent}

-----------------------------------------------------------------------------
(* GitCache: two processes on one repository, which has a commit with a     *)
(* subdirectory, one whose paths collide when case is ignored and one with  *)
(* a symlink, a branch that moves and a tag.                                *)

dash == 1
slash == 2
upper == 3
lower == 4
desc == 5
lowercase == [byte \in 1 .. 5 |-> IF byte = upper THEN lower ELSE byte]
trees == << (<<desc>> :> 11) @@ (<<lower, slash, desc>> :> 12),
            (<<desc>> :> 13) @@ (<<upper>> :> 14) @@ (<<lower, dash, lower>> :> 15)
                @@ (<<lower, slash, lower>> :> 16),
            (<<desc>> :> 17) >>
description == <<desc>>
movements == << [HEAD |-> 1, branch |-> 1, tag |-> None, peeled |-> None],
                [HEAD |-> 1, branch |-> 2, tag |-> 4, peeled |-> 1],
                [HEAD |-> 3, branch |-> None, tag |-> 1, peeled |-> None] >>
request(selector, oid, offline, sub) ==
    [kind |-> selector, oid |-> oid, offline |-> offline, subdirectory |-> sub]
requests == { request("branch", None, FALSE, <<>>), request("tag", None, FALSE, <<>>),
              request("rev", None, FALSE, <<lower, slash>>),
              request("default", None, FALSE, <<lower, slash>>),
              request("pinned", 1, TRUE, <<>>), request("oid", 4, FALSE, <<>>),
              request("oid", 5, FALSE, <<>>), request("branch", None, TRUE, <<>>) }

-----------------------------------------------------------------------------
symmetry == Permutations(Calls)

=============================================================================
