-------------------------- MODULE MCSnapshotStore --------------------------
(***************************************************************************)
(* Small instances of SnapshotStore.  Two contents share a coverage and so *)
(* a view key per endpoint.                                                *)
(***************************************************************************)
EXTENDS SnapshotStoreInvariant, TLC

CONSTANTS a, b, partial, e1, e2

MCGeneration(id, coverage) == [id |-> id, coverage |-> coverage]
MCTwo == {MCGeneration(a, partial), MCGeneration(b, partial)}

MCJob(op, e, g) == [op |-> op, endpoint |-> e, generation |-> g]
MCPublish(gs, es) == {MCJob("publish", e, g) : e \in es, g \in gs}
MCObserve(op, es) == {MCJob(op, e, MCGeneration(a, partial)) : e \in es}

MCBoth(e) == MCPublish(MCTwo, {e})

\* Two contents for one view, one of them shared with another endpoint, and readers.
MCCrashJobs ==
  MCBoth(e1) \cup MCPublish({MCGeneration(a, partial)}, {e2})
    \cup MCObserve("read", {AnyEndpoint}) \cup MCObserve("probe", {e1, AnyEndpoint})
\* The same publications, with cleanups, readers and observers between them.
MCCleanupJobs ==
  MCBoth(e1) \cup MCPublish({MCGeneration(a, partial)}, {e2}) \cup MCObserve("cleanup", {e1})
    \cup MCObserve("read", {e1}) \cup MCObserve("probe", {e1, AnyEndpoint})
\* The same content published again.
MCRepairJobs == {MCJob("publish", e1, MCGeneration(a, partial))}

Symmetry == Permutations(Processes)
=============================================================================
