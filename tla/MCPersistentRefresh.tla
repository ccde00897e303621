------------------------ MODULE MCPersistentRefresh ------------------------
(* Two processes whose requests differ, on a store that may have a history. *)
EXTENDS PersistentRefresh, TLC
CONSTANTS c1, c2, p1, p2
MCNeed == c1 :> {p1} @@ c2 :> {p1, p2}
MCKinds == c1 :> {"online", "forced", "prepareForced"}
           @@ c2 :> {"online", "prepare", "prepareOffline", "offline"}
=============================================================================
