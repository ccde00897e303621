--------------------------- MODULE ArtifactIndex ---------------------------
(***************************************************************************)
(* What the artifact object store promises its callers: an index from      *)
(* descriptors to archives.  A descriptor is bound at most once, to bytes  *)
(* that satisfy everything it declares.  A caller is told the archive its  *)
(* descriptor is bound to, or that there is none, or that its call failed; *)
(* or it never hears anything because a crash ended it.  Only a crash of   *)
(* the machine may make the index forget a binding.                        *)
(***************************************************************************)
CONSTANTS Callers, Keys, Archives, Satisfies(_, _), Nothing, MayForget

VARIABLES bound, want, answer

vars == <<bound, want, answer>>

Init ==
  /\ bound = [k \in Keys |-> Nothing]
  /\ want \in [Callers -> Keys]
  /\ answer = [c \in Callers |-> <<"none", Nothing>>]

Bind(k, a) ==
  /\ bound[k] = Nothing
  /\ Satisfies(a, k)
  /\ bound' = [bound EXCEPT ![k] = a]
  /\ UNCHANGED <<want, answer>>

\* A call is answered with the state of the index at one moment of the call.
Reply(c, kind, archive) ==
  /\ answer[c] = <<"none", Nothing>>
  /\ answer' = [answer EXCEPT ![c] = <<kind, archive>>]
  /\ UNCHANGED <<bound, want>>

Found(c) == bound[want[c]] # Nothing /\ Reply(c, "found", bound[want[c]])
Missed(c) == bound[want[c]] = Nothing /\ Reply(c, "miss", Nothing)
Failed(c) == Reply(c, "failed", Nothing)

Forget ==
  /\ MayForget
  /\ \E kept \in SUBSET Keys :
        bound' = [k \in Keys |-> IF k \in kept THEN bound[k] ELSE Nothing]
  /\ UNCHANGED <<want, answer>>

Next ==
  \/ \E k \in Keys, a \in Archives : Bind(k, a)
  \/ \E c \in Callers : Found(c) \/ Missed(c) \/ Failed(c)
  \/ Forget

Spec == Init /\ [][Next]_vars
=============================================================================
