---------------------------- MODULE ViewRegister ----------------------------
(***************************************************************************)
(* What the snapshot store promises its callers: for every scope (an       *)
(* endpoint, or all of them) one selected view, the one published last.    *)
(* A caller is told a view that was selected for its scope at some moment  *)
(* of its call, or that there is none, or that its call failed.  Refresh   *)
(* sequences, generations and locks do not appear here.  A crash of the    *)
(* machine may bring back an older selection.                              *)
(***************************************************************************)
CONSTANTS Callers, Scopes, Views, Nothing, Pending, Failed, MayRevert, ScopesOf(_)

VARIABLES selected, scope, seen, answer

vars == <<selected, scope, seen, answer>>

Init ==
  /\ selected = [s \in Scopes |-> Nothing]
  /\ scope \in [Callers -> Scopes]
  /\ seen = [c \in Callers |-> {}]
  /\ answer = [c \in Callers |-> Pending]

\* A call under way has seen[c] # {}.
Call(c) ==
  /\ seen[c] = {}
  /\ answer[c] = Pending
  /\ seen' = [seen EXCEPT ![c] = {selected[scope[c]]}]
  /\ UNCHANGED <<selected, scope, answer>>

\* A publication is selected in all its scopes at once, and every call under way in
\* one of them may observe it.
Publish(v) ==
  /\ selected' = [s \in Scopes |-> IF s \in ScopesOf(v) THEN v ELSE selected[s]]
  /\ seen' = [c \in Callers |->
                IF seen[c] # {} /\ scope[c] \in ScopesOf(v) THEN seen[c] \cup {v} ELSE seen[c]]
  /\ UNCHANGED <<scope, answer>>

Return(c, a) ==
  /\ answer[c] = Pending
  /\ answer' = [answer EXCEPT ![c] = a]
  /\ seen' = [seen EXCEPT ![c] = {}]
  /\ UNCHANGED <<selected, scope>>

Answer(c) == \E a \in seen[c] : Return(c, a)
Fail(c) == Return(c, Failed)

\* The machine goes down: every call ends, an older selection may be back.
Crash ==
  /\ MayRevert
  /\ selected' \in [Scopes -> Views \cup {Nothing}]
  /\ seen' = [c \in Callers |-> {}]
  /\ answer' = [c \in Callers |-> IF seen[c] # {} THEN Failed ELSE answer[c]]
  /\ UNCHANGED scope

Next ==
  \/ \E c \in Callers : Call(c) \/ Answer(c) \/ Fail(c)
  \/ \E v \in Views : Publish(v)
  \/ Crash

Spec == Init /\ [][Next]_vars
=============================================================================
