---------------------------- MODULE ProjectView ----------------------------
(***************************************************************************)
(* What materialize promises its callers about one project.  `view` is the *)
(* selection the project is bound to, whatever happens from now on; `seen` *)
(* is the selection that the directory leads to as long as the power stays *)
(* on.  The project is bound at most once, for ever, and shows what it is  *)
(* bound to.  A caller whose call published the project is told so only    *)
(* when the project is bound to its selection; a caller that found the     *)
(* project there is told so only when its selection is the one shown.  Any *)
(* caller may be told that its call failed, or never hear anything because *)
(* a crash ended it.                                                       *)
(***************************************************************************)
CONSTANTS Callers, Selections, Nothing

VARIABLES view, seen, want, reply

vars == <<view, seen, want, reply>>

Init ==
  /\ view = Nothing
  /\ seen = Nothing
  /\ want \in [Callers -> Selections]
  /\ reply = [c \in Callers |-> "none"]

\* The view keeps its binding and shows it, or is bound to what is shown.
Binding ==
  \/ view' = view /\ (view = Nothing \/ seen' = view)
  \/ view = Nothing /\ view' = seen'

\* What is shown stays shown, or is the first that some caller wants.
Showing == seen' = seen \/ (seen = Nothing /\ \E c \in Callers : seen' = want[c])

Work == UNCHANGED <<want, reply>> /\ Showing /\ Binding

Ends(c, answer) ==
  /\ reply[c] = "none"
  /\ reply' = [reply EXCEPT ![c] = answer]
  /\ UNCHANGED <<seen, want>>
  /\ Binding

\* The call published the project: the binding is there before the answer.
Publish(c) == Ends(c, "published") /\ view = want[c]

\* The call found the project, and may have found it before it was durable.
Find(c) == Ends(c, "found") /\ seen = want[c]

Refuse(c) == Ends(c, "failed")

\* A power loss ends some calls without an answer.  It may undo what was shown and
\* not bound; what it leaves is bound.
Crash ==
  /\ \E ended \in SUBSET {c \in Callers : reply[c] = "none"} :
        reply' = [c \in Callers |-> IF c \in ended THEN "failed" ELSE reply[c]]
  /\ UNCHANGED want
  /\ seen' = seen \/ seen' = Nothing
  /\ view' = seen'
  /\ view = Nothing \/ view' = view

Next ==
  \/ Work
  \/ \E c \in Callers : Publish(c) \/ Find(c) \/ Refuse(c)
  \/ Crash

Spec == Init /\ [][Next]_vars
=============================================================================
