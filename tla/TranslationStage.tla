--------------------------- MODULE TranslationStage ---------------------------
(***************************************************************************)
(* What the translation of a batch promises to whoever reads its root: the *)
(* routes of an episode are decided once, in one of the shapes of          *)
(* RouteEvidence, and the batch is published when those of all episodes    *)
(* are.  Nothing of the worker pool, the leaves in progress, the repeated  *)
(* runs and the faults is left.                                            *)
(***************************************************************************)
EXTENDS RouteEvidence

CONSTANT Absent

VARIABLES routings,  \* the routes of each episode, Absent while they are open
          published  \* whether a batch is published

vars == <<routings, published>>

Init ==
  /\ routings = [e \in Episodes |-> Absent]
  /\ published = FALSE

Translate(e) ==
  /\ routings[e] = Absent /\ routings'[e] # Absent
  /\ routings' = [routings EXCEPT ![e] = routings'[e]]
  /\ routings'[e] \in Routings(e)
  /\ UNCHANGED published

Publish ==
  /\ \A e \in Episodes : routings[e] # Absent
  /\ published' = TRUE
  /\ UNCHANGED routings

Next == (\E e \in Episodes : Translate(e)) \/ Publish

Spec == Init /\ [][Next]_vars

==============================================================================
