-------------------------------- MODULE Curation --------------------------------
(***************************************************************************)
(* Data preparation, the adjudication log and the release gate.  They      *)
(* share no state, and none reads what another writes: a behaviour is one  *)
(* of one of them.                                                         *)
(***************************************************************************)
EXTENDS DataPreparation, AdjudicationLog, ReleaseGate

VARIABLE part
curationVars == <<part, preparationVars, adjudicationVars, releaseVars>>

CurationInit ==
  /\ part \in {"prepare", "adjudicate", "release"}
  /\ PreparationInit /\ AdjudicationInit /\ ReleaseInit

CurationNext ==
  /\ UNCHANGED part
  /\ \/ part = "prepare" /\ PreparationNext /\ UNCHANGED <<adjudicationVars, releaseVars>>
     \/ part = "adjudicate" /\ AdjudicationNext /\ UNCHANGED <<preparationVars, releaseVars>>
     \/ part = "release" /\ ReleaseNext /\ UNCHANGED <<preparationVars, adjudicationVars>>

CurationSpec == CurationInit /\ [][CurationNext]_curationVars

\* Every part of the state keeps its type.
TypeOK == PreparationTypeOK /\ AdjudicationTypeOK /\ ReleaseTypeOK

==============================================================================
