------------------------ MODULE MCExperimentRunner ------------------------
(* Instances of ExperimentRunner for TLC. *)
EXTENDS ExperimentRunner

TwoRates == <<500, 2000>>
OneRate == <<500>>

(* A second launch is followed through its first rate only. *)
FirstRateOfTheSecond == launch = 2 /\ pc \in Running => position.rate = 1
=============================================================================
