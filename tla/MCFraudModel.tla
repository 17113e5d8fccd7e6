---------------------------- MODULE MCFraudModel ----------------------------
(* The fraud service on small instances: two requests to retrain, one to     *)
(* analyze, four models.                                                     *)
EXTENDS FraudModel, TLC

CONSTANTS t1, t2, p1

TrainerSymmetry == Permutations(Trainers)
=============================================================================
