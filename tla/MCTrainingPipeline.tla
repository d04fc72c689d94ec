-------------------------- MODULE MCTrainingPipeline --------------------------
(* Instance of TrainingPipeline for TLC; the constants are in the .cfg.      *)
EXTENDS TrainingPipeline
===============================================================================
