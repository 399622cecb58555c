---------------------------- MODULE MCExperiment -----------------------------
(* Instance for TLC: a baseline and a run of the CPU whose RAPL counter     *)
(* wrapped are negative, which a configuration file cannot write.           *)
EXTENDS Experiment

MCBaselines == {-5, 20, 21}
MCCpuJoules == {-90, 10}
==============================================================================
