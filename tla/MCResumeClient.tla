--------------------------- MODULE MCResumeClient ---------------------------
(* One request on two replicas; 0 stands for sampling parameters without a *)
(* limit.                                                                  *)
EXTENDS ResumeClient

TwoServers == {"replica0", "replica1"}
TrainingAndValidation == {0, 4}
=============================================================================
