---------------------------- MODULE MCDraftProbs ----------------------------
(* TLC instances of DraftProbs: three requests, two draft tokens each.     *)
EXTENDS DraftProbs
=============================================================================
