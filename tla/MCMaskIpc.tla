----------------------------- MODULE MCMaskIpc -----------------------------
(* TLC instances of MaskIpc: one worker rank whose datagrams arrive in     *)
(* time, and two that send every label twice over an unreliable socket.    *)
EXTENDS MaskIpc

OneRank == [ranks |-> {"rank0"}, reliable |-> TRUE]
TwoRanksUnreliable == [ranks |-> {"rank0", "rank1"}, reliable |-> FALSE]
OneOrTwo == {OneRank, TwoRanksUnreliable}
=============================================================================
