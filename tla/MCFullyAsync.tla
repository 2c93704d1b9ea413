---------------------------- MODULE MCFullyAsync ----------------------------
(* The pipeline on a run of a few samples.                                 *)
EXTENDS FullyAsync

PipelineSamples == 0..Total
=============================================================================
