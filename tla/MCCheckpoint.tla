---------------------------- MODULE MCCheckpoint ----------------------------
EXTENDS Checkpoint

\* Everything kept, no critic, and limits that differ between the parts.
KeepTwoOrMore ==
    { [p \in {"actor", "critic"} |-> 0],
      [p \in {"actor"} |-> 2],
      [p \in {"actor", "critic"} |-> IF p = "actor" THEN 2 ELSE 3] }
=============================================================================
