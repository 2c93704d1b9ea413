----------------------------- MODULE Generation -----------------------------
(***************************************************************************)
(* What a call of a language model promises its caller: a response that    *)
(* grows by one token at a time, each generated behind all the tokens      *)
(* before it and by weights that are never older than theirs, with nothing *)
(* behind the end-of-sequence token, and that is returned once, when it is *)
(* complete.                                                               *)
(***************************************************************************)
EXTENDS Integers, Sequences

CONSTANT Versions    \* versions of the weights

VARIABLES
    wanted,     \* tokens of a complete response without an end of sequence
    text,       \* the tokens generated so far
    returned    \* the caller has the response

Token == [after: Nat, version: Versions, eos: BOOLEAN]

MayFollow(t) ==
    text = <<>> \/ LET last == text[Len(text)]
                   IN  ~last.eos /\ last.version <= t.version

Emit(t) ==
    /\ ~returned
    /\ t.after = Len(text)
    /\ MayFollow(t)
    /\ text' = Append(text, t)
    /\ UNCHANGED <<wanted, returned>>

Complete == Len(text) >= wanted \/ (text # <<>> /\ text[Len(text)].eos)

Return ==
    /\ ~returned
    /\ Complete
    /\ returned' = TRUE
    /\ UNCHANGED <<wanted, text>>

Init == wanted \in Nat /\ text = <<>> /\ returned = FALSE

Next ==
    \/ \E v \in Versions, e \in BOOLEAN :
          Emit([after |-> Len(text), version |-> v, eos |-> e])
    \/ Return

Spec == Init /\ [][Next]_<<wanted, text, returned>>
=============================================================================
