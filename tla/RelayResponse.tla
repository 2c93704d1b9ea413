--------------------------- MODULE RelayResponse ---------------------------
(***************************************************************************)
(* What a relayed response promises to those who train on it: student and  *)
(* teacher write in turns.  The teacher has at most MaxTakeovers turns;    *)
(* each begins with the token that the student's diverged from, goes on    *)
(* while neither its tokens nor its paragraphs are used up, and ends when  *)
(* they are.  Then the student goes on, or, after the last turn, the       *)
(* response is stopped.  It may end by itself at any token.                *)
(* In trigger_stop mode the first divergence stops the response.           *)
(***************************************************************************)
EXTENDS Integers

CONSTANTS
    MaxTakeovers,     \* turns of the teacher
    TurnTokens,       \* tokens of a turn
    TurnParagraphs    \* paragraph breaks in a turn

VARIABLES
    mode,             \* "relay" or "trigger_stop"
    writer,           \* "student", "teacher", "stopped" or "ended"
    turns,            \* turns of the teacher so far
    tokens,           \* tokens of its latest turn
    paragraphs        \* paragraph breaks among them

turn == <<turns, tokens, paragraphs>>

UsedUp == tokens >= TurnTokens \/ paragraphs >= TurnParagraphs

(* Who goes on behind what the teacher has written.                        *)
PassOn ==
    \/ writer' = "teacher" /\ ~UsedUp'
    \/ writer' = "student" /\ UsedUp' /\ turns' < MaxTakeovers
    \/ writer' = "stopped" /\ UsedUp' /\ turns' = MaxTakeovers
    \/ writer' = "ended"

StudentWrites ==
    /\ writer = "student"
    /\ writer' \in {"student", "ended"}
    /\ UNCHANGED <<mode, turn>>

(* The response may end in front of the token that begins the turn.        *)
TakeOver ==
    /\ mode = "relay"
    /\ writer = "student"
    /\ turns < MaxTakeovers
    /\ turns' = turns + 1
    /\ tokens' \in 0..1
    /\ paragraphs' \in 0..tokens'
    /\ PassOn
    /\ UNCHANGED mode

TeacherWrites ==
    /\ writer = "teacher"
    /\ tokens' \in tokens..TurnTokens
    /\ paragraphs' \in paragraphs..TurnParagraphs
    /\ PassOn
    /\ UNCHANGED <<mode, turns>>

StopAtDivergence ==
    /\ mode = "trigger_stop"
    /\ writer = "student"
    /\ writer' \in {"stopped", "ended"}
    /\ UNCHANGED <<mode, turn>>

Init ==
    /\ mode \in {"relay", "trigger_stop"}
    /\ writer = "student"
    /\ turns = 0 /\ tokens = 0 /\ paragraphs = 0

Next == StudentWrites \/ TakeOver \/ TeacherWrites \/ StopAtDivergence

Spec == Init /\ [][Next]_<<mode, writer, turns, tokens, paragraphs>>
=============================================================================
