---------------------------- MODULE Conversation ----------------------------
(***************************************************************************)
(* What a reception session promises its visitor: a conversation in turns. *)
(* In each round one party has the turn (the AI alone, the AI with a       *)
(* person approving, or a person), only that party is heard, each thing is *)
(* said once and never taken back, and a closed conversation is silent.    *)
(* Reception implements this (Reception!ImplementsConversation): there a   *)
(* round is an epoch, and what has been said is the replies that were sent. *)
(***************************************************************************)
EXTENDS Naturals

CONSTANT Ids    \* names of the things a party may say

VARIABLES
    open,    \* nobody has closed the conversation
    turn,    \* the party to speak in this round
    round,   \* rounds are numbered from 1
    said     \* what has been said, by whom and in which round

vars == <<open, turn, round, said>>

Parties == {"ai", "assist", "human"}
Utterance == [id : Ids, by : Parties, round : Nat]

Init == open = TRUE /\ turn \in Parties /\ round = 1 /\ said = {}

PassTurn ==
    /\ open
    /\ turn' \in Parties
    /\ round' = round + 1
    /\ UNCHANGED <<open, said>>

Speak(i) ==
    /\ open
    /\ \A u \in said : u.id # i
    /\ said' = said \cup {[id |-> i, by |-> turn, round |-> round]}
    /\ UNCHANGED <<open, turn, round>>

Close ==
    /\ open
    /\ open' = FALSE
    /\ UNCHANGED <<turn, round, said>>

Next == PassTurn \/ (\E i \in Ids : Speak(i)) \/ Close

Spec == Init /\ [][Next]_vars
=============================================================================
