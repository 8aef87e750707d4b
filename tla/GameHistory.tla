---------------------------- MODULE GameHistory -----------------------------
(***************************************************************************)
(* Game with one more variable, which nothing reads: the own scores that   *)
(* an instance has had.  With it, two game instances are a Match, if no    *)
(* update overtakes the board (InitialFirst).                              *)
(***************************************************************************)
EXTENDS Game

VARIABLE had   \* history: the own scores an instance has had so far

HistoryInit == Init /\ had = [i \in Instances |-> {0}]

HistoryNext ==
    /\ Next
    /\ had' = [i \in Instances |-> had[i] \cup {world'[i].score[OwnPaddle(i)]}]

HistorySpec == HistoryInit /\ [][HistoryNext]_<<vars, had>>

-----------------------------------------------------------------------------

\* Each step of the two instances is one of the promises of Match or none: breaks and
\* points in contacts, what parse_game_element takes over, and get_winner.
M == INSTANCE Match WITH
        Players <- Instances,
        broken <- [i \in Instances |-> {b \in Bricks : Broken(i, b)}],
        score <- [i \in Instances |-> world[i].score[OwnPaddle(i)]],
        heard <- [i \in Instances |-> world[i].score[OwnPaddle(Peer(i))]],
        verdict <- winner
ImplementsMatch == M!Spec

=============================================================================
