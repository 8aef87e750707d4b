-------------------------------- MODULE Match --------------------------------
(***************************************************************************)
(* What the game promises to its two players, with neither threads nor     *)
(* updates in it: who breaks a brick is paid at once, the peer learns of   *)
(* no brick that was not broken, hears of no score that was never had, and *)
(* a verdict comes once, on a cleared board, from the two scores as they   *)
(* are known then.                                                         *)
(***************************************************************************)
EXTENDS Integers

CONSTANTS
    Players,   \* the two players
    Bricks     \* the bricks of the board

VARIABLES
    broken,    \* the bricks that are broken where a player plays
    score,     \* a player's own score
    had,       \* the own scores that a player has had so far
    heard,     \* the peer's score, as a player sees it
    verdict    \* -1 before one is reached; 0 won, 1 lost, 2 a draw

vars == <<broken, score, had, heard, verdict>>

Init ==
    /\ broken = [p \in Players |-> {}]
    /\ score = [p \in Players |-> 0]
    /\ had = [p \in Players |-> {0}]
    /\ heard = [p \in Players |-> 0]
    /\ verdict = [p \in Players |-> -1]

Undecided(p) == verdict[p] = -1

Earn(p, points) ==
    /\ score' = [score EXCEPT ![p] = @ + points]
    /\ had' = [had EXCEPT ![p] = @ \cup {score[p] + points}]

\* A ball of p breaks b.
Break(p, b) ==
    /\ Undecided(p)
    /\ b \notin broken[p]
    /\ broken' = [broken EXCEPT ![p] = @ \cup {b}]
    /\ Earn(p, 1)
    /\ UNCHANGED <<heard, verdict>>

\* A ball of p hits a brick that holds, or gets behind the paddle of p.
Score(p) ==
    /\ Undecided(p)
    /\ \E points \in {1, -5} : Earn(p, points)
    /\ UNCHANGED <<broken, heard, verdict>>

\* A ball of p gets behind the peer's paddle: p sees the peer lose points, of which the
\* peer does not know.
Charge(p) ==
    /\ Undecided(p)
    /\ heard' = [heard EXCEPT ![p] = @ - 5]
    /\ UNCHANGED <<broken, score, had, verdict>>

\* What the peer broke breaks for p.
Learn(p, b) ==
    /\ b \notin broken[p]
    /\ \E q \in Players \ {p} : b \in broken[q]
    /\ broken' = [broken EXCEPT ![p] = @ \cup {b}]
    /\ UNCHANGED <<score, had, heard, verdict>>

\* p is told a score of the peer, not always the latest.
Hear(p) ==
    /\ \E q \in Players \ {p} : \E told \in had[q] : heard' = [heard EXCEPT ![p] = told]
    /\ UNCHANGED <<broken, score, had, verdict>>

Decide(p) ==
    /\ Undecided(p)
    /\ broken[p] = Bricks
    /\ verdict' = [verdict EXCEPT ![p] =
          IF score[p] > heard[p] THEN 0 ELSE IF score[p] < heard[p] THEN 1 ELSE 2]
    /\ UNCHANGED <<broken, score, had, heard>>

Next ==
    \E p \in Players :
        \/ \E b \in Bricks : Break(p, b) \/ Learn(p, b)
        \/ Score(p) \/ Charge(p) \/ Hear(p) \/ Decide(p)

Spec == Init /\ [][Next]_vars

=============================================================================
