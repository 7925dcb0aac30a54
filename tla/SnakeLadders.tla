----------------------------- MODULE SnakeLadders -----------------------------
(***************************************************************************)
(* The game (Snake_Ladders/main.go): a board and players are set up, then  *)
(* PlayTurn is called until somebody stands on the last cell.  A six is    *)
(* banked and moves nobody; the roll that ends the turn moves by the sum.  *)
(* A call that is refused with an error changes nothing and is left out,   *)
(* a forfeited turn is not.  Players are counted from 1.                   *)
(***************************************************************************)
EXTENDS Integers, Sequences, FiniteSets

CONSTANTS
    Last,         \* the last cell: 100
    Sides,        \* the highest value of the die: 6
    MaxPlayers,   \* bound: the number of players
    MaxPieces     \* bound: the number of snakes and ladders

ASSUME GameAssumption ==
    /\ Last \in Nat \ {0, 1}
    /\ Sides \in Nat \ {0, 1}
    /\ MaxPlayers \in Nat \ {0} /\ MaxPieces \in Nat

VARIABLES
    status,             \* g.Status
    positions,          \* the field Position of g.Players
    snakes, ladders,    \* where the piece that begins at a cell leads; 0: none
    currentTurn, consecutiveSixes,
    winner              \* the player g.Winner, or 0

boardVars == <<snakes, ladders>>
turnVars == <<positions, currentTurn, consecutiveSixes, winner>>
gameVars == <<status, boardVars, turnVars>>

Cells == 1..Last

GameInit ==
    /\ status = "NOT_STARTED"
    /\ positions = << >>
    /\ snakes = [c \in Cells |-> 0] /\ ladders = [c \in Cells |-> 0]
    /\ currentTurn = 1 /\ consecutiveSixes = 0
    /\ winner = 0

-----------------------------------------------------------------------------
(* Before the game *)

AddPlayer ==
    /\ status = "NOT_STARTED"
    /\ Len(positions) < MaxPlayers
    /\ positions' = Append(positions, 0)
    /\ UNCHANGED <<status, boardVars, currentTurn, consecutiveSixes, winner>>

\* The cells where a piece begins.
Begun == {c \in Cells : snakes[c] # 0 \/ ladders[c] # 0}

\* No two pieces begin at one cell, and none at the last.
MayBegin(c) ==
    /\ status = "NOT_STARTED"
    /\ c \in 1..(Last - 1)
    /\ c \notin Begun
    /\ Cardinality(Begun) < MaxPieces

AddSnake(head, tail) ==
    /\ MayBegin(head)
    /\ tail < head
    /\ snakes' = [snakes EXCEPT ![head] = tail]
    /\ UNCHANGED <<status, ladders, turnVars>>

AddLadder(start, end) ==
    /\ MayBegin(start)
    /\ end > start
    /\ ladders' = [ladders EXCEPT ![start] = end]
    /\ UNCHANGED <<status, snakes, turnVars>>

StartGame ==
    /\ status = "NOT_STARTED"
    /\ Len(positions) >= 2
    /\ status' = "IN_PROGRESS"
    /\ UNCHANGED <<boardVars, turnVars>>

-----------------------------------------------------------------------------
(* PlayTurn *)

\* Where the roll would take the player, with what is banked.
toPosition(dice) ==
    Sides * consecutiveSixes + dice + positions[currentTurn]

\* Cell c, or where the piece that begins there leads.
Climbed(c) == IF ladders[c] # 0 THEN ladders[c] ELSE c
Slid(c) == IF snakes[c] # 0 THEN snakes[c] ELSE c

\* Mutant of Landing: the ladders are looked up first.
LandingLaddersFirst(c) == Slid(Climbed(c))

\* A snake first, then a ladder from where it ends; nothing after the ladder.
Landing(c) == Climbed(Slid(c))

PassTurn == currentTurn' = (currentTurn % Len(positions)) + 1

\* A six that fits is banked, and the player rolls again; what was banked is
\* lost with a third six.
BankSix ==
    /\ status = "IN_PROGRESS"
    /\ consecutiveSixes < 2
    /\ toPosition(Sides) <= Last
    /\ consecutiveSixes' = consecutiveSixes + 1
    /\ UNCHANGED <<status, boardVars, positions, currentTurn, winner>>

\* A third six, or a roll that leads beyond the last cell.
Forfeit(dice) ==
    /\ status = "IN_PROGRESS"
    /\ \/ dice = Sides /\ consecutiveSixes = 2
       \/ toPosition(dice) > Last
    /\ consecutiveSixes' = 0
    /\ PassTurn
    /\ UNCHANGED <<status, boardVars, positions, winner>>

Move(dice) ==
    /\ status = "IN_PROGRESS"
    /\ dice # Sides
    /\ toPosition(dice) <= Last
    /\ LET cell == Landing(toPosition(dice))
       IN /\ positions' = [positions EXCEPT ![currentTurn] = cell]
          /\ IF cell = Last
             THEN /\ winner' = currentTurn
                  /\ status' = "FINISHED"
                  /\ UNCHANGED currentTurn
             ELSE /\ PassTurn
                  /\ UNCHANGED <<winner, status>>
    /\ consecutiveSixes' = 0
    /\ UNCHANGED boardVars

PlayTurn == BankSix \/ \E dice \in 1..Sides : Forfeit(dice) \/ Move(dice)

GameNext ==
    \/ AddPlayer
    \/ \E c, d \in Cells : AddSnake(c, d) \/ AddLadder(c, d)
    \/ StartGame
    \/ PlayTurn

GameSpec == GameInit /\ [][GameNext]_gameVars

-----------------------------------------------------------------------------
(* Properties *)

GameTypeOK ==
    /\ status \in {"NOT_STARTED", "IN_PROGRESS", "FINISHED"}
    /\ positions \in Seq(0..Last) /\ Len(positions) <= MaxPlayers
    /\ snakes \in [Cells -> 0..Last] /\ ladders \in [Cells -> 0..Last]
    /\ currentTurn \in 1..MaxPlayers /\ winner \in 0..MaxPlayers
    /\ consecutiveSixes \in 0..2

\* What the tests look at turn by turn, over every board and every run of rolls:
\* banked sixes belong to the player whose turn it is, whom they never take
\* beyond the last cell; the game is over exactly when the piece of the winner,
\* and no other, is there; and nobody rests on the foot of a ladder without having
\* come by a ladder, or on the head of a snake without having come by either.
GameConsistent ==
    /\ consecutiveSixes > 0 =>
          /\ status = "IN_PROGRESS"
          /\ positions[currentTurn] + Sides * consecutiveSixes <= Last
    /\ \A p \in DOMAIN positions :
          /\ positions[p] = Last <=> winner = p
          /\ \A c \in Cells : positions[p] = c =>
                /\ ladders[c] # 0 => \E d \in Cells : ladders[d] = c
                /\ snakes[c] # 0 => \E d \in Cells : c \in {ladders[d], snakes[d]}
    /\ status = "FINISHED" <=> winner # 0
===============================================================================
