--------------------------- MODULE MCManagerSeason ---------------------------
(* A season of four Gameweeks with squads of two and a pool of four, of     *)
(* whom c and d play for one club.                                          *)
EXTENDS ManagerSeason, TLC

CONSTANTS a, b, c, d

Pool == {a, b, c, d}

TwoOfThree == {S \in SUBSET Pool : Cardinality(S) = 2} \ {{c, d}}

ListA == a :> 4 @@ b :> 5 @@ c :> 5 @@ d :> 4
ListB == a :> 6 @@ b :> 4 @@ c :> 5 @@ d :> 7

TwoLists == {ListA, ListB}
OneOpening == {{a, b}}
MinusFour == -4
MinusOne == -1
JustMinusOne == {-1}

Windows4 == << [start |-> 1, end |-> 2], [start |-> 3, end |-> 4] >>

TransferChip ==
  [ copies |-> 1, windows |-> Windows4, route |-> "CONFIRMED_TRANSFERS", threshold |-> 2,
    cancellable |-> TRUE, excluded |-> {1}, gap |-> 0 ]

PickTeamChip ==
  [ copies |-> 1, windows |-> Windows4, route |-> "PICK_TEAM_SAVE", threshold |-> 0,
    cancellable |-> TRUE, excluded |-> {}, gap |-> 0 ]

Chips ==
  [ WILDCARD |-> TransferChip,
    FREE_HIT |-> [TransferChip EXCEPT !.threshold = 1, !.gap = 1],
    TRIPLE_CAPTAIN |-> PickTeamChip,
    BENCH_BOOST |-> [PickTeamChip EXCEPT !.windows = << [start |-> 4, end |-> 4] >>] ]

Accrual ==
  [unlimited |-> FALSE, before |-> NoReset, earned |-> 1, carries |-> TRUE, after |-> NoReset,
   cap |-> 2]

FreshStart == [Accrual EXCEPT !.unlimited = TRUE, !.before = 0, !.carries = FALSE]

Events ==
  [ NORMAL |-> Accrual,
    PRESEASON |-> FreshStart, LATE_ENTRY |-> FreshStart,
    WILDCARD |-> [Accrual EXCEPT !.unlimited = TRUE, !.earned = 0],
    FREE_HIT |-> [Accrual EXCEPT !.unlimited = TRUE, !.earned = 0] ]

=============================================================================
