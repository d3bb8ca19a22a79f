------------------------------- MODULE ChipState -------------------------------
(***************************************************************************)
(* The chip state of a manager as rules/chips.py keeps it: ChipManagerState *)
(* and the functions that return its successor.                            *)
(*                                                                         *)
(*   - A chip is selected (pending) and locks (active) when its route      *)
(*     says so: Wildcard and Free Hit once enough transfers are confirmed, *)
(*     Triple Captain and Bench Boost when the deadline is finalised.      *)
(*   - Locking is what consumes a copy: it is recorded in use_history.     *)
(*   - Locking a Free Hit stores the squad, the bank and the purchase      *)
(*     prices; completing the Gameweek restores them.                      *)
(*                                                                         *)
(* A function that raises is a condition that is false.  The functions     *)
(* build states with model_copy, which does not run the state's validator. *)
(* Ruleset lineage and scoring are left out.                               *)
(***************************************************************************)
EXTENDS Integers, Sequences, FiniteSets, FiniteSetsExt

CONSTANTS
  ChipRules,           \* the rule of each chip
  MaxTransfers,        \* transfers a manager may make before one deadline
  HitPoints            \* points of one transfer beyond the free ones, negative

ChipKeys == {"WILDCARD", "FREE_HIT", "TRIPLE_CAPTAIN", "BENCH_BOOST"}

NoChip == "none"

RuleRecords ==
  [ copies : Nat \ {0}, windows : Seq([start : Nat \ {0}, end : Nat \ {0}]),
    route : {"PICK_TEAM_SAVE", "CONFIRMED_TRANSFERS"}, threshold : Nat,
    cancellable : BOOLEAN, excluded : SUBSET Nat, gap : Nat ]

ASSUME ChipRulesAssumption ==
  /\ DOMAIN ChipRules = ChipKeys
  /\ \A key \in ChipKeys : ChipRules[key] \in RuleRecords
  /\ MaxTransfers \in Nat \ {0} /\ HitPoints \in Int /\ HitPoints < 0

(* The effects of each chip; other declarations are refused.               *)
UnlimitedFree == {"WILDCARD", "FREE_HIT"}
Permanent == {"WILDCARD"}
RestoresNextDeadline == {"FREE_HIT"}

NoSnapshot == [permanent |-> {}, bank |-> 0, purchase |-> <<>>]

ChipStart(gameweek, squad, bank, purchase, free) ==
  [ gameweek |-> gameweek, saved |-> free, permanent |-> squad, active |-> squad,
    bank |-> bank, purchase |-> purchase, history |-> <<>>, pending |-> NoChip,
    playing |-> NoChip, confirmed |-> 0, snapshot |-> NoSnapshot ]

Windows(key, gameweek) ==
  {i \in DOMAIN ChipRules[key].windows :
     /\ ChipRules[key].windows[i].start <= gameweek
     /\ gameweek <= ChipRules[key].windows[i].end}

Window(key, gameweek) == Min(Windows(key, gameweek))

UsesOf(history, key) == {i \in DOMAIN history : history[i].chip = key}

-----------------------------------------------------------------------------
Remembered(state) ==
  [permanent |-> state.permanent, bank |-> state.bank, purchase |-> state.purchase]

Locks(state, key) ==
  [state EXCEPT
     !.pending = NoChip,
     !.playing = key,
     !.history = Append(@, [chip |-> key, gameweek |-> state.gameweek,
                            window |-> Window(key, state.gameweek)]),
     !.snapshot = IF key \in RestoresNextDeadline THEN Remembered(state) ELSE @]

(* A chip that locks stores a FreeHitSnapshot, the one object here whose   *)
(* validator runs: it raises on a negative purchase price.                 *)
MayLock(state, key) ==
  key \in RestoresNextDeadline => \A p \in DOMAIN state.purchase : state.purchase[p] >= 0

LocksAt(key, count) ==
  ChipRules[key].route = "CONFIRMED_TRANSFERS" /\ count >= ChipRules[key].threshold

(* Mutation: the gap is counted within the window only.                    *)
RestedInWindow(state, key) ==
  \A i \in UsesOf(state.history, key) :
    state.history[i].window = Window(key, state.gameweek) =>
      state.gameweek - state.history[i].gameweek > ChipRules[key].gap

Rested(state, key) ==
  \A i \in UsesOf(state.history, key) :
    state.gameweek - state.history[i].gameweek > ChipRules[key].gap

MayPlay(state, key) ==
  /\ state.pending = NoChip /\ state.playing = NoChip
  /\ Windows(key, state.gameweek) # {}
  /\ state.gameweek \notin ChipRules[key].excluded
  /\ Cardinality({i \in UsesOf(state.history, key) :
       state.history[i].window = Window(key, state.gameweek)}) < ChipRules[key].copies
  /\ Rested(state, key)

Played(state, key, count) ==
  LET selected == [state EXCEPT !.pending = key, !.confirmed = count] IN
    IF LocksAt(key, count) THEN Locks(selected, key) ELSE selected

MayConfirm(state, count) ==
  /\ state.pending # NoChip
  /\ ChipRules[state.pending].route = "CONFIRMED_TRANSFERS"
  /\ count >= state.confirmed

Confirmed(state, count) ==
  LET counted == [state EXCEPT !.confirmed = count] IN
    IF LocksAt(state.pending, count) THEN Locks(counted, state.pending) ELSE counted

MayFinalise(state) ==
  state.pending # NoChip /\ ChipRules[state.pending].route # "CONFIRMED_TRANSFERS" =>
    MayLock(state, state.pending)

MayCancel(state) == state.pending # NoChip /\ ChipRules[state.pending].cancellable

Cancelled(state) == [state EXCEPT !.pending = NoChip, !.confirmed = 0]

(* A transfer chip that has not locked is dropped, a Pick Team chip locks. *)
Finalised(state) ==
  IF state.pending = NoChip THEN state
  ELSE IF ChipRules[state.pending].route = "CONFIRMED_TRANSFERS"
  THEN [state EXCEPT !.pending = NoChip, !.confirmed = 0]
  ELSE Locks(state, state.pending)

MayReplace(state, squad, bank, purchase) ==
  /\ state.playing \in UnlimitedFree
  /\ Cardinality(squad) = Cardinality(state.active)
  /\ DOMAIN purchase = squad /\ bank >= 0

(* Mutation: every replacement is a temporary one.                         *)
ReplacedForNow(state, squad, bank, purchase) ==
  [state EXCEPT !.active = squad, !.bank = bank, !.purchase = purchase]

Replaced(state, squad, bank, purchase) ==
  [state EXCEPT
     !.active = squad, !.bank = bank, !.purchase = purchase,
     !.permanent = IF state.playing \in Permanent THEN squad ELSE @]

(* Mutation: the squad comes back and the money it left does not.          *)
RestoredSquadOnly(state) ==
  [state EXCEPT !.active = state.snapshot.permanent, !.permanent = state.snapshot.permanent]

Restored(state) ==
  [state EXCEPT
     !.active = state.snapshot.permanent, !.permanent = state.snapshot.permanent,
     !.bank = state.snapshot.bank, !.purchase = state.snapshot.purchase]

(* Mutation: the squad a Free Hit stored outlives it.                      *)
CompletedWithSnapshot(state) ==
  [state EXCEPT !.gameweek = @ + 1, !.playing = NoChip, !.pending = NoChip, !.confirmed = 0]

(* Whatever is pending is dropped, a Pick Team chip too.                   *)
Completed(state) ==
  LET ended == IF state.snapshot = NoSnapshot THEN state ELSE Restored(state) IN
    [ended EXCEPT
       !.gameweek = @ + 1, !.playing = NoChip, !.pending = NoChip, !.confirmed = 0,
       !.snapshot = NoSnapshot]

(* The limit per deadline binds only without an unlimited chip.            *)
MayTransfer(state, count) == state.playing \in UnlimitedFree \/ count <= MaxTransfers

TransferHitPoints(state, count, available) ==
  IF state.playing \in UnlimitedFree THEN 0
  ELSE Max({count - available, 0}) * HitPoints

=============================================================================
