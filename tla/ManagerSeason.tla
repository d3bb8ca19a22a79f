---------------------------- MODULE ManagerSeason ----------------------------
(***************************************************************************)
(* One manager through a season, in the two representations that the       *)
(* program has of him: the chip state of the rules (ChipState) and the     *)
(* manager state of the optimiser (TransferPlan).                          *)
(*                                                                         *)
(* Each module implements the same rules of Wildcard, Free Hit and free    *)
(* transfers.  Here the manager makes the same moves in both: he plays,    *)
(* confirms and cancels chips and replaces squads in the chip state, in    *)
(* any order and as often as it admits, also with counts and finances that *)
(* make no sense; at the end of the Gameweek the optimiser applies the     *)
(* event of the node or the chip, then observes the next prices.  The chip *)
(* state has no function for the transfers of a Gameweek without a         *)
(* transfer chip: its caller writes the squad that results into it, here   *)
(* that of the optimiser.                                                  *)
(***************************************************************************)
EXTENDS ChipState, TransferPlan

CONSTANTS
  PriceLists,       \* the prices a node may have
  Openings,         \* squads the manager may start the season with
  OpeningBank,      \* what is then in the bank
  MinConfirmed,     \* bounds on the confirmed transfers reported to a chip,
  MaxConfirmed,     \* which are any integers
  Banks, Payments,  \* what a caller may say is in the bank, or was paid
  MaxGameweek       \* bound: the last Gameweek

ASSUME SeasonAssumption ==
  /\ PriceLists \subseteq [Players -> Nat] /\ Openings \subseteq LegalSquads
  /\ OpeningBank \in Nat /\ MaxGameweek \in Nat \ {0}
  /\ {MinConfirmed, MaxConfirmed} \cup Banks \cup Payments \subseteq Int
  /\ 0 \in MinConfirmed..MaxConfirmed

(* rules/multi_gameweek.py builds events of which only some reset the free *)
(* transfers, to none, before they count; NORMAL resets nothing and waives *)
(* no hit.  The hit of an event and of a chip is one rule.                 *)
ASSUME EventsAssumption ==
  /\ \A e \in DOMAIN EventRules :
       EventRules[e].before \in {NoReset, 0} /\ EventRules[e].after = NoReset
  /\ ~EventRules["NORMAL"].unlimited /\ EventRules["NORMAL"].before = NoReset
  /\ HitPoints = -HitCost

VARIABLES
  chip,      \* the ChipManagerState
  plan,      \* the ManagerState
  prices,    \* the prices of the node that plan observes
  earned,    \* free transfers earned so far less those used
  began,     \* what the chip state held when the Gameweek began
  agreed     \* whether both were last told the same of purse and free transfers

vars == <<chip, plan, prices, earned, began, agreed>>

seen == <<plan, prices, earned, began>>

Init ==
  /\ prices \in PriceLists
  /\ \E squad \in Openings :
       LET paid == [p \in squad |-> prices[p]] IN
         /\ chip = ChipStart(1, squad, OpeningBank, paid, 0)
         /\ plan = PlanStart(1, OpeningBank, paid, 0)
  /\ earned = 0
  /\ began = Remembered(chip)
  /\ agreed = [purse |-> TRUE, free |-> TRUE]

-----------------------------------------------------------------------------
(* Moves within a Gameweek.                                                *)

PlayChip(key, count) ==
  /\ MayPlay(chip, key)
  /\ LocksAt(key, count) => MayLock(chip, key)
  /\ chip' = Played(chip, key, count)
  /\ UNCHANGED <<seen, agreed>>

ConfirmTransfers(count) ==
  /\ MayConfirm(chip, count)
  /\ LocksAt(chip.pending, count) => MayLock(chip, chip.pending)
  /\ chip' = Confirmed(chip, count)
  /\ UNCHANGED <<seen, agreed>>

CancelChip ==
  /\ MayCancel(chip)
  /\ chip' = Cancelled(chip)
  /\ UNCHANGED <<seen, agreed>>

FinaliseDeadline ==
  /\ MayFinalise(chip)
  /\ chip' = Finalised(chip)
  /\ UNCHANGED <<seen, agreed>>

(* The caller's finances need only name the squad and not be overdrawn.    *)
ReplaceSquad(squad, bank, purchase) ==
  /\ MayReplace(chip, squad, bank, purchase)
  /\ chip' = Replaced(chip, squad, bank, purchase)
  /\ agreed' = [agreed EXCEPT !.purse = @ /\ chip.playing \notin Permanent]
  /\ UNCHANGED seen

(* Or they are those of the transfers that lead to the new squad from the  *)
(* one with which the Gameweek began.                                      *)
ReplaceByTransfers(squad) ==
  LET bank == BankAfter(plan, prices, squad)
      purchase == PurchaseAfter(plan, prices, squad) IN
    /\ MayApply(plan, prices, squad)
    /\ MayReplace(chip, squad, bank, purchase)
    /\ chip' = Replaced(chip, squad, bank, purchase)
    /\ agreed' = [agreed EXCEPT !.purse = @ \/ chip.playing \in Permanent]
    /\ UNCHANGED seen

-----------------------------------------------------------------------------
(* The end of a Gameweek.                                                  *)

Observes == prices' \in PriceLists /\ began' = Remembered(chip')

Earns(event, count) ==
  earned' = (IF EventRules[event].carries THEN earned - FreeUsed(event, plan.free, count) ELSE 0)
            + EventRules[event].earned

EndWildcard ==
  /\ chip.playing = "WILDCARD"
  /\ MayReset(plan, prices, chip.active)
  /\ plan' = Applied(plan, "WILDCARD", prices, chip.active)
  /\ chip' = Completed(chip)
  /\ Earns("WILDCARD", Transfers(plan, chip.active))
  /\ Observes
  /\ UNCHANGED agreed

(* The event of the temporary squad is any that waives the hits: whether   *)
(* it keeps the free transfers nobody asks, and the chip state never       *)
(* learns what becomes of them.                                            *)
EndFreeHit(event) ==
  LET count == Transfers(plan, chip.active) IN
    /\ chip.playing = "FREE_HIT"
    /\ EventRules[event].unlimited
    /\ plan' = FreeHitRestored(plan, event, count)
    /\ chip' = Completed(chip)
    /\ agreed' = [agreed EXCEPT !.free = @ /\ plan'.free = plan.free]
    /\ Earns(event, count)
    /\ Observes

(* The node of a Gameweek carries one of the configured events: NORMAL,    *)
(* and PRESEASON and LATE_ENTRY if the rules grant them.                   *)
NodeEvents == DOMAIN EventRules

Adopted(state, managed) ==
  [state EXCEPT !.permanent = Squad(managed), !.active = Squad(managed), !.bank = managed.bank,
                !.purchase = managed.purchase, !.saved = managed.free]

EndWithTransfers(squad, event) ==
  /\ chip.playing \notin UnlimitedFree
  /\ MayApply(plan, prices, squad)
  /\ MayTransfer(chip, Transfers(plan, squad))
  /\ plan' = Applied(plan, event, prices, squad)
  /\ chip' = Completed(Adopted(chip, plan'))
  /\ agreed' = [purse |-> TRUE, free |-> TRUE]
  /\ Earns(event, Transfers(plan, squad))
  /\ Observes

EndGameweek ==
  /\ plan.gameweek < MaxGameweek
  /\ \/ EndWildcard
     \/ \E event \in NodeEvents :
          EndFreeHit(event) \/ \E squad \in LegalSquads : EndWithTransfers(squad, event)

Counts == MinConfirmed..MaxConfirmed

Next ==
  \/ \E count \in Counts :
       ConfirmTransfers(count) \/ \E key \in ChipKeys : PlayChip(key, count)
  \/ CancelChip \/ FinaliseDeadline
  \/ \E squad \in SUBSET Players, bank \in Banks :
       \E purchase \in [squad -> Payments] : ReplaceSquad(squad, bank, purchase)
  \/ \E squad \in LegalSquads : ReplaceByTransfers(squad)
  \/ EndGameweek

Spec == Init /\ [][Next]_vars

-----------------------------------------------------------------------------
(* Properties.                                                             *)

(* Types, and what the functions keep of the demands of ChipManagerState's *)
(* validator, which model_copy never runs: two squads of one size, prices  *)
(* for exactly the active one, no overdraft, no chip pending while one     *)
(* plays, and a stored squad exactly while a Free Hit plays.  Counts and   *)
(* purchase prices may be negative, which the validator would refuse.      *)
StateIsCoherent ==
  /\ chip.permanent \in SUBSET Players /\ chip.active \in SUBSET Players
  /\ Cardinality(chip.active) = Cardinality(chip.permanent)
  /\ DOMAIN chip.purchase = chip.active
  /\ chip.bank >= 0 /\ chip.saved \in 0..MaxFree /\ chip.confirmed \in Counts
  /\ {chip.pending, chip.playing} \subseteq ChipKeys \cup {NoChip}
  /\ chip.pending = NoChip \/ chip.playing = NoChip
  /\ chip.snapshot # NoSnapshot <=> chip.playing \in RestoresNextDeadline
  /\ Squad(plan) \in LegalSquads
  /\ plan.bank >= 0 /\ plan.free \in 0..MaxFree
  /\ plan.gameweek = chip.gameweek /\ plan.gameweek \in 1..MaxGameweek
  /\ prices \in PriceLists /\ agreed \in [purse : BOOLEAN, free : BOOLEAN]

(* The rules and the optimiser agree on what the manager owns, also after  *)
(* a Wildcard that was replaced several times, cancelled or dropped and    *)
(* after a Free Hit, and on what further transfers cost him.  They agree   *)
(* on what he paid and has in the bank unless a Wildcard's caller said     *)
(* otherwise, and on the saved free transfers unless a Free Hit's event    *)
(* has changed them, until the next transfers are adopted.                 *)
RulesAndPlannerAgree ==
  /\ agreed.free => chip.saved = plan.free
  /\ chip.playing # "WILDCARD" => chip.permanent = Squad(plan)
  /\ chip.playing \notin UnlimitedFree =>
       /\ chip.active = Squad(plan)
       /\ agreed.purse => chip.bank = plan.bank /\ chip.purchase = plan.purchase
       /\ \A count \in 0..TransferLimit :
            TransferHitPoints(chip, count, plan.free) = -Hits("NORMAL", plan.free, count)

(* After a Free Hit the squad, the bank and the purchase prices are in the *)
(* chip state what they were when the Gameweek began, and in the plan too, *)
(* whatever he did with the temporary squad.                               *)
FreeHitLeavesNoTrace ==
  [][ (chip.playing = "FREE_HIT" /\ chip'.gameweek # chip.gameweek) =>
        /\ Remembered(chip') = began
        /\ chip'.active = began.permanent
        /\ plan'.bank = plan.bank /\ plan'.purchase = plan.purchase ]_vars

(* A manager locks at most one chip per Gameweek, never more of a kind     *)
(* than a window grants, never in an excluded Gameweek, and rests between  *)
(* two of a kind, across windows too.                                      *)
ChipsKeepToTheirInventory ==
  /\ \A i, j \in DOMAIN chip.history :
       LET first == chip.history[i]
           later == chip.history[j] IN
         i < j =>
           /\ first.gameweek < later.gameweek
           /\ first.chip = later.chip =>
                later.gameweek - first.gameweek > ChipRules[first.chip].gap
  /\ \A i \in DOMAIN chip.history :
       LET use == chip.history[i] IN
         /\ use.gameweek \notin ChipRules[use.chip].excluded
         /\ Cardinality({j \in UsesOf(chip.history, use.chip) :
              chip.history[j].window = use.window}) <= ChipRules[use.chip].copies

(* What the squad would sell for, and the bank.                            *)
Value(state, at) == state.bank + Proceeds(state, at, Squad(state))

(* No series of moves changes what the manager is worth at the prices of   *)
(* the Gameweek: transfers, a Wildcard and a Free Hit only exchange        *)
(* players for money at one price.                                         *)
TransfersConserveValue == [][Value(plan', prices) = Value(plan, prices)]_vars

(* Nobody holds a free transfer that was not earned, or that was used.     *)
FreeTransfersAreEarned == plan.free <= earned

=============================================================================
