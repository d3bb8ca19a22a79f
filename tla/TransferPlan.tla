----------------------------- MODULE TransferPlan -----------------------------
(***************************************************************************)
(* The manager state of the multi-Gameweek optimiser and its transitions:  *)
(* optimisation/manager_state.py, resolve_free_transfer_arc, observe_node, *)
(* apply_transfer_action and enumerate_legal_actions, and what the chip    *)
(* evaluators make of them: apply_wildcard_reset and the restored state of *)
(* a Free Hit.                                                             *)
(*                                                                         *)
(* A state holds the Gameweek, the bank, the free transfers and, for each  *)
(* owned player, what was paid in the active ownership spell.  The prices  *)
(* of a state are those of the node it observes.  Spells that ended are    *)
(* read by no transition and left out; so are hashes and identifiers.      *)
(* Which squads satisfy the quotas and the club limit is a constant.       *)
(***************************************************************************)
EXTENDS Integers, FiniteSets, FiniteSetsExt

CONSTANTS
  Players,          \* the candidate pool
  LegalSquads,      \* the squads of the right size within quotas and limits
  EventRules,       \* the free-transfer rule of each transition event
  MaxFree,          \* free transfers a manager may hold
  TransferLimit,    \* transfers one action may have
  HitCost,          \* points a paid transfer costs
  RetainedOf,       \* share of a profit that is retained: numerator
  RetainedIn        \* and denominator

NoReset == -1

EventRecords ==
  [ unlimited : BOOLEAN, before : Nat \cup {NoReset}, earned : Nat, carries : BOOLEAN,
    after : Nat \cup {NoReset}, cap : Nat \ {0} ]

ASSUME TransferRulesAssumption ==
  /\ IsFiniteSet(Players) /\ LegalSquads \subseteq (SUBSET Players) \ {{}}
  /\ "NORMAL" \in DOMAIN EventRules
  /\ \A e \in DOMAIN EventRules :
       /\ EventRules[e] \in EventRecords
       /\ EventRules[e].cap <= MaxFree
       /\ EventRules[e].before <= EventRules[e].cap /\ EventRules[e].after <= EventRules[e].cap
  /\ {MaxFree, TransferLimit, HitCost, RetainedOf} \subseteq Nat /\ RetainedIn \in Nat \ {0}
  /\ RetainedOf <= RetainedIn

PlanStart(gameweek, bank, purchase, free) ==
  [gameweek |-> gameweek, bank |-> bank, free |-> free, purchase |-> purchase]

Squad(state) == DOMAIN state.purchase

(* Losses are borne in full, a share of a profit is retained.              *)
SellingPrice(paid, current) ==
  IF current <= paid THEN current
  ELSE paid + ((current - paid) * RetainedOf) \div RetainedIn

-----------------------------------------------------------------------------
(* Free transfers at one deadline.                                         *)

FreeBefore(event, held) ==
  IF EventRules[event].before = NoReset THEN held ELSE EventRules[event].before

FreeUsed(event, held, count) ==
  IF EventRules[event].unlimited THEN 0 ELSE Min({FreeBefore(event, held), count})

PaidTransfers(event, held, count) ==
  IF EventRules[event].unlimited THEN 0 ELSE count - FreeUsed(event, held, count)

Hits(event, held, count) == PaidTransfers(event, held, count) * HitCost

(* Mutation: the transfers used are carried over too.                      *)
FreeKept(event, held, count) == FreeBefore(event, held)

FreeCarried(event, held, count) ==
  IF EventRules[event].carries
  THEN FreeBefore(event, held) - FreeUsed(event, held, count) ELSE 0

FreeAfter(event, held, count) ==
  IF EventRules[event].after # NoReset THEN EventRules[event].after
  ELSE Min({EventRules[event].cap, FreeCarried(event, held, count) + EventRules[event].earned})

-----------------------------------------------------------------------------
(* One transfer action: the players that leave are sold at their selling   *)
(* price, those that come are bought at the node's price.                  *)

SumOver(f, S) == MapThenSumSet(LAMBDA p : f[p], S)

Proceeds(state, prices, out) ==
  SumOver([p \in out |-> SellingPrice(state.purchase[p], prices[p])], out)

BankAfter(state, prices, squad) ==
  state.bank + Proceeds(state, prices, Squad(state) \ squad)
             - SumOver(prices, squad \ Squad(state))

(* Mutation: the spells of the players that stay begin anew as well.       *)
PurchaseAnew(state, prices, squad) == [p \in squad |-> prices[p]]

PurchaseAfter(state, prices, squad) ==
  [p \in squad |-> IF p \in Squad(state) THEN state.purchase[p] ELSE prices[p]]

Transfers(state, squad) == Cardinality(squad \ Squad(state))

MayApply(state, prices, squad) ==
  /\ squad \in LegalSquads
  /\ Transfers(state, squad) <= TransferLimit
  /\ BankAfter(state, prices, squad) \in Nat

Applied(state, event, prices, squad) ==
  [ gameweek |-> state.gameweek + 1,
    bank |-> BankAfter(state, prices, squad),
    free |-> FreeAfter(event, state.free, Transfers(state, squad)),
    purchase |-> PurchaseAfter(state, prices, squad) ]

(* A Wildcard is an action that must cost no hits and leave the free       *)
(* transfers as they were.                                                 *)
MayReset(state, prices, squad) ==
  /\ MayApply(state, prices, squad)
  /\ "WILDCARD" \in DOMAIN EventRules
  /\ EventRules["WILDCARD"].unlimited
  /\ FreeAfter("WILDCARD", state.free, Transfers(state, squad)) = state.free

(* After a Free Hit the squad, bank and spells are those before it; the    *)
(* free transfers are what the event of the temporary squad makes of them. *)
FreeHitRestored(state, event, count) ==
  [state EXCEPT !.gameweek = @ + 1, !.free = FreeAfter(event, @, count)]

=============================================================================
