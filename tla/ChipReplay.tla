------------------------------- MODULE ChipReplay -------------------------------
(***************************************************************************)
(* The verifier of chip inventories (validate_chip_inventory): it mints    *)
(* the inventory of Gameweek 1 again, replays every selection,             *)
(* cancellation and activation that the histories record, in the order of  *)
(* Gameweek, token and position, and compares the result.                  *)
(***************************************************************************)
EXTENDS ChipInventory, Folds

UserKinds == {"SELECTED", "CANCELLED", "ACTIVATED"}

(* The commands a manager gave, where the histories record them.           *)
Commands(inv) ==
  UNION {LET h == inv.token[t].history IN
           {[gameweek |-> h[i].gameweek, token |-> t, index |-> i, event |-> h[i].event] :
              i \in {i \in DOMAIN h : h[i].event \in UserKinds}} : t \in Tokens}

(* Mutation: the commands are replayed token by token.                     *)
BeforeByToken(c, d) ==
  c.token < d.token \/ (c.token = d.token /\ c.index < d.index)

Before(c, d) ==
  \/ c.gameweek < d.gameweek
  \/ c.gameweek = d.gameweek /\ c.token < d.token
  \/ c.gameweek = d.gameweek /\ c.token = d.token /\ c.index < d.index

Latest(commands) == CHOOSE c \in commands : \A d \in commands \ {c} : Before(d, c)

Rejected == [gameweek |-> 0, token |-> <<>>]

(* One command; a call that raises rejects the inventory.                  *)
Replay(b, before, command) ==
  IF before = Rejected \/ command.gameweek < before.gameweek THEN Rejected
  ELSE LET inv == Advanced(b, before, command.gameweek)  t == command.token IN
    CASE command.event = "SELECTED" /\ Selectable(b, inv, t) -> Selected(inv, t)
      [] command.event = "CANCELLED" /\ Cancellable(inv, t) -> Cancelled(inv, t)
      [] command.event = "ACTIVATED" /\ Activatable(b, inv, t) -> Activated(b, inv, t)
      [] OTHER -> Rejected

(* The commands one after the other, the latest last.                      *)
AllReplayed(b, commands) ==
  MapThenFoldSet(LAMBDA c, before : Replay(b, before, c), Built(b, 1),
                 LAMBDA c : c, Latest, commands)

Replayed(b, inv) ==
  LET last == AllReplayed(b, Commands(inv)) IN
    IF last = Rejected \/ inv.gameweek < last.gameweek THEN Rejected
    ELSE Advanced(b, last, inv.gameweek)

Valid(b, inv) == Replayed(b, inv) = inv

-----------------------------------------------------------------------------
(* Properties.                                                             *)

SelectedIn(t, gameweek) ==
  \E i \in DOMAIN token[t].history : token[t].history[i] = Event("SELECTED", gameweek)

(* The verifier accepts an inventory that the functions produced, if no    *)
(* two tokens were ever selected in one Gameweek.                          *)
SingleSelectionsValidate ==
  (\A t, u \in Tokens, g \in Gameweeks : SelectedIn(t, g) /\ SelectedIn(u, g) => t = u)
    => Valid(bundle, inventory)

(* Violated.  "Independently replay a rules-bound inventory and reject     *)
(* forged state": the verifier orders the commands of one Gameweek by      *)
(* token, so a manager who turned from one token to an earlier one has an  *)
(* inventory that it rejects although every call was legal.                *)
LegalInventoriesValidate == Valid(bundle, inventory)

=============================================================================
