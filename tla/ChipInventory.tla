----------------------------- MODULE ChipInventory -----------------------------
(***************************************************************************)
(* The chip rights of one manager (chips/inventory.py).  A compiled bundle *)
(* grants tokens; an inventory is the state of its tokens at one Gameweek. *)
(* The functions of the source take an inventory and return another one or *)
(* raise: here each is a condition and a value, and the specification      *)
(* lets a manager call them in any order.                                  *)
(***************************************************************************)
EXTENDS Integers, Sequences, FiniteSets

CONSTANTS
  Tokens,       \* token identifiers, in the order of their names
  Bundles,      \* the compiled bundles (see BundlesAssumption)
  MaxGameweek,  \* the last Gameweek
  MaxHistory    \* bound on the events of a token that may still be selected

Gameweeks == 1..MaxGameweek

(* What a bundle says of a token: its grant and its chip's definition.     *)
Grants ==
  [ chip : STRING, group : STRING, ready : BOOLEAN, cancellable : BOOLEAN,
    duration : Nat \ {0}, gap : Nat, excluded : SUBSET Nat,
    acquired : Nat \ {0}, start : Nat \ {0}, end : Nat \ {0}, expires : Nat \ {0} ]

(* Two tokens of one chip share its definition; InventoryGrant orders the  *)
(* four Gameweeks of a grant.                                              *)
Legal(b) ==
  /\ b.limit \in Nat \ {0}
  /\ b.grant \in [Tokens -> Grants]
  /\ \A t \in Tokens :
       LET g == b.grant[t] IN g.acquired <= g.start /\ g.start <= g.end /\ g.end <= g.expires
  /\ \A t, u \in Tokens :
       LET g == b.grant[t]  h == b.grant[u] IN
         g.chip = h.chip =>
           /\ g.group = h.group /\ g.duration = h.duration /\ g.gap = h.gap
           /\ g.ready = h.ready /\ g.cancellable = h.cancellable
           /\ g.excluded = h.excluded

ASSUME BundlesAssumption == \A b \in Bundles : Legal(b)
ASSUME BoundsAssumption  ==
  Tokens \subseteq Nat /\ IsFiniteSet(Tokens) /\ MaxGameweek \in Nat \ {0}

VARIABLES
  bundle,    \* the compiled bundle of the manager
  inventory  \* the inventory: its Gameweek and the state of each token

vars == <<bundle, inventory>>

Statuses == {"UNAVAILABLE", "AVAILABLE", "PENDING_CANCELLABLE", "ACTIVE", "USED", "EXPIRED"}

Kinds == {"ACQUIRED", "SELECTED", "CANCELLED", "ACTIVATED", "COMPLETED", "EXPIRED"}

TokenEvents == [event : Kinds, gameweek : Nat \ {0}]

None == 0  \* no Gameweek

TokenStates ==
  [ status : Statuses, selected : Nat, from : Nat, until : Nat, used : Nat,
    history : Seq(TokenEvents) ]

Event(kind, gameweek) == [event |-> kind, gameweek |-> gameweek]

-----------------------------------------------------------------------------
(* The functions of the source, on a bundle b and an inventory inv.        *)

InWindow(b, t, gameweek) == b.grant[t].start <= gameweek /\ gameweek <= b.grant[t].end

(* The status that build_chip_inventory and advance_inventory give a token *)
(* that is neither active nor used.                                        *)
StatusAt(b, t, gameweek) ==
  IF gameweek > b.grant[t].expires THEN "EXPIRED"
  ELSE IF InWindow(b, t, gameweek) THEN "AVAILABLE"
  ELSE "UNAVAILABLE"

Granted(b, t, gameweek) ==
  (IF gameweek >= b.grant[t].acquired THEN <<Event("ACQUIRED", b.grant[t].acquired)>> ELSE <<>>)
  \o (IF gameweek > b.grant[t].expires THEN <<Event("EXPIRED", b.grant[t].expires)>> ELSE <<>>)

(* build_chip_inventory                                                    *)
Built(b, gameweek) ==
  [ gameweek |-> gameweek,
    token |-> [t \in Tokens |->
      [ status |-> StatusAt(b, t, gameweek), selected |-> None, from |-> None,
        until |-> None, used |-> None, history |-> Granted(b, t, gameweek) ]] ]

(* _replace_token                                                          *)
Replaced(inv, t, state) == [inv EXCEPT !.token[t] = state]

Having(inv, status) == {t \in Tokens : inv.token[t].status = status}

(* _assert_available                                                       *)
Available(b, inv, t) ==
  /\ b.grant[t].ready
  /\ inv.token[t].status = "AVAILABLE"
  /\ InWindow(b, t, inv.gameweek)
  /\ inv.gameweek \notin b.grant[t].excluded

(* select_token                                                            *)
Selectable(b, inv, t) ==
  /\ Available(b, inv, t)
  /\ b.grant[t].cancellable
  /\ Having(inv, "PENDING_CANCELLABLE") = {}

Selected(inv, t) ==
  Replaced(inv, t, [inv.token[t] EXCEPT
    !.status = "PENDING_CANCELLABLE",
    !.selected = inv.gameweek,
    !.history = Append(@, Event("SELECTED", inv.gameweek))])

(* cancel_token                                                            *)
Cancellable(inv, t) == inv.token[t].status = "PENDING_CANCELLABLE"

Cancelled(inv, t) ==
  Replaced(inv, t, [inv.token[t] EXCEPT
    !.status = "AVAILABLE",
    !.selected = None,
    !.history = Append(@, Event("CANCELLED", inv.gameweek))])

(* The first part of activate_token: is the token this manager's to use?   *)
Exercisable(b, inv, t) ==
  \/ Available(b, inv, t)
  \/ /\ inv.token[t].status = "PENDING_CANCELLABLE"
     /\ b.grant[t].ready
     /\ b.grant[t].cancellable
     /\ inv.token[t].selected = inv.gameweek
     /\ InWindow(b, t, inv.gameweek)
     /\ inv.gameweek \notin b.grant[t].excluded

LastGameweek(b, inv, t) == inv.gameweek + b.grant[t].duration - 1

(* Mutation: only tokens that start in the current Gameweek conflict.      *)
OverlapsStartingNow(b, inv, t) ==
  {u \in Having(inv, "ACTIVE") : inv.token[u].from = inv.gameweek}

Overlaps(b, inv, t) ==
  {u \in Having(inv, "ACTIVE") : /\ inv.gameweek <= inv.token[u].until
                                 /\ inv.token[u].from <= LastGameweek(b, inv, t)}

(* Mutation: the gap is counted inclusively.                               *)
RespectsShorterGap(b, inv, t) ==
  \A u \in Tokens :
    b.grant[u].chip = b.grant[t].chip /\ inv.token[u].used # None =>
      inv.gameweek - inv.token[u].used >= b.grant[t].gap

(* The minimum gap counts from the last completed use of the same chip.    *)
RespectsGap(b, inv, t) ==
  \A u \in Tokens :
    b.grant[u].chip = b.grant[t].chip /\ inv.token[u].used # None =>
      inv.gameweek - inv.token[u].used > b.grant[t].gap

(* activate_token                                                          *)
Activatable(b, inv, t) ==
  /\ Exercisable(b, inv, t)
  /\ Cardinality(Overlaps(b, inv, t)) < b.limit
  /\ \A u \in Overlaps(b, inv, t) : b.grant[u].group # b.grant[t].group
  /\ RespectsGap(b, inv, t)

Activated(b, inv, t) ==
  Replaced(inv, t, [inv.token[t] EXCEPT
    !.status = "ACTIVE",
    !.selected = IF @ = None THEN inv.gameweek ELSE @,
    !.from = inv.gameweek,
    !.until = LastGameweek(b, inv, t),
    !.history = Append(@, Event("ACTIVATED", inv.gameweek))])

Recorded(state, kind) == \E i \in DOMAIN state.history : state.history[i].event = kind

(* Mutation: a selection survives the deadline.                            *)
Unselected(state, gameweek) == state

(* advance_inventory, for one token: a selection that was not activated is *)
(* cancelled at the Gameweek that ends,                                    *)
Deselected(state, gameweek) ==
  IF state.status # "PENDING_CANCELLABLE" THEN state
  ELSE [state EXCEPT !.status = "AVAILABLE", !.selected = None,
                     !.history = Append(@, Event("CANCELLED", gameweek))]

(* Mutation: a use completes when the inventory next moves.                *)
CompletedLate(state, gameweek) ==
  [state EXCEPT !.status = "USED", !.used = gameweek - 1,
                !.history = Append(@, Event("COMPLETED", gameweek - 1))]

(* ... an active one completes at the end of its interval,                 *)
Completed(state, gameweek) ==
  [state EXCEPT !.status = "USED", !.used = state.until,
                !.history = Append(@, Event("COMPLETED", state.until))]

(* Mutation: the end of the window ends the right, not its expiry.         *)
AgedWithoutExpiry(b, t, state, gameweek) ==
  [state EXCEPT !.status = IF InWindow(b, t, gameweek) THEN "AVAILABLE" ELSE "UNAVAILABLE"]

(* Mutation: every step records the acquisition.                           *)
AgedAnew(b, t, state, gameweek) ==
  [state EXCEPT
    !.status = StatusAt(b, t, gameweek),
    !.history = IF gameweek >= b.grant[t].acquired
                THEN Append(@, Event("ACQUIRED", b.grant[t].acquired)) ELSE @]

(* ... and an unused one is acquired, opens, closes or expires.            *)
Aged(b, t, state, gameweek) ==
  [state EXCEPT
    !.status = StatusAt(b, t, gameweek),
    !.history =
      @ \o (IF gameweek >= b.grant[t].acquired /\ ~Recorded(state, "ACQUIRED")
            THEN <<Event("ACQUIRED", b.grant[t].acquired)>> ELSE <<>>)
        \o (IF gameweek > b.grant[t].expires /\ ~Recorded(state, "EXPIRED")
            THEN <<Event("EXPIRED", b.grant[t].expires)>> ELSE <<>>)]

AdvancedToken(b, inv, t, gameweek) ==
  LET state == Deselected(inv.token[t], inv.gameweek) IN
    CASE state.status = "ACTIVE" ->
           IF gameweek > state.until THEN Completed(state, gameweek) ELSE state
      [] state.status \in {"USED", "EXPIRED"} -> state
      [] OTHER -> Aged(b, t, state, gameweek)

Advanced(b, inv, gameweek) ==
  IF gameweek = inv.gameweek THEN inv
  ELSE [ gameweek |-> gameweek,
         token |-> [t \in Tokens |-> AdvancedToken(b, inv, t, gameweek)] ]

-----------------------------------------------------------------------------

Init ==
  /\ bundle \in Bundles
  /\ \E gameweek \in Gameweeks : inventory = Built(bundle, gameweek)

(* A manager may select and cancel for ever: MaxHistory bounds it.         *)
Select(t) ==
  /\ Selectable(bundle, inventory, t)
  /\ Len(inventory.token[t].history) < MaxHistory
  /\ inventory' = Selected(inventory, t)
  /\ UNCHANGED bundle

Cancel(t) ==
  /\ Cancellable(inventory, t)
  /\ inventory' = Cancelled(inventory, t)
  /\ UNCHANGED bundle

Activate(t) ==
  /\ Activatable(bundle, inventory, t)
  /\ inventory' = Activated(bundle, inventory, t)
  /\ UNCHANGED bundle

(* CHIP_TIME_REVERSED: an inventory never moves back.                      *)
Advance(gameweek) ==
  /\ gameweek > inventory.gameweek
  /\ inventory' = Advanced(bundle, inventory, gameweek)
  /\ UNCHANGED bundle

Next ==
  \/ \E t \in Tokens : Select(t) \/ Cancel(t) \/ Activate(t)
  \/ \E gameweek \in Gameweeks : Advance(gameweek)

Spec == Init /\ [][Next]_vars

-----------------------------------------------------------------------------
(* Properties.                                                             *)

(* The shape of an inventory.                                              *)
TypeOK ==
  /\ bundle \in Bundles
  /\ inventory \in [gameweek : Gameweeks, token : [Tokens -> TokenStates]]

token == inventory.token

Exercised(t) == token[t].from # None

(* What a status says of the other fields: the interval of an active token *)
(* holds the current Gameweek, that of a used one is over, and nothing     *)
(* else occupies a Gameweek.                                               *)
StatusExplained ==
  \A t \in Tokens :
    /\ token[t].status \in {"ACTIVE", "USED"} <=> Exercised(t)
    /\ Exercised(t) => token[t].until = token[t].from + bundle.grant[t].duration - 1
    /\ token[t].status = "ACTIVE" =>
         token[t].from <= inventory.gameweek /\ inventory.gameweek <= token[t].until
    /\ token[t].used =
         IF token[t].status = "USED" THEN token[t].until ELSE None
    /\ token[t].status = "USED" => token[t].until < inventory.gameweek

(* Uses of one concurrency group never share a Gameweek, whatever their    *)
(* durations and whether they are still active or long completed           *)
(* (activate_token looks at active tokens only).                           *)
GroupsNeverOverlap ==
  \A t, u \in Tokens :
    /\ t # u
    /\ bundle.grant[t].group = bundle.grant[u].group
    /\ Exercised(t)
    /\ Exercised(u)
    => token[t].until < token[u].from \/ token[u].until < token[t].from

(* Between the end of one use of a chip and the start of the next there    *)
(* are more Gameweeks than its minimum gap, over all copies and grants.    *)
GapsKept ==
  \A t, u \in Tokens :
    /\ bundle.grant[t].chip = bundle.grant[u].chip
    /\ Exercised(t)
    /\ Exercised(u)
    /\ token[t].from < token[u].from
    => token[u].from - token[t].until > bundle.grant[u].gap

(* The two with what makes them inductive.                                 *)
ExerciseInvariant == TypeOK /\ StatusExplained /\ GroupsNeverOverlap /\ GapsKept

InForce(g) == {t \in Tokens : Exercised(t) /\ token[t].from <= g /\ g <= token[t].until}

(* In no Gameweek, past, present or to come, are more chips in force than  *)
(* the concurrency limit.                                                  *)
OccupancyWithinLimit ==
  \A g \in Gameweeks : Cardinality(InForce(g)) <= bundle.limit

(* At most one token is pending, it was selected in the current Gameweek   *)
(* and is inside its window, so CHIP_PENDING_STATE_INVALID is never raised;*)
(* no other unexercised token remembers a selection, and an exercised one  *)
(* was selected in the Gameweek in which it came into force.               *)
PendingIsCurrent ==
  /\ \A t \in Having(inventory, "PENDING_CANCELLABLE") :
       /\ Having(inventory, "PENDING_CANCELLABLE") = {t}
       /\ token[t].selected = inventory.gameweek
       /\ InWindow(bundle, t, inventory.gameweek)
  /\ \A t \in Tokens \ Having(inventory, "PENDING_CANCELLABLE") :
       token[t].selected = token[t].from

(* A right that was not exercised is usable or pending all through its     *)
(* window and gone after its expiry, however the inventory got there: by   *)
(* many small steps, by one that skips the window, or after cancellations. *)
RightsFollowTheirGrant ==
  \A t \in Tokens : ~Exercised(t) =>
    LET g == bundle.grant[t]  now == inventory.gameweek IN
      /\ InWindow(bundle, t, now) <=> token[t].status \in {"AVAILABLE", "PENDING_CANCELLABLE"}
      /\ now > g.expires <=> token[t].status = "EXPIRED"
      /\ now >= g.acquired <=> Recorded(token[t], "ACQUIRED")

(* A history is in order of time, records each change of a right once and  *)
(* says nothing after its end; what is exercised or expired stays so.      *)
HistoryInOrder ==
  \A t \in Tokens :
    LET h == token[t].history IN
      \A i, j \in DOMAIN h : i < j =>
        /\ h[i].gameweek <= h[j].gameweek
        /\ h[i].event = h[j].event => h[i].event \in {"SELECTED", "CANCELLED"}
        /\ h[i].event \notin {"COMPLETED", "EXPIRED"}
        /\ h[i].event = "ACTIVATED" => h[j].event = "COMPLETED"

(* To advance by way of a Gameweek is to advance: what an inventory        *)
(* becomes depends on where it goes and not on how often it is saved.      *)
AdvanceComposes ==
  \A g, h \in Gameweeks :
    inventory.gameweek <= g /\ g <= h =>
      Advanced(bundle, Advanced(bundle, inventory, g), h) = Advanced(bundle, inventory, h)

=============================================================================
