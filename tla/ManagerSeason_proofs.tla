------------------------- MODULE ManagerSeason_proofs -------------------------
(***************************************************************************)
(* What holds of a manager's season for every set of players, every rule   *)
(* of the chips and of the free transfers, and every price list.           *)
(*                                                                         *)
(* SeasonInvariant is inductive.  It says what each state, and what the    *)
(* chip state held when the Gameweek began, says of the other: without a   *)
(* transfer chip they describe one squad and nothing was touched since;    *)
(* under a Wildcard the chip state is where the transfers from the plan's  *)
(* squad lead, unless its caller said otherwise; under a Free Hit the      *)
(* snapshot is what the Gameweek began with.  And it says of a pending     *)
(* chip that it could still be played.                                     *)
(***************************************************************************)
EXTENDS ManagerSeason, FiniteSetTheorems, WellFoundedInduction, TLAPS

(* What the plan paid, and what a caller of the chip state may say.        *)
Paid == UNION {[squad -> Nat] : squad \in LegalSquads}

Said == UNION {[squad -> Int] : squad \in SUBSET Players}

Numbers == {Window(key, g) : key \in ChipKeys, g \in Nat}

Uses == [chip : ChipKeys, gameweek : Nat, window : Numbers]

Snapshots == [permanent : SUBSET Players, bank : Nat, purchase : Said]

ChipStates ==
  [ gameweek : 1..MaxGameweek, saved : 0..MaxFree, permanent : SUBSET Players,
    active : SUBSET Players, bank : Nat, purchase : Said, history : Seq(Uses),
    pending : ChipKeys \cup {NoChip}, playing : ChipKeys \cup {NoChip},
    confirmed : Counts, snapshot : Snapshots \cup {NoSnapshot} ]

PlanStates ==
  [gameweek : 1..MaxGameweek, bank : Nat, free : 0..MaxFree, purchase : Paid]

Typed ==
  /\ chip \in ChipStates /\ plan \in PlanStates
  /\ prices \in PriceLists /\ earned \in Nat
  /\ began \in Snapshots /\ agreed \in [purse : BOOLEAN, free : BOOLEAN]

(* Finances that are the plan's if both were told the same.                *)
SamePurse(finances, managed, told) ==
  told.purse => finances.bank = managed.bank /\ finances.purchase = managed.purchase

(* What a Gameweek began with, and what a Free Hit will restore.           *)
Owns(start, managed, told) ==
  /\ start.permanent = Squad(managed)
  /\ DOMAIN start.purchase = start.permanent
  /\ SamePurse(start, managed, told)

(* The squad of a Wildcard and what it costs.                              *)
Rebuilt(state, managed, at, told) ==
  /\ state.permanent = state.active
  /\ told.purse =>
       /\ state.bank = BankAfter(managed, at, state.active)
       /\ state.purchase = PurchaseAfter(managed, at, state.active)

Described(state, managed, at, start, told) ==
  /\ DOMAIN state.purchase = state.active
  /\ Cardinality(state.active) = Cardinality(state.permanent)
  /\ state.gameweek = managed.gameweek
  /\ told.free => state.saved = managed.free
  /\ state.playing # "WILDCARD" =>
       state.permanent = Squad(managed) /\ Owns(start, managed, told)
  /\ state.playing \notin UnlimitedFree =>
       state.active = Squad(managed) /\ Remembered(state) = start
  /\ state.playing = "WILDCARD" => Rebuilt(state, managed, at, told)
  /\ state.snapshot = IF state.playing = "FREE_HIT" THEN start ELSE NoSnapshot

InWindow(history, key, window) ==
  {i \in UsesOf(history, key) : history[i].window = window}

Spaced(history) ==
  \A i, j \in DOMAIN history : i < j =>
    /\ history[i].gameweek < history[j].gameweek
    /\ history[i].chip = history[j].chip =>
         history[j].gameweek - history[i].gameweek > ChipRules[history[i].chip].gap

Granted(history) ==
  \A i \in DOMAIN history :
    /\ history[i].gameweek \notin ChipRules[history[i].chip].excluded
    /\ Cardinality(InWindow(history, history[i].chip, history[i].window))
         <= ChipRules[history[i].chip].copies

(* The part of the guard of a selection that is about earlier uses.        *)
Playable(state, key) ==
  /\ state.gameweek \notin ChipRules[key].excluded
  /\ Cardinality(InWindow(state.history, key, Window(key, state.gameweek)))
       < ChipRules[key].copies
  /\ Rested(state, key)

Lawful(state) ==
  /\ Spaced(state.history) /\ Granted(state.history)
  /\ \A i \in DOMAIN state.history : state.history[i].gameweek <= state.gameweek
  /\ state.playing = NoChip =>
       \A i \in DOMAIN state.history : state.history[i].gameweek < state.gameweek
  /\ state.pending # NoChip => state.playing = NoChip /\ Playable(state, state.pending)

SeasonInvariant ==
  /\ Typed
  /\ Described(chip, plan, prices, began, agreed)
  /\ Lawful(chip)
  /\ plan.free <= earned

-----------------------------------------------------------------------------
(* Arithmetic of the free transfers.                                       *)

(* The lesser of two numbers. *)
LEMMA MinOfTwo ==
  ASSUME NEW a \in Int, NEW b \in Int
  PROVE  Min({a, b}) = IF a <= b THEN a ELSE b
<1> DEFINE m == IF a <= b THEN a ELSE b
<1>1. m \in {a, b} /\ \A y \in {a, b} : m <= y
  OBVIOUS
<1>2. \A x \in {a, b} : (\A y \in {a, b} : x <= y) => x = m
  OBVIOUS
<1> QED BY <1>1, <1>2 DEF Min

(* The greater of two numbers. *)
LEMMA MaxOfTwo ==
  ASSUME NEW a \in Int, NEW b \in Int
  PROVE  Max({a, b}) = IF a >= b THEN a ELSE b
<1> DEFINE m == IF a >= b THEN a ELSE b
<1>1. m \in {a, b} /\ \A y \in {a, b} : m >= y
  OBVIOUS
<1>2. \A x \in {a, b} : (\A y \in {a, b} : x >= y) => x = m
  OBVIOUS
<1> QED BY <1>1, <1>2 DEF Max

(* What an event makes of the free transfers held.                         *)
LEMMA FreeFacts ==
  ASSUME NEW event \in DOMAIN EventRules, NEW held \in 0..MaxFree, NEW count \in Nat
  PROVE  /\ FreeUsed(event, held, count) \in 0..held
         /\ FreeAfter(event, held, count) \in 0..MaxFree
         /\ FreeAfter(event, held, count) <=
              (IF EventRules[event].carries THEN held - FreeUsed(event, held, count) ELSE 0)
              + EventRules[event].earned
<1> DEFINE rule == EventRules[event]
<1>1. rule \in EventRecords /\ rule.cap <= MaxFree /\ rule.before \in {NoReset, 0}
      /\ rule.after = NoReset /\ MaxFree \in Nat
  BY TransferRulesAssumption, EventsAssumption
<1>2. rule.earned \in Nat /\ rule.cap \in Nat /\ rule.carries \in BOOLEAN
      /\ rule.unlimited \in BOOLEAN
  BY <1>1 DEF EventRecords
<1>3. /\ FreeBefore(event, held) \in 0..held
      /\ FreeBefore(event, held) \in Int
  BY <1>1 DEF FreeBefore, NoReset
<1>4. \A n \in Nat : FreeUsed(event, held, n) \in 0..FreeBefore(event, held)
  <2> TAKE n \in Nat
  <2>1. Min({FreeBefore(event, held), n}) =
          IF FreeBefore(event, held) <= n THEN FreeBefore(event, held) ELSE n
    BY <1>3, MinOfTwo
  <2> QED BY <2>1, <1>3 DEF FreeUsed
<1>5. \A n \in Nat : FreeCarried(event, held, n) =
        IF rule.carries THEN FreeBefore(event, held) - FreeUsed(event, held, n) ELSE 0
  BY DEF FreeCarried
<1>6. \A n \in Nat : FreeCarried(event, held, n) \in Nat
  BY <1>3, <1>4, <1>5
<1>7. \A n \in Nat : FreeAfter(event, held, n) =
        Min({rule.cap, FreeCarried(event, held, n) + rule.earned})
  BY <1>1 DEF FreeAfter
<1> HIDE DEF rule
<1>8. \A n \in Nat : FreeAfter(event, held, n) =
        IF rule.cap <= FreeCarried(event, held, n) + rule.earned
        THEN rule.cap ELSE FreeCarried(event, held, n) + rule.earned
  <2> TAKE n \in Nat
  <2>1. FreeCarried(event, held, n) + rule.earned \in Int /\ rule.cap \in Int
    BY <1>2, <1>6
  <2>2. FreeAfter(event, held, n) = Min({rule.cap, FreeCarried(event, held, n) + rule.earned})
    BY <1>7
  <2> QED BY <2>1, <2>2, MinOfTwo
<1>10. FreeUsed(event, held, count) \in 0..held
  BY <1>3, <1>4
<1>11. FreeAfter(event, held, count) \in 0..MaxFree
  BY <1>1, <1>2, <1>6, <1>8
<1>12. FreeAfter(event, held, count) <=
         (IF rule.carries THEN held - FreeUsed(event, held, count) ELSE 0) + rule.earned
  BY <1>2, <1>3, <1>4, <1>5, <1>6, <1>8
<1> QED BY <1>10, <1>11, <1>12 DEF rule

-----------------------------------------------------------------------------
(* Moves of a chip.                                                        *)

Choosing(state, key, count) == [state EXCEPT !.pending = key, !.confirmed = count]

(* A selection changes only what is pending and the transfers it confirms. *)
LEMMA ChoosingFields ==
  ASSUME NEW state \in ChipStates, NEW key \in ChipKeys \cup {NoChip},
         NEW count \in Counts
  PROVE  LET next == Choosing(state, key, count) IN
           /\ next \in ChipStates
           /\ next.pending = key
           /\ next.gameweek = state.gameweek /\ next.saved = state.saved
           /\ next.permanent = state.permanent /\ next.active = state.active
           /\ next.bank = state.bank /\ next.purchase = state.purchase
           /\ next.history = state.history /\ next.playing = state.playing
           /\ next.snapshot = state.snapshot
BY DEF Choosing, ChipStates

(* A state stays described and lawful when a playable chip, or none,
   becomes pending. *)
LEMMA ChoosingKeeps ==
  ASSUME NEW state \in ChipStates, NEW managed, NEW at, NEW start, NEW told,
         NEW key \in ChipKeys \cup {NoChip}, NEW count \in Counts,
         Described(state, managed, at, start, told), Lawful(state),
         key # NoChip => state.playing = NoChip /\ Playable(state, key)
  PROVE  LET next == Choosing(state, key, count) IN
           /\ next \in ChipStates
           /\ Described(next, managed, at, start, told) /\ Lawful(next)
<1> DEFINE next == Choosing(state, key, count)
<1>1. /\ next \in ChipStates
      /\ next.pending = key
      /\ next.gameweek = state.gameweek /\ next.saved = state.saved
      /\ next.permanent = state.permanent /\ next.active = state.active
      /\ next.bank = state.bank /\ next.purchase = state.purchase
      /\ next.history = state.history /\ next.playing = state.playing
      /\ next.snapshot = state.snapshot
  BY ChoosingFields
<1> HIDE DEF next
<1>2. Described(next, managed, at, start, told)
  BY <1>1 DEF Described, Remembered, Rebuilt
<1>3. Lawful(next)
  BY <1>1 DEF Lawful, Playable, Rested
<1> QED BY <1>1, <1>2, <1>3 DEF next

(* A locked chip is the last use of the history, and a Free Hit leaves a
   snapshot. *)
LEMMA LocksFields ==
  ASSUME NEW state \in ChipStates, NEW key \in ChipKeys
  PROVE  LET next == Locks(state, key) IN
           /\ next \in ChipStates
           /\ next.pending = NoChip /\ next.playing = key
           /\ next.gameweek = state.gameweek /\ next.saved = state.saved
           /\ next.permanent = state.permanent /\ next.active = state.active
           /\ next.bank = state.bank /\ next.purchase = state.purchase
           /\ next.history = Append(state.history,
                [chip |-> key, gameweek |-> state.gameweek,
                 window |-> Window(key, state.gameweek)])
           /\ next.snapshot = IF key = "FREE_HIT" THEN Remembered(state) ELSE state.snapshot
<1> DEFINE use == [chip |-> key, gameweek |-> state.gameweek, window |-> Window(key, state.gameweek)]
           next == Locks(state, key)
<1>1. use \in Uses
  BY SeasonAssumption DEF Uses, Numbers, ChipStates
<1>2. Append(state.history, use) \in Seq(Uses)
  BY <1>1 DEF ChipStates
<1>3. Remembered(state) \in Snapshots
  BY DEF Remembered, Snapshots, ChipStates
<1>4. key \in RestoresNextDeadline <=> key = "FREE_HIT"
  BY DEF RestoresNextDeadline
<1> HIDE DEF use
<1>5. next = [state EXCEPT !.pending = NoChip, !.playing = key,
                !.history = Append(state.history, use),
                !.snapshot = IF key = "FREE_HIT" THEN Remembered(state) ELSE state.snapshot]
  BY <1>4 DEF Locks, use, ChipStates
<1> HIDE DEF next
<1>6. /\ next.pending = NoChip /\ next.playing = key
      /\ next.gameweek = state.gameweek /\ next.saved = state.saved
      /\ next.permanent = state.permanent /\ next.active = state.active
      /\ next.bank = state.bank /\ next.purchase = state.purchase
      /\ next.history = Append(state.history, use)
      /\ next.snapshot = IF key = "FREE_HIT" THEN Remembered(state) ELSE state.snapshot
  BY <1>5 DEF ChipStates
<1>7. next \in ChipStates
  BY <1>2, <1>3, <1>5 DEF ChipStates
<1> QED BY <1>6, <1>7 DEF next, use

(* One use more: the uses of a chip in a window.                           *)
LEMMA OneUseMore ==
  ASSUME NEW history \in Seq(Uses), NEW use \in Uses
  PROVE  LET next == Append(history, use) IN
           /\ next \in Seq(Uses)
           /\ DOMAIN next = DOMAIN history \cup {Len(history) + 1}
           /\ \A i \in DOMAIN history : next[i] = history[i] /\ i < Len(history) + 1
           /\ next[Len(history) + 1] = use
           /\ \A key, window :
                InWindow(next, key, window) =
                  InWindow(history, key, window)
                  \cup (IF use.chip = key /\ use.window = window
                        THEN {Len(history) + 1} ELSE {})
<1> DEFINE next == Append(history, use)
<1>1. /\ next \in Seq(Uses)
      /\ DOMAIN next = DOMAIN history \cup {Len(history) + 1}
      /\ \A i \in DOMAIN history : next[i] = history[i] /\ i < Len(history) + 1
      /\ next[Len(history) + 1] = use
      /\ Len(history) + 1 \notin DOMAIN history
  OBVIOUS
<1> HIDE DEF next
<1>2. \A key, window : InWindow(next, key, window) =
         InWindow(history, key, window)
         \cup (IF use.chip = key /\ use.window = window THEN {Len(history) + 1} ELSE {})
  BY <1>1 DEF InWindow, UsesOf
<1> QED BY <1>1, <1>2 DEF next

(* The uses of a chip in a window can be counted, and a further one adds
   one to them. *)
LEMMA InWindowFinite ==
  ASSUME NEW history \in Seq(Uses), NEW key, NEW window
  PROVE  /\ IsFiniteSet(InWindow(history, key, window))
         /\ Cardinality(InWindow(history, key, window)) \in Nat
         /\ Len(history) + 1 \notin InWindow(history, key, window)
         /\ Cardinality(InWindow(history, key, window) \cup {Len(history) + 1})
              = Cardinality(InWindow(history, key, window)) + 1
<1>1. InWindow(history, key, window) \subseteq 1..Len(history)
  BY DEF InWindow, UsesOf
<1>2. IsFiniteSet(1..Len(history))
  BY FS_Interval
<1>3. IsFiniteSet(InWindow(history, key, window))
  BY <1>1, <1>2, FS_Subset
<1>4. Len(history) + 1 \notin InWindow(history, key, window)
  BY <1>1
<1> QED BY <1>3, <1>4, FS_CardinalityType, FS_AddElement

(* A playable chip may be added to a lawful history: its gap has passed
   and a copy is left. *)
LEMMA HistoryGrows ==
  ASSUME NEW state \in ChipStates, NEW key \in ChipKeys,
         Spaced(state.history), Granted(state.history), Playable(state, key),
         \A i \in DOMAIN state.history : state.history[i].gameweek < state.gameweek
  PROVE  LET next == Append(state.history,
                       [chip |-> key, gameweek |-> state.gameweek,
                        window |-> Window(key, state.gameweek)])
         IN /\ Spaced(next) /\ Granted(next)
            /\ \A i \in DOMAIN next : next[i].gameweek <= state.gameweek
<1> DEFINE use == [chip |-> key, gameweek |-> state.gameweek, window |-> Window(key, state.gameweek)]
           old == state.history
           next == Append(old, use)
           n == Len(old) + 1
<1>1. use \in Uses /\ old \in Seq(Uses) /\ state.gameweek \in Nat
  BY SeasonAssumption DEF Uses, Numbers, ChipStates
<1>2. use.chip = key /\ use.gameweek = state.gameweek /\ use.window = Window(key, state.gameweek)
  OBVIOUS
<1> HIDE DEF use
<1>3. /\ next \in Seq(Uses)
      /\ DOMAIN next = DOMAIN old \cup {n}
      /\ \A i \in DOMAIN old : next[i] = old[i] /\ i < n
      /\ next[n] = use
      /\ \A k, w : InWindow(next, k, w) = InWindow(old, k, w)
                   \cup (IF use.chip = k /\ use.window = w THEN {n} ELSE {})
  BY <1>1, OneUseMore
<1>4. /\ n \in Nat /\ DOMAIN next \subseteq Nat
      /\ \A i \in DOMAIN old : old[i] \in Uses
      /\ \A i \in DOMAIN old : i # n
  BY <1>1, <1>3
<1>5. \A i \in DOMAIN old : old[i].gameweek \in Nat /\ old[i].chip \in ChipKeys
  BY <1>4 DEF Uses
<1>6. \A i \in DOMAIN old : old[i].chip = key =>
        state.gameweek - old[i].gameweek > ChipRules[key].gap
  BY DEF Playable, Rested, UsesOf
<1> HIDE DEF next, n
<1>7. Spaced(next)
  <2> SUFFICES ASSUME NEW i \in DOMAIN next, NEW j \in DOMAIN next, i < j
               PROVE  /\ next[i].gameweek < next[j].gameweek
                      /\ next[i].chip = next[j].chip =>
                           next[j].gameweek - next[i].gameweek > ChipRules[next[i].chip].gap
    BY DEF Spaced
  <2>1. i \in DOMAIN old /\ next[i] = old[i]
    BY <1>3, <1>4
  <2>2. CASE j = n
    <3>1. next[j].gameweek = state.gameweek /\ next[j].chip = key
      BY <2>2, <1>2, <1>3
    <3> QED BY <3>1, <2>1, <1>6
  <2>3. CASE j \in DOMAIN old
    <3>1. next[j] = old[j]
      BY <2>3, <1>3
    <3> QED BY <2>1, <2>3, <3>1 DEF Spaced
  <2> QED BY <2>2, <2>3, <1>3
<1>8. Granted(next)
  <2> SUFFICES ASSUME NEW i \in DOMAIN next
               PROVE  /\ next[i].gameweek \notin ChipRules[next[i].chip].excluded
                      /\ Cardinality(InWindow(next, next[i].chip, next[i].window))
                           <= ChipRules[next[i].chip].copies
    BY DEF Granted
  <2> DEFINE c == next[i].chip
             w == next[i].window
  <2>1. c \in ChipKeys /\ next[i].gameweek \notin ChipRules[c].excluded
    <3>1. CASE i = n
      BY <3>1, <1>2, <1>3 DEF Playable
    <3>2. CASE i \in DOMAIN old
      BY <3>2, <1>3, <1>5 DEF Granted
    <3> QED BY <3>1, <3>2, <1>3
  <2>2. ChipRules[c].copies \in Nat
    BY <2>1, ChipRulesAssumption DEF RuleRecords
  <2>3. CASE use.chip = c /\ use.window = w
    <3>1. InWindow(next, c, w) = InWindow(old, c, w) \cup {n}
      BY <2>3, <1>3
    <3>2. Cardinality(InWindow(next, c, w)) = Cardinality(InWindow(old, c, w)) + 1
          /\ Cardinality(InWindow(old, c, w)) \in Nat
      BY <3>1, <1>1, InWindowFinite DEF n
    <3>3. Cardinality(InWindow(old, c, w)) < ChipRules[c].copies
      BY <2>3, <1>2 DEF Playable
    <3> HIDE DEF c, w
    <3>4. Cardinality(InWindow(next, c, w)) <= ChipRules[c].copies
      BY <3>2, <3>3, <2>2
    <3> QED BY <2>1, <3>4 DEF c, w
  <2>4. CASE ~(use.chip = c /\ use.window = w)
    <3>1. i \in DOMAIN old /\ next[i] = old[i]
      BY <2>4, <1>3
    <3>2. InWindow(next, c, w) = InWindow(old, c, w)
      <4> HIDE DEF c, w
      <4>1. InWindow(next, c, w) = InWindow(old, c, w)
              \cup (IF use.chip = c /\ use.window = w THEN {n} ELSE {})
        BY <1>3
      <4> QED BY <4>1, <2>4
    <3>3. Cardinality(InWindow(old, c, w)) <= ChipRules[c].copies
      BY <3>1 DEF Granted
    <3> QED BY <2>1, <3>2, <3>3
  <2> QED BY <2>3, <2>4
<1>9. \A i \in DOMAIN next : next[i].gameweek <= state.gameweek
  <2> TAKE i \in DOMAIN next
  <2>1. CASE i = n
    BY <2>1, <1>1, <1>2, <1>3
  <2>2. CASE i \in DOMAIN old
    BY <2>2, <1>1, <1>3, <1>5
  <2> QED BY <2>1, <2>2, <1>3
<1> QED BY <1>7, <1>8, <1>9 DEF next, use

(* Locking a chip that could still be played.                              *)
LEMMA LocksKeeps ==
  ASSUME NEW state \in ChipStates, NEW managed, NEW at, NEW start, NEW told,
         NEW key \in ChipKeys,
         Described(state, managed, at, start, told), Lawful(state), state.playing = NoChip,
         Playable(state, key),
         BankAfter(managed, at, Squad(managed)) = managed.bank,
         PurchaseAfter(managed, at, Squad(managed)) = managed.purchase
  PROVE  LET next == Locks(state, key) IN
           next \in ChipStates /\ Described(next, managed, at, start, told) /\ Lawful(next)
<1> DEFINE next == Locks(state, key)
           use == [chip |-> key, gameweek |-> state.gameweek, window |-> Window(key, state.gameweek)]
<1>1. /\ next \in ChipStates
      /\ next.pending = NoChip /\ next.playing = key
      /\ next.gameweek = state.gameweek /\ next.saved = state.saved
      /\ next.permanent = state.permanent /\ next.active = state.active
      /\ next.bank = state.bank /\ next.purchase = state.purchase
      /\ next.history = Append(state.history, use)
      /\ next.snapshot = IF key = "FREE_HIT" THEN Remembered(state) ELSE state.snapshot
  BY LocksFields
<1>2. /\ Spaced(Append(state.history, use)) /\ Granted(Append(state.history, use))
      /\ \A i \in DOMAIN Append(state.history, use) :
           Append(state.history, use)[i].gameweek <= state.gameweek
  BY HistoryGrows DEF Lawful
<1> HIDE DEF next, use
<1>3. key # NoChip /\ NoChip \notin UnlimitedFree /\ NoChip # "WILDCARD" /\ NoChip # "FREE_HIT"
  BY DEF ChipKeys, NoChip, UnlimitedFree
<1>4. /\ state.active = Squad(managed) /\ state.permanent = Squad(managed)
      /\ Owns(start, managed, told) /\ Remembered(state) = start
      /\ state.snapshot = NoSnapshot
  BY <1>3 DEF Described
<1>5. Lawful(next)
  BY <1>1, <1>2, <1>3 DEF Lawful
<1>6. state.bank = start.bank /\ state.purchase = start.purchase
  BY <1>4 DEF Remembered
<1>7. Rebuilt(next, managed, at, told)
  BY <1>1, <1>4, <1>6 DEF Rebuilt, Owns, SamePurse
<1>8. Remembered(next) = start
  BY <1>1, <1>4 DEF Remembered
<1>9. Described(next, managed, at, start, told)
  BY <1>1, <1>4, <1>7, <1>8 DEF Described
<1> QED BY <1>1, <1>5, <1>9 DEF next

(* What a playable chip keeps when it is selected and locked in one call. *)
LEMMA PlayableKeeps ==
  ASSUME NEW state \in ChipStates, NEW managed, NEW at, NEW start, NEW told,
         NEW key \in ChipKeys,
         NEW count \in Counts,
         Described(state, managed, at, start, told), Lawful(state), state.playing = NoChip,
         Playable(state, key),
         BankAfter(managed, at, Squad(managed)) = managed.bank,
         PurchaseAfter(managed, at, Squad(managed)) = managed.purchase
  PROVE  LET chosen == Choosing(state, key, count) IN
           /\ chosen \in ChipStates /\ Described(chosen, managed, at, start, told) /\ Lawful(chosen)
           /\ Locks(chosen, key) \in ChipStates
           /\ Described(Locks(chosen, key), managed, at, start, told) /\ Lawful(Locks(chosen, key))
<1> DEFINE chosen == Choosing(state, key, count)
<1>1. chosen \in ChipStates /\ Described(chosen, managed, at, start, told) /\ Lawful(chosen)
  BY ChoosingKeeps
<1>2. /\ chosen.playing = state.playing /\ chosen.gameweek = state.gameweek
      /\ chosen.history = state.history
  BY ChoosingFields
<1> HIDE DEF chosen
<1>3. chosen.playing = NoChip /\ Playable(chosen, key)
  BY <1>2 DEF Playable, Rested
<1>4. Locks(chosen, key) \in ChipStates /\ Described(Locks(chosen, key), managed, at, start, told)
      /\ Lawful(Locks(chosen, key))
  BY <1>1, <1>3, LocksKeeps
<1> QED BY <1>1, <1>4 DEF chosen

-----------------------------------------------------------------------------
(* The finances of the plan.                                               *)

(* Nothing adds up to nothing. *)
LEMMA EmptySum ==
  ASSUME NEW f
  PROVE  SumOver(f, {}) = 0
<1> DEFINE R(i) == i = [s \in SUBSET {} |->
      IF s = {} THEN 0
      ELSE f[CHOOSE x \in s : TRUE] + i[s \ {CHOOSE x \in s : TRUE}]]
<1>1. R([s \in {{}} |-> 0])
  OBVIOUS
<1>2. R(CHOOSE i : R(i))
  BY <1>1
<1>3. (CHOOSE i : R(i))[{}] = 0
  BY <1>2
<1> QED BY <1>3 DEF SumOver, MapThenSumSet, MapThenFoldSet

(* A set of natural numbers with a member has a least one. *)
LEMMA LeastNumber ==
  ASSUME NEW T, T \subseteq Nat, T # {}
  PROVE  \E n \in T : \A m \in T : n <= m
<1> DEFINE R == OpToRel(<, Nat)
<1>1. IsWellFoundedOn(R, Nat)
  BY NatLessThanWellFounded, Zenon
<1>2. \A m, n \in Nat : m < n => <<m, n>> \in R
  BY DEF OpToRel
<1> HIDE DEF R
<1>3. PICK n \in T : \A m \in T : ~ (<<m, n>> \in R)
  BY <1>1, WFMin
<1>4. \A m \in T : ~(m < n)
  <2> TAKE m \in T
  <2>1. m \in Nat /\ n \in Nat /\ ~ (<<m, n>> \in R)
    BY <1>3
  <2> QED BY <2>1, <1>2, Zenon
<1> QED BY <1>4

(* A set of finite sets with a member has one none of whose reductions by
   one element belongs to it. The lemmas about sums apply it to their
   counterexamples. *)
LEMMA Minimal ==
  ASSUME NEW U, IsFiniteSet(U), NEW Bad, Bad \subseteq SUBSET U, Bad # {}
  PROVE  \E S \in Bad : IsFiniteSet(S) /\ \A x \in S : S \ {x} \notin Bad
<1> DEFINE sizes == {Cardinality(S) : S \in Bad}
<1>1. \A S \in Bad : IsFiniteSet(S) /\ Cardinality(S) \in Nat
  BY FS_Subset, FS_CardinalityType
<1>2. sizes \subseteq Nat /\ sizes # {}
  BY <1>1
<1>4. PICK n \in sizes : \A m \in sizes : n <= m
  <2> HIDE DEF sizes
  <2> QED BY <1>2, LeastNumber
<1>5. PICK S \in Bad : n = Cardinality(S)
  BY <1>4
<1>6. \A x \in S : S \ {x} \notin Bad
  <2> SUFFICES ASSUME NEW x \in S, S \ {x} \in Bad PROVE FALSE
    OBVIOUS
  <2>1. Cardinality(S \ {x}) = n - 1 /\ n \in Nat
    BY <1>1, <1>5, FS_RemoveElement
  <2>2. Cardinality(S \ {x}) \in sizes
    OBVIOUS
  <2> QED BY <2>1, <2>2, <1>4
<1> QED BY <1>1, <1>6

Pick(s) == CHOOSE x \in s : TRUE

(* The element that a sum takes next is one of those it has left. *)
LEMMA PickFacts == ASSUME NEW s, s # {} PROVE Pick(s) \in s
BY DEF Pick

IsSum(f, i, S) ==
  i = [s \in SUBSET S |-> IF s = {} THEN 0 ELSE f[Pick(s)] + i[s \ {Pick(s)}]]

(* A sum over S is the value at S of the function by which the fold is
   defined. *)
LEMMA SumDefined == ASSUME NEW f, NEW S PROVE SumOver(f, S) = (CHOOSE i : IsSum(f, i, S))[S]
BY DEF SumOver, MapThenSumSet, MapThenFoldSet, IsSum, Pick

(* Two such functions agree wherever both are defined. *)
LEMMA SumUnique ==
  ASSUME NEW f, NEW S, NEW T, IsFiniteSet(S), NEW i, NEW j, IsSum(f, i, S), IsSum(f, j, T), NEW s,
         s \subseteq S, s \subseteq T
  PROVE  i[s] = j[s]
<1> DEFINE Bad == {r \in SUBSET s : i[r] # j[r]}
<1> SUFFICES ASSUME Bad # {} PROVE FALSE
  OBVIOUS
<1>1. IsFiniteSet(s) /\ Bad \subseteq SUBSET s
  BY FS_Subset
<1>2. PICK r \in Bad : \A x \in r : r \ {x} \notin Bad
  <2> HIDE DEF Bad
  <2> QED BY <1>1, Minimal
<1>3. /\ i[r] = IF r = {} THEN 0 ELSE f[Pick(r)] + i[r \ {Pick(r)}]
      /\ j[r] = IF r = {} THEN 0 ELSE f[Pick(r)] + j[r \ {Pick(r)}]
  <2>1. r \in SUBSET S /\ r \in SUBSET T
    OBVIOUS
  <2> QED BY <2>1 DEF IsSum
<1>4. r # {}
  BY <1>3
<1>5. Pick(r) \in r
  BY <1>4, PickFacts
<1>6. i[r \ {Pick(r)}] = j[r \ {Pick(r)}]
  BY <1>2, <1>5
<1> QED BY <1>3, <1>4, <1>6

(* There is such a function over every finite set. *)
LEMMA SumExists ==
  ASSUME NEW f, NEW U, IsFiniteSet(U)
  PROVE  \E i : IsSum(f, i, U)
<1> DEFINE Bad == {S \in SUBSET U : ~ \E i : IsSum(f, i, S)}
<1> SUFFICES ASSUME Bad # {} PROVE FALSE
  OBVIOUS
<1>1. PICK S \in Bad : IsFiniteSet(S) /\ \A x \in S : S \ {x} \notin Bad
  <2>1. Bad \subseteq SUBSET U
    OBVIOUS
  <2> HIDE DEF Bad
  <2> QED BY <2>1, Minimal
<1>2. S \in SUBSET U /\ ~ \E i : IsSum(f, i, S)
  BY <1>1
<1>3. \A x \in S : \E i : IsSum(f, i, S \ {x})
  BY <1>1, <1>2
<1> HIDE DEF Bad
<1> DEFINE J(x) == CHOOSE i : IsSum(f, i, S \ {x})
           k == [s \in SUBSET S |->
                   IF s = S THEN IF s = {} THEN 0 ELSE f[Pick(s)] + J(Pick(s))[s \ {Pick(s)}]
                   ELSE J(CHOOSE x \in S : x \notin s)[s]]
<1>4. \A x \in S : IsSum(f, J(x), S \ {x})
  BY <1>3
<1> HIDE DEF J
<1>5. ASSUME NEW s \in SUBSET S, s # S, NEW x \in S, x \notin s
      PROVE  k[s] = J(x)[s]
  <2> DEFINE y == CHOOSE y \in S : y \notin s
  <2>1. y \in S /\ y \notin s
    BY <1>5
  <2>2. k[s] = J(y)[s]
    BY <1>5
  <2> HIDE DEF y, k
  <2>3. IsSum(f, J(x), S \ {x}) /\ IsSum(f, J(y), S \ {y}) /\ IsFiniteSet(S \ {y})
    BY <1>1, <1>4, <1>5, <2>1, FS_Subset
  <2>4. s \subseteq S \ {x} /\ s \subseteq S \ {y}
    BY <1>5, <2>1
  <2>5. J(y)[s] = J(x)[s]
    BY <2>3, <2>4, SumUnique
  <2> QED BY <2>2, <2>5
<1>6. ASSUME NEW s \in SUBSET S
      PROVE  k[s] = IF s = {} THEN 0 ELSE f[Pick(s)] + k[s \ {Pick(s)}]
  <2> DEFINE c == Pick(s)
  <2>1. s # {} => c \in s /\ s \ {c} \in SUBSET S /\ s \ {c} # S /\ c \in S /\ c \notin s \ {c}
    BY PickFacts
  <2>2. s # {} => k[s \ {c}] = J(c)[s \ {c}]
    BY <2>1, <1>5
  <2>3. CASE s = S
    <3>1. k[s] = IF s = {} THEN 0 ELSE f[c] + J(c)[s \ {c}]
      BY <2>3
    <3> HIDE DEF k, c
    <3>2. CASE s = {}
      BY <3>1, <3>2
    <3>3. CASE s # {}
      BY <3>1, <3>3, <2>2 DEF c
    <3> QED BY <3>2, <3>3
  <2>4. CASE s # S
    <3>1. PICK x \in S : x \notin s
      BY <2>4
    <3>2. k[s] = J(x)[s]
      BY <2>4, <3>1, <1>5
    <3>3. J(x)[s] = IF s = {} THEN 0 ELSE f[c] + J(x)[s \ {c}]
      <4>1. s \in SUBSET (S \ {x}) /\ IsSum(f, J(x), S \ {x})
        BY <3>1, <1>4
      <4> HIDE DEF k
      <4> QED BY <4>1 DEF IsSum
    <3>4. s # {} => k[s \ {c}] = J(x)[s \ {c}]
      <4>1. s # {} => s \ {c} \in SUBSET S /\ s \ {c} # S /\ x \notin s \ {c}
        BY <2>1, <3>1
      <4> QED BY <4>1, <3>1, <1>5
    <3> HIDE DEF k, c
    <3>5. CASE s = {}
      BY <3>2, <3>3, <3>5
    <3>6. CASE s # {}
      BY <3>2, <3>3, <3>4, <3>6 DEF c
    <3> QED BY <3>5, <3>6
  <2> QED BY <2>3, <2>4
<1>7. k = [s \in SUBSET S |-> k[s]]
  OBVIOUS
<1> HIDE DEF k
<1>8. IsSum(f, k, S)
  BY <1>6, <1>7 DEF IsSum
<1> QED BY <1>2, <1>8

(* A sum is its next element and the sum of the rest. *)
LEMMA SumStep ==
  ASSUME NEW f, NEW S, IsFiniteSet(S), S # {}
  PROVE  SumOver(f, S) = f[Pick(S)] + SumOver(f, S \ {Pick(S)})
<1> DEFINE c == Pick(S)
           i == CHOOSE i : IsSum(f, i, S)
           j == CHOOSE j : IsSum(f, j, S \ {c})
<1>1. IsFiniteSet(S \ {c})
  BY FS_Subset
<1>2. IsSum(f, i, S) /\ IsSum(f, j, S \ {c})
  BY <1>1, SumExists
<1>3. SumOver(f, S) = i[S] /\ SumOver(f, S \ {c}) = j[S \ {c}]
  BY SumDefined
<1> HIDE DEF i, j, c
<1>4. i[S \ {c}] = j[S \ {c}]
  BY <1>2, SumUnique
<1>5. i[S] = f[c] + i[S \ {c}]
  <2>1. S \in SUBSET S
    OBVIOUS
  <2> QED BY <2>1, <1>2 DEF IsSum, c
<1> QED BY <1>3, <1>4, <1>5 DEF c

(* A sum of integers is one. *)
LEMMA SumInt ==
  ASSUME NEW f, NEW U, IsFiniteSet(U), \A x \in U : f[x] \in Int
  PROVE  SumOver(f, U) \in Int
<1> DEFINE Bad == {S \in SUBSET U : SumOver(f, S) \notin Int}
<1> SUFFICES ASSUME Bad # {} PROVE FALSE
  OBVIOUS
<1>1. PICK S \in Bad : IsFiniteSet(S) /\ \A x \in S : S \ {x} \notin Bad
  <2>1. Bad \subseteq SUBSET U
    OBVIOUS
  <2> HIDE DEF Bad
  <2> QED BY <2>1, Minimal
<1>2. S # {}
  BY EmptySum
<1>3. Pick(S) \in S
  BY <1>2, PickFacts
<1>4. SumOver(f, S \ {Pick(S)}) \in Int /\ f[Pick(S)] \in Int
  BY <1>1, <1>3
<1>5. SumOver(f, S) = f[Pick(S)] + SumOver(f, S \ {Pick(S)})
  BY <1>1, <1>2, SumStep
<1> QED BY <1>4, <1>5


(* Any element may be taken out of a sum first. *)
LEMMA SumTakeOut ==
  ASSUME NEW f, NEW U, IsFiniteSet(U), \A x \in U : f[x] \in Int, NEW e \in U
  PROVE  SumOver(f, U) = f[e] + SumOver(f, U \ {e})
<1> DEFINE Bad == {S \in SUBSET U : \E x \in S : SumOver(f, S) # f[x] + SumOver(f, S \ {x})}
<1> SUFFICES ASSUME Bad # {} PROVE FALSE
  OBVIOUS
<1>1. PICK S \in Bad : IsFiniteSet(S) /\ \A x \in S : S \ {x} \notin Bad
  <2>1. Bad \subseteq SUBSET U
    OBVIOUS
  <2> HIDE DEF Bad
  <2> QED BY <2>1, Minimal
<1>2. PICK x \in S : SumOver(f, S) # f[x] + SumOver(f, S \ {x})
  BY <1>1
<1> DEFINE c == Pick(S)
<1>3. c \in S /\ S \in SUBSET U
  BY <1>1, <1>2, PickFacts
<1>4. SumOver(f, S) = f[c] + SumOver(f, S \ {c})
  BY <1>1, <1>2, SumStep
<1> HIDE DEF c
<1>5. x # c
  BY <1>2, <1>4
<1>6. SumOver(f, S \ {c}) = f[x] + SumOver(f, (S \ {c}) \ {x})
  <2>1. S \ {c} \in SUBSET U /\ S \ {c} \notin Bad /\ x \in S \ {c}
    BY <1>1, <1>2, <1>3, <1>5
  <2> QED BY <2>1
<1>7. SumOver(f, S \ {x}) = f[c] + SumOver(f, (S \ {x}) \ {c})
  <2>1. S \ {x} \in SUBSET U /\ S \ {x} \notin Bad /\ c \in S \ {x}
    BY <1>1, <1>2, <1>3, <1>5
  <2> QED BY <2>1
<1> HIDE DEF Bad
<1>8. (S \ {x}) \ {c} = (S \ {c}) \ {x}
  OBVIOUS
<1>9. f[x] \in Int /\ f[c] \in Int /\ SumOver(f, (S \ {c}) \ {x}) \in Int
  <2>1. IsFiniteSet((S \ {c}) \ {x}) /\ \A y \in (S \ {c}) \ {x} : f[y] \in Int
    BY <1>1, <1>3, FS_Subset
  <2>2. SumOver(f, (S \ {c}) \ {x}) \in Int
    BY <2>1, SumInt
  <2> QED BY <2>2, <1>2, <1>3
<1>10. SumOver(f, S) = f[x] + SumOver(f, S \ {x})
  <2> DEFINE r == SumOver(f, (S \ {c}) \ {x})
             sc == SumOver(f, S \ {c})
             sx == SumOver(f, S \ {x})
  <2>1. SumOver(f, S) = f[c] + sc /\ sc = f[x] + r /\ f[x] \in Int /\ f[c] \in Int /\ r \in Int
    BY <1>4, <1>6, <1>9
  <2>2. sx = f[c] + r
    BY <1>7, <1>8
  <2> HIDE DEF r, sc, sx
  <2>3. SumOver(f, S) = f[x] + sx
    BY <2>1, <2>2
  <2> QED BY <2>3 DEF sx
<1> QED BY <1>2, <1>10

(* A sum over two disjoint sets is the sum over the one plus the sum over
   the other. *)
LEMMA SumUnion ==
  ASSUME NEW f, NEW A, NEW B, IsFiniteSet(A), IsFiniteSet(B), A \cap B = {},
         \A x \in A \cup B : f[x] \in Int
  PROVE  SumOver(f, A \cup B) = SumOver(f, A) + SumOver(f, B)
<1> DEFINE Bad == {S \in SUBSET B : SumOver(f, A \cup S) # SumOver(f, A) + SumOver(f, S)}
<1> SUFFICES ASSUME Bad # {} PROVE FALSE
  OBVIOUS
<1>1. PICK S \in Bad : IsFiniteSet(S) /\ \A x \in S : S \ {x} \notin Bad
  <2>1. Bad \subseteq SUBSET B
    OBVIOUS
  <2> HIDE DEF Bad
  <2> QED BY <2>1, Minimal
<1>2. S \in SUBSET B /\ SumOver(f, A \cup S) # SumOver(f, A) + SumOver(f, S)
  BY <1>1
<1>3. SumOver(f, A) \in Int
  BY SumInt
<1>4. S # {}
  <2>1. A \cup {} = A
    OBVIOUS
  <2> HIDE DEF Bad
  <2> SUFFICES ASSUME S = {} PROVE FALSE
    OBVIOUS
  <2>2. SumOver(f, A \cup S) = SumOver(f, A) /\ SumOver(f, S) = 0
    BY <2>1, EmptySum
  <2> DEFINE a == SumOver(f, A)
  <2>3. a \in Int /\ a # a + 0
    BY <1>2, <1>3, <2>2
  <2> HIDE DEF a
  <2> QED BY <2>3
<1>5. PICK e \in S : TRUE
  BY <1>4
<1>6. SumOver(f, A \cup (S \ {e})) = SumOver(f, A) + SumOver(f, S \ {e})
  <2>1. S \ {e} \in SUBSET B /\ S \ {e} \notin Bad
    BY <1>1, <1>2, <1>5
  <2> QED BY <2>1
<1> HIDE DEF Bad
<1>7. IsFiniteSet(A \cup S) /\ e \in A \cup S /\ \A x \in A \cup S : f[x] \in Int
  BY <1>1, <1>2, <1>5, FS_Union
<1>8. SumOver(f, A \cup S) = f[e] + SumOver(f, (A \cup S) \ {e})
  BY <1>7, SumTakeOut
<1>9. SumOver(f, S) = f[e] + SumOver(f, S \ {e})
  BY <1>1, <1>5, <1>7, SumTakeOut
<1>10. (A \cup S) \ {e} = A \cup (S \ {e})
  BY <1>2, <1>5
<1>11. SumOver(f, S \ {e}) \in Int /\ f[e] \in Int
  <2>1. IsFiniteSet(S \ {e}) /\ \A y \in S \ {e} : f[y] \in Int
    BY <1>1, <1>7, FS_Subset
  <2> QED BY <2>1, <1>7, SumInt
<1> DEFINE a == SumOver(f, A)
           r == SumOver(f, S \ {e})
           s == SumOver(f, S)
           u == SumOver(f, A \cup S)
<1>12. a \in Int /\ r \in Int /\ f[e] \in Int /\ s = f[e] + r /\ u # a + s
  BY <1>2, <1>3, <1>9, <1>11
<1>13. u = f[e] + (a + r)
  BY <1>6, <1>8, <1>10
<1> HIDE DEF a, r, s, u
<1> QED BY <1>12, <1>13

(* A sum depends on the values over its set only. *)
LEMMA SumSame ==
  ASSUME NEW f, NEW g, NEW U, IsFiniteSet(U), \A x \in U : f[x] = g[x]
  PROVE  SumOver(f, U) = SumOver(g, U)
<1> DEFINE Bad == {S \in SUBSET U : SumOver(f, S) # SumOver(g, S)}
<1> SUFFICES ASSUME Bad # {} PROVE FALSE
  OBVIOUS
<1>1. PICK S \in Bad : IsFiniteSet(S) /\ \A x \in S : S \ {x} \notin Bad
  <2>1. Bad \subseteq SUBSET U
    OBVIOUS
  <2> HIDE DEF Bad
  <2> QED BY <2>1, Minimal
<1>2. S # {}
  BY EmptySum
<1>3. Pick(S) \in S
  BY <1>2, PickFacts
<1>4. SumOver(f, S \ {Pick(S)}) = SumOver(g, S \ {Pick(S)}) /\ f[Pick(S)] = g[Pick(S)]
  BY <1>1, <1>3
<1>5. SumOver(f, S) = f[Pick(S)] + SumOver(f, S \ {Pick(S)})
  BY <1>1, <1>2, SumStep
<1>6. SumOver(g, S) = g[Pick(S)] + SumOver(g, S \ {Pick(S)})
  BY <1>1, <1>2, SumStep
<1> QED BY <1>4, <1>5, <1>6

(* A squad that stays costs and yields nothing.                            *)
LEMMA NothingChanges ==
  ASSUME NEW managed \in PlanStates, NEW at
  PROVE  /\ BankAfter(managed, at, Squad(managed)) = managed.bank
         /\ PurchaseAfter(managed, at, Squad(managed)) = managed.purchase
<1>1. Squad(managed) \ Squad(managed) = {}
  OBVIOUS
<1>2. Proceeds(managed, at, {}) = 0
  BY EmptySum DEF Proceeds
<1>3. SumOver(at, {}) = 0
  BY EmptySum
<1>4. managed.bank \in Int
  BY DEF PlanStates
<1>5. BankAfter(managed, at, Squad(managed)) = managed.bank + 0 - 0
  BY <1>1, <1>2, <1>3 DEF BankAfter
<1>6. PurchaseAfter(managed, at, Squad(managed)) = managed.purchase
  <2>1. managed.purchase \in Paid
    BY DEF PlanStates
  <2>2. managed.purchase = [p \in DOMAIN managed.purchase |-> managed.purchase[p]]
    BY <2>1 DEF Paid
  <2> QED BY <2>2 DEF PurchaseAfter, Squad
<1> QED BY <1>4, <1>5, <1>6

(* What the types say of the plan. *)
LEMMA PlanFacts ==
  ASSUME Typed
  PROVE  /\ Squad(plan) \in LegalSquads
         /\ plan.bank \in Int /\ plan.free \in 0..MaxFree /\ MaxFree \in Nat
         /\ DOMAIN plan.purchase = Squad(plan)
         /\ Squad(plan) # {} /\ Squad(plan) \subseteq Players
         /\ prices \in [Players -> Nat]
<1>1. plan.purchase \in Paid /\ plan.bank \in Nat /\ plan.free \in 0..MaxFree
  BY DEF Typed, PlanStates
<1>2. Squad(plan) \in LegalSquads
  BY <1>1 DEF Paid, Squad
<1>3. Squad(plan) # {} /\ Squad(plan) \subseteq Players
  BY <1>2, TransferRulesAssumption
<1>6. prices \in [Players -> Nat]
  BY SeasonAssumption DEF Typed
<1>7. MaxFree \in Nat
  BY TransferRulesAssumption
<1> QED BY <1>1, <1>2, <1>3, <1>6, <1>7 DEF Squad

(* What the plan paid a caller of the chip state may say.                  *)
LEMMA PaidIsSaid == Paid \subseteq Said
<1> SUFFICES ASSUME NEW squad \in LegalSquads, NEW paid \in [squad -> Nat] PROVE paid \in Said
  BY DEF Paid
<1>1. squad \in SUBSET Players /\ paid \in [squad -> Int]
  BY TransferRulesAssumption
<1> QED BY <1>1 DEF Said

(* Where legal transfers lead.                                             *)
LEMMA TransferFacts ==
  ASSUME Typed, NEW squad \in LegalSquads, MayApply(plan, prices, squad)
  PROVE  /\ BankAfter(plan, prices, squad) \in Nat
         /\ PurchaseAfter(plan, prices, squad) \in Paid
         /\ DOMAIN PurchaseAfter(plan, prices, squad) = squad
         /\ Transfers(plan, squad) \in Nat
<1>1. squad \subseteq Players /\ IsFiniteSet(Players)
  BY TransferRulesAssumption
<1>2. plan.purchase \in Paid
  BY DEF Typed, PlanStates
<1>3. plan.purchase \in [Squad(plan) -> Nat]
  BY <1>2 DEF Paid, Squad
<1>4. PurchaseAfter(plan, prices, squad) \in [squad -> Nat]
  BY <1>1, <1>3, PlanFacts DEF PurchaseAfter
<1>5. PurchaseAfter(plan, prices, squad) \in Paid
  BY <1>4 DEF Paid
<1>6. IsFiniteSet(squad \ Squad(plan))
  BY <1>1, FS_Subset
<1>7. Transfers(plan, squad) \in Nat
  BY <1>6, FS_CardinalityType DEF Transfers
<1> QED BY <1>4, <1>5, <1>7 DEF MayApply

(* A week of transfers gives a plan of the next Gameweek. *)
LEMMA AppliedFacts ==
  ASSUME Typed, NEW squad \in LegalSquads, MayApply(plan, prices, squad),
         NEW event \in DOMAIN EventRules, plan.gameweek < MaxGameweek
  PROVE  LET next == Applied(plan, event, prices, squad) IN
           /\ next \in PlanStates
           /\ next.gameweek = plan.gameweek + 1
           /\ next.free = FreeAfter(event, plan.free, Transfers(plan, squad))
           /\ next.bank = BankAfter(plan, prices, squad)
           /\ next.purchase = PurchaseAfter(plan, prices, squad)
           /\ Squad(next) = squad
<1> DEFINE next == Applied(plan, event, prices, squad)
<1>1. /\ next.gameweek = plan.gameweek + 1
      /\ next.free = FreeAfter(event, plan.free, Transfers(plan, squad))
      /\ next.bank = BankAfter(plan, prices, squad)
      /\ next.purchase = PurchaseAfter(plan, prices, squad)
      /\ next = [gameweek |-> next.gameweek, bank |-> next.bank, free |-> next.free,
                 purchase |-> next.purchase]
  BY DEF Applied
<1> HIDE DEF next
<1>2. next.free \in 0..MaxFree
  BY <1>1, PlanFacts, TransferFacts, FreeFacts
<1>3. next.bank \in Nat /\ next.purchase \in Paid /\ DOMAIN next.purchase = squad
  BY <1>1, TransferFacts
<1>4. next.gameweek \in 1..MaxGameweek
  BY <1>1, SeasonAssumption DEF Typed, PlanStates
<1>5. next \in PlanStates
  BY <1>1, <1>2, <1>3, <1>4 DEF PlanStates
<1> QED BY <1>1, <1>3, <1>5 DEF next, Squad

(* A selling price is a number: the retained share of a profit is a floor. *)
LEMMA SellingPriceInt ==
  ASSUME NEW paid \in Nat, NEW current \in Nat
  PROVE  SellingPrice(paid, current) \in Int
<1>1. RetainedOf \in Nat /\ RetainedIn \in Nat \ {0}
  BY TransferRulesAssumption
<1> DEFINE share == (current - paid) * RetainedOf
<1>2. share \in Int
  BY <1>1
<1> HIDE DEF share
<1>3. share \div RetainedIn \in Int
  BY <1>1, <1>2
<1> QED BY <1>3 DEF SellingPrice, share

(* Transfers at the prices of one node exchange players for money: those   *)
(* that stay are valued as before, those that come at what they cost, and  *)
(* those that leave at what they bring.                                    *)
LEMMA ValueKept ==
  ASSUME Typed, NEW squad \in LegalSquads, NEW next,
         next.bank = BankAfter(plan, prices, squad),
         next.purchase = PurchaseAfter(plan, prices, squad)
  PROVE  Value(next, prices) = Value(plan, prices)
<1> DEFINE old == Squad(plan)
           stay == squad \cap old
           come == squad \ old
           leave == old \ squad
           f == [p \in squad |-> SellingPrice(next.purchase[p], prices[p])]
           g == [p \in old |-> SellingPrice(plan.purchase[p], prices[p])]
           h == [p \in leave |-> SellingPrice(plan.purchase[p], prices[p])]
<1>1. /\ old \subseteq Players /\ squad \subseteq Players
      /\ IsFiniteSet(old) /\ IsFiniteSet(squad)
  BY PlanFacts, TransferRulesAssumption, FS_Subset
<1>2. IsFiniteSet(stay) /\ IsFiniteSet(come) /\ IsFiniteSet(leave)
  BY <1>1, FS_Subset
<1>3. prices \in [Players -> Nat] /\ plan.purchase \in [old -> Nat] /\ plan.bank \in Int
  <2>1. plan.purchase \in Paid
    BY DEF Typed, PlanStates
  <2> QED BY <2>1, PlanFacts DEF Paid, Squad
<1>4. Squad(next) = squad
  BY DEF Squad, PurchaseAfter
<1>5. \A p \in old : g[p] = SellingPrice(plan.purchase[p], prices[p]) /\ g[p] \in Int
  BY <1>1, <1>3, SellingPriceInt
<1>6. \A p \in leave : h[p] = g[p]
  OBVIOUS
<1>7. \A p \in stay : f[p] = g[p]
  BY DEF PurchaseAfter
<1>8. \A p \in come : f[p] = prices[p] /\ prices[p] \in Int
  <2> TAKE p \in come
  <2>1. next.purchase[p] = prices[p] /\ prices[p] \in Nat
    BY <1>1, <1>3 DEF PurchaseAfter
  <2> QED BY <2>1 DEF SellingPrice
<1>9. /\ Proceeds(next, prices, Squad(next)) = SumOver(f, squad)
      /\ Proceeds(plan, prices, old) = SumOver(g, old)
      /\ Proceeds(plan, prices, leave) = SumOver(h, leave)
  BY <1>4 DEF Proceeds
<1>10. /\ squad = stay \cup come /\ stay \cap come = {}
       /\ old = stay \cup leave /\ stay \cap leave = {}
       /\ stay \subseteq old /\ leave \subseteq old
  OBVIOUS
<1>11. next.bank = plan.bank + SumOver(h, leave) - SumOver(prices, come)
  BY <1>9 DEF BankAfter
<1> HIDE DEF old, stay, come, leave, f, g, h
<1>12. SumOver(f, stay) = SumOver(g, stay) /\ SumOver(h, leave) = SumOver(g, leave)
       /\ SumOver(f, come) = SumOver(prices, come)
  BY <1>2, <1>6, <1>7, <1>8, SumSame
<1>13. SumOver(g, old) = SumOver(g, stay) + SumOver(g, leave)
  <2>1. \A p \in stay \cup leave : g[p] \in Int
    BY <1>5, <1>10
  <2> QED BY <2>1, <1>2, <1>10, SumUnion
<1>14. SumOver(f, squad) = SumOver(f, stay) + SumOver(f, come)
  <2>1. \A p \in stay \cup come : f[p] \in Int
    BY <1>5, <1>7, <1>8, <1>10
  <2> QED BY <2>1, <1>2, <1>10, SumUnion
<1>15. SumOver(g, stay) \in Int /\ SumOver(g, leave) \in Int /\ SumOver(prices, come) \in Int
  BY <1>2, <1>5, <1>8, <1>10, SumInt
<1> DEFINE a == SumOver(g, stay)
           b == SumOver(g, leave)
           c == SumOver(prices, come)
<1>16. /\ Value(next, prices) = next.bank + (a + c) /\ next.bank = plan.bank + b - c
       /\ Value(plan, prices) = plan.bank + (a + b)
       /\ a \in Int /\ b \in Int /\ c \in Int
  BY <1>9, <1>11, <1>12, <1>13, <1>14, <1>15 DEF Value, old
<1> HIDE DEF a, b, c
<1> QED BY <1>3, <1>16

(* A free transfer is counted once.                                        *)
LEMMA EarnsFacts ==
  ASSUME Typed, plan.free <= earned, NEW event \in DOMAIN EventRules, NEW count \in Nat,
         Earns(event, count)
  PROVE  /\ earned' \in Nat
         /\ FreeAfter(event, plan.free, count) <= earned'
<1> DEFINE rule == EventRules[event]
           used == FreeUsed(event, plan.free, count)
           after == FreeAfter(event, plan.free, count)
<1>1. rule.earned \in Nat
  BY TransferRulesAssumption DEF EventRecords
<1>2. /\ used \in 0..plan.free /\ after \in 0..MaxFree
      /\ after <= (IF rule.carries THEN plan.free - used ELSE 0) + rule.earned
  BY PlanFacts, FreeFacts
<1>3. earned' = (IF rule.carries THEN earned - used ELSE 0) + rule.earned
  BY DEF Earns
<1>4. earned \in Nat /\ plan.free \in Nat /\ MaxFree \in Nat
  BY PlanFacts DEF Typed
<1> HIDE DEF rule, used, after
<1>5. used \in Nat /\ used <= plan.free /\ after \in Nat
  BY <1>2, <1>4
<1>6. CASE rule.carries
  <2>1. earned' = earned - used + rule.earned
    BY <1>3, <1>6
  <2>2. after <= plan.free - used + rule.earned
    BY <1>2, <1>6
  <2>3. earned' \in Nat /\ after <= earned'
    BY <2>1, <2>2, <1>1, <1>4, <1>5
  <2> QED BY <2>3 DEF after
<1>7. CASE ~rule.carries
  <2>1. earned' = 0 + rule.earned /\ after <= 0 + rule.earned
    BY <1>2, <1>3, <1>7
  <2> QED BY <2>1, <1>1, <1>5 DEF after
<1> QED BY <1>6, <1>7

-----------------------------------------------------------------------------
(* The end of a Gameweek.                                                  *)

(* What complete_chip_gameweek leaves of a state. *)
LEMMA CompletedFields ==
  ASSUME NEW state \in ChipStates, NEW start \in Snapshots, state.gameweek < MaxGameweek,
         state.playing = "FREE_HIT" => start # NoSnapshot,
         state.snapshot = IF state.playing = "FREE_HIT" THEN start ELSE NoSnapshot
  PROVE  LET next == Completed(state) IN
           /\ next \in ChipStates
           /\ next.gameweek = state.gameweek + 1 /\ next.saved = state.saved
           /\ next.pending = NoChip /\ next.playing = NoChip
           /\ next.history = state.history /\ next.snapshot = NoSnapshot
           /\ state.playing = "FREE_HIT" =>
                next.active = start.permanent /\ Remembered(next) = start
           /\ state.playing # "FREE_HIT" =>
                /\ next.permanent = state.permanent /\ next.active = state.active
                /\ next.bank = state.bank /\ next.purchase = state.purchase
<1> DEFINE next == Completed(state)
           ended == IF state.snapshot = NoSnapshot THEN state ELSE Restored(state)
<1>1. next = [ended EXCEPT !.gameweek = @ + 1, !.playing = NoChip, !.pending = NoChip,
                           !.confirmed = 0, !.snapshot = NoSnapshot]
  BY DEF Completed
<1>2. /\ ended \in ChipStates
      /\ ended.gameweek = state.gameweek /\ ended.saved = state.saved
      /\ ended.history = state.history
  <2>1. CASE state.snapshot = NoSnapshot
    BY <2>1
  <2>2. CASE state.snapshot # NoSnapshot
    <3>1. state.snapshot \in Snapshots
      BY <2>2 DEF ChipStates
    <3>2. ended = Restored(state)
      BY <2>2
    <3> HIDE DEF ended
    <3> QED BY <3>1, <3>2 DEF Restored, ChipStates, Snapshots
  <2> QED BY <2>1, <2>2
<1>3. state.playing = "FREE_HIT" =>
        /\ ended.permanent = start.permanent /\ ended.active = start.permanent
        /\ ended.bank = start.bank /\ ended.purchase = start.purchase
  <2> SUFFICES ASSUME state.playing = "FREE_HIT"
               PROVE  /\ ended.permanent = start.permanent /\ ended.active = start.permanent
                      /\ ended.bank = start.bank /\ ended.purchase = start.purchase
    OBVIOUS
  <2>1. state.snapshot = start /\ ended = Restored(state)
    OBVIOUS
  <2> HIDE DEF ended
  <2> QED BY <2>1 DEF Restored, ChipStates
<1>4. state.playing # "FREE_HIT" => ended = state
  OBVIOUS
<1> HIDE DEF ended, next
<1>5. 0 \in Counts /\ ended.gameweek + 1 \in 1..MaxGameweek
  BY <1>2, SeasonAssumption DEF ChipStates, Counts
<1>6. next \in ChipStates
  BY <1>1, <1>2, <1>5 DEF ChipStates
<1>7. /\ next.gameweek = ended.gameweek + 1 /\ next.saved = ended.saved
      /\ next.pending = NoChip /\ next.playing = NoChip
      /\ next.history = ended.history /\ next.snapshot = NoSnapshot
      /\ next.permanent = ended.permanent /\ next.active = ended.active
      /\ next.bank = ended.bank /\ next.purchase = ended.purchase
  BY <1>1, <1>2 DEF ChipStates
<1>8. start = [permanent |-> start.permanent, bank |-> start.bank, purchase |-> start.purchase]
  BY DEF Snapshots
<1>9. state.playing = "FREE_HIT" => next.active = start.permanent /\ Remembered(next) = start
  BY <1>3, <1>7, <1>8 DEF Remembered
<1> QED BY <1>2, <1>4, <1>6, <1>7, <1>9 DEF next

(* The end of a Gameweek keeps the history of the chips lawful. *)
LEMMA CompletedLawful ==
  ASSUME NEW state \in ChipStates, NEW next \in ChipStates, Lawful(state),
         next.gameweek = state.gameweek + 1, next.history = state.history,
         next.playing = NoChip, next.pending = NoChip
  PROVE  Lawful(next)
<1>1. \A i \in DOMAIN state.history : state.history[i].gameweek \in Nat
  <2>1. state.history \in Seq(Uses)
    BY DEF ChipStates
  <2>2. \A i \in DOMAIN state.history : state.history[i] \in Uses
    BY <2>1
  <2> QED BY <2>2 DEF Uses
<1>2. state.gameweek \in Nat
  BY DEF ChipStates
<1>3. \A i \in DOMAIN next.history : next.history[i].gameweek < next.gameweek
                                    /\ next.history[i].gameweek <= next.gameweek
  BY <1>1, <1>2 DEF Lawful
<1> QED BY <1>3 DEF Lawful

(* What a chip state remembers of itself.                                  *)
LEMMA RememberedType ==
  ASSUME NEW state \in ChipStates
  PROVE  Remembered(state) \in Snapshots
BY DEF Remembered, Snapshots, ChipStates

(* A state without a chip that has what the plan has, and that a Gameweek
   begins with. *)
LEMMA PlainIsDescribed ==
  ASSUME NEW next, NEW managed, NEW at, NEW start, NEW told,
         next.playing = NoChip, next.snapshot = NoSnapshot,
         next.gameweek = managed.gameweek, told.free => next.saved = managed.free,
         next.permanent = Squad(managed), next.active = Squad(managed),
         DOMAIN next.purchase = next.active, start = Remembered(next),
         SamePurse(start, managed, told)
  PROVE  Described(next, managed, at, start, told)
<1>1. NoChip # "WILDCARD" /\ NoChip # "FREE_HIT"
  BY DEF NoChip
<1>2. Owns(start, managed, told)
  BY DEF Owns, Remembered
<1> QED BY <1>1, <1>2 DEF Described

(* A Gameweek that ends under a Wildcard leaves the rules and the
   optimiser with the same squad. *)
LEMMA WildcardEnds ==
  ASSUME SeasonInvariant, EndWildcard, plan.gameweek < MaxGameweek
  PROVE  SeasonInvariant'
<1> DEFINE squad == chip.active
           count == Transfers(plan, squad)
<1>1. /\ Typed /\ Described(chip, plan, prices, began, agreed) /\ Lawful(chip)
      /\ plan.free <= earned
      /\ chip.playing = "WILDCARD" /\ MayApply(plan, prices, squad)
      /\ "WILDCARD" \in DOMAIN EventRules
      /\ FreeAfter("WILDCARD", plan.free, count) = plan.free
      /\ plan' = Applied(plan, "WILDCARD", prices, squad)
      /\ chip' = Completed(chip) /\ Earns("WILDCARD", count) /\ prices' \in PriceLists
      /\ began' = Remembered(chip') /\ agreed' = agreed
  BY DEF SeasonInvariant, EndWildcard, MayReset, Observes
<1>2. /\ chip \in ChipStates /\ squad \in LegalSquads /\ began \in Snapshots
      /\ chip.gameweek < MaxGameweek
  BY <1>1 DEF Typed, Described, MayApply
<1>3. /\ plan' \in PlanStates /\ plan'.gameweek = plan.gameweek + 1 /\ plan'.free = plan.free
      /\ plan'.bank = BankAfter(plan, prices, squad)
      /\ plan'.purchase = PurchaseAfter(plan, prices, squad) /\ Squad(plan') = squad
  BY <1>1, <1>2, AppliedFacts
<1>4. chip.snapshot = IF chip.playing = "FREE_HIT" THEN began ELSE NoSnapshot
  BY <1>1 DEF Described
<1>5. /\ chip' \in ChipStates
      /\ chip'.gameweek = chip.gameweek + 1 /\ chip'.saved = chip.saved
      /\ chip'.pending = NoChip /\ chip'.playing = NoChip
      /\ chip'.history = chip.history /\ chip'.snapshot = NoSnapshot
      /\ chip'.permanent = chip.permanent /\ chip'.active = chip.active
      /\ chip'.bank = chip.bank /\ chip'.purchase = chip.purchase
  BY <1>1, <1>2, <1>4, CompletedFields
<1>6. Lawful(chip')
  BY <1>1, <1>2, <1>5, CompletedLawful
<1>7. /\ Rebuilt(chip, plan, prices, agreed) /\ chip.gameweek = plan.gameweek
      /\ agreed.free => chip.saved = plan.free
      /\ DOMAIN chip.purchase = chip.active
  BY <1>1 DEF Described
<1>8. SamePurse(began', plan', agreed')
  BY <1>1, <1>3, <1>5, <1>7 DEF SamePurse, Rebuilt, Remembered
<1>9. chip'.permanent = Squad(plan') /\ chip'.active = Squad(plan')
  BY <1>3, <1>5, <1>7 DEF Rebuilt
<1>10. Described(chip', plan', prices', began', agreed')
  BY <1>1, <1>3, <1>5, <1>7, <1>8, <1>9, PlainIsDescribed
<1>11. count \in Nat
  BY <1>1, <1>2, TransferFacts
<1>12. earned' \in Nat /\ plan'.free <= earned'
  BY <1>1, <1>3, <1>11, EarnsFacts
<1>13. Typed'
  BY <1>1, <1>3, <1>5, <1>12, RememberedType DEF Typed
<1> QED BY <1>6, <1>10, <1>12, <1>13 DEF SeasonInvariant

(* Saying of one part that the two agree no longer says nothing of the
   other. *)
LEMMA ToldFree ==
  ASSUME agreed \in [purse : BOOLEAN, free : BOOLEAN], NEW F \in BOOLEAN,
         agreed' = [agreed EXCEPT !.free = @ /\ F]
  PROVE  /\ agreed' \in [purse : BOOLEAN, free : BOOLEAN]
         /\ agreed'.purse = agreed.purse
         /\ agreed'.free => agreed.free /\ F
<1> DEFINE both == agreed.free /\ F
<1>1. both \in BOOLEAN /\ (both => agreed.free /\ F)
  OBVIOUS
<1> HIDE DEF both
<1>2. agreed' = [agreed EXCEPT !.free = both]
  BY DEF both
<1> QED BY <1>1, <1>2

(* A Gameweek that ends under a Free Hit keeps the invariant, leaves the
   plan its squad and money, and gives the chip state back what it began
   with. *)
LEMMA FreeHitEnds ==
  ASSUME SeasonInvariant, NEW event \in DOMAIN EventRules, EndFreeHit(event),
         plan.gameweek < MaxGameweek
  PROVE  /\ SeasonInvariant'
         /\ plan'.bank = plan.bank /\ plan'.purchase = plan.purchase
         /\ chip'.active = began.permanent /\ Remembered(chip') = began
<1> DEFINE count == Transfers(plan, chip.active)
<1>1. /\ Typed /\ Described(chip, plan, prices, began, agreed) /\ Lawful(chip)
      /\ plan.free <= earned /\ chip.playing = "FREE_HIT"
      /\ plan' = FreeHitRestored(plan, event, count)
      /\ agreed' = [agreed EXCEPT !.free = @ /\ plan'.free = plan.free]
      /\ chip' = Completed(chip) /\ Earns(event, count) /\ prices' \in PriceLists
      /\ began' = Remembered(chip')
  BY DEF SeasonInvariant, EndFreeHit, Observes
<1>2. /\ chip \in ChipStates /\ chip.active \subseteq Players /\ began \in Snapshots
      /\ chip.gameweek = plan.gameweek /\ chip.gameweek < MaxGameweek
      /\ agreed \in [purse : BOOLEAN, free : BOOLEAN]
  BY <1>1 DEF Typed, ChipStates, Described
<1>3. count \in Nat
  <2>1. IsFiniteSet(chip.active \ Squad(plan))
    BY <1>2, TransferRulesAssumption, FS_Subset
  <2> QED BY <2>1, FS_CardinalityType DEF Transfers
<1> HIDE DEF count
<1>4. FreeAfter(event, plan.free, count) \in 0..MaxFree
  BY <1>1, <1>3, PlanFacts, FreeFacts
<1>5. /\ plan' \in PlanStates /\ plan'.gameweek = plan.gameweek + 1
      /\ plan'.free = FreeAfter(event, plan.free, count)
      /\ plan'.bank = plan.bank /\ plan'.purchase = plan.purchase
  <2>1. plan \in PlanStates /\ plan.gameweek + 1 \in 1..MaxGameweek
    BY <1>1, SeasonAssumption DEF Typed, PlanStates
  <2>2. plan' = [plan EXCEPT !.gameweek = plan.gameweek + 1,
                             !.free = FreeAfter(event, plan.free, count)]
    BY <1>1, <2>1 DEF FreeHitRestored, PlanStates
  <2> QED BY <2>1, <2>2, <1>4 DEF PlanStates
<1>6. Squad(plan') = Squad(plan)
  BY <1>5 DEF Squad
<1>7. /\ chip.snapshot = IF chip.playing = "FREE_HIT" THEN began ELSE NoSnapshot
      /\ Owns(began, plan, agreed) /\ (agreed.free => chip.saved = plan.free)
  BY <1>1 DEF Described
<1>8. began.permanent = Squad(plan) /\ DOMAIN began.purchase = began.permanent
      /\ SamePurse(began, plan, agreed)
  BY <1>7 DEF Owns
<1>9. began # NoSnapshot
  BY <1>1, <1>8, PlanFacts DEF NoSnapshot
<1>10. /\ chip' \in ChipStates
       /\ chip'.gameweek = chip.gameweek + 1 /\ chip'.saved = chip.saved
       /\ chip'.pending = NoChip /\ chip'.playing = NoChip
       /\ chip'.history = chip.history /\ chip'.snapshot = NoSnapshot
       /\ chip'.active = began.permanent /\ Remembered(chip') = began
  BY <1>1, <1>2, <1>7, <1>9, CompletedFields
<1>11. Lawful(chip')
  BY <1>1, <1>2, <1>10, CompletedLawful
<1>12. /\ agreed' \in [purse : BOOLEAN, free : BOOLEAN] /\ agreed'.purse = agreed.purse
       /\ agreed'.free => agreed.free /\ plan'.free = plan.free
  BY <1>1, <1>2, ToldFree
<1>13. chip'.permanent = began.permanent /\ chip'.purchase = began.purchase
  BY <1>10 DEF Remembered
<1>14. SamePurse(began', plan', agreed')
  BY <1>1, <1>5, <1>8, <1>10, <1>12 DEF SamePurse
<1>15. Described(chip', plan', prices', began', agreed')
  BY <1>1, <1>2, <1>5, <1>6, <1>7, <1>8, <1>10, <1>12, <1>13, <1>14, PlainIsDescribed
<1>16. earned' \in Nat /\ plan'.free <= earned'
  BY <1>1, <1>3, <1>5, EarnsFacts
<1>17. Typed'
  BY <1>1, <1>2, <1>5, <1>10, <1>12, <1>16 DEF Typed
<1>18. SeasonInvariant'
  BY <1>11, <1>15, <1>16, <1>17 DEF SeasonInvariant
<1> QED BY <1>5, <1>10, <1>18

(* A chip state takes over the squad, the money and the free transfers of
   a plan. *)
LEMMA AdoptedFields ==
  ASSUME NEW state \in ChipStates, NEW managed \in PlanStates, Squad(managed) \in LegalSquads
  PROVE  LET next == Adopted(state, managed) IN
           /\ next \in ChipStates
           /\ next.permanent = Squad(managed) /\ next.active = Squad(managed)
           /\ next.bank = managed.bank /\ next.purchase = managed.purchase
           /\ next.saved = managed.free
           /\ next.gameweek = state.gameweek /\ next.history = state.history
           /\ next.playing = state.playing /\ next.pending = state.pending
           /\ next.snapshot = state.snapshot
<1>1. managed.bank \in Nat /\ managed.purchase \in Paid /\ managed.free \in 0..MaxFree
  BY DEF PlanStates
<1>2. managed.purchase \in Said
  BY <1>1, PaidIsSaid
<1>3. Squad(managed) \in SUBSET Players
  BY TransferRulesAssumption
<1> QED BY <1>1, <1>2, <1>3 DEF Adopted, ChipStates

(* A Gameweek without a transfer chip keeps the invariant, whatever
   transfers end it. *)
LEMMA TransfersEnd ==
  ASSUME SeasonInvariant, NEW squad \in LegalSquads, NEW event \in DOMAIN EventRules,
         EndWithTransfers(squad, event), plan.gameweek < MaxGameweek
  PROVE  SeasonInvariant'
<1> DEFINE count == Transfers(plan, squad)
           adopted == Adopted(chip, plan')
<1>1. /\ Typed /\ Described(chip, plan, prices, began, agreed) /\ Lawful(chip)
      /\ plan.free <= earned
      /\ chip.playing \notin UnlimitedFree /\ MayApply(plan, prices, squad)
      /\ plan' = Applied(plan, event, prices, squad)
      /\ chip' = Completed(adopted) /\ Earns(event, count) /\ prices' \in PriceLists
      /\ began' = Remembered(chip') /\ agreed' = [purse |-> TRUE, free |-> TRUE]
  BY DEF SeasonInvariant, EndWithTransfers, Observes
<1>2. began \in Snapshots
  BY <1>1 DEF Typed
<1>3. chip \in ChipStates /\ chip.gameweek = plan.gameweek /\ chip.snapshot = NoSnapshot
      /\ chip.playing # "FREE_HIT"
  BY <1>1 DEF Typed, Described, UnlimitedFree
<1>4. /\ plan' \in PlanStates /\ plan'.gameweek = plan.gameweek + 1
      /\ plan'.free = FreeAfter(event, plan.free, count) /\ Squad(plan') = squad
  BY <1>1, AppliedFacts
<1>5. /\ adopted \in ChipStates
      /\ adopted.permanent = Squad(plan') /\ adopted.active = Squad(plan')
      /\ adopted.bank = plan'.bank /\ adopted.purchase = plan'.purchase
      /\ adopted.saved = plan'.free
      /\ adopted.gameweek = chip.gameweek /\ adopted.history = chip.history
      /\ adopted.playing = chip.playing /\ adopted.pending = chip.pending
      /\ adopted.snapshot = chip.snapshot
  BY <1>3, <1>4, AdoptedFields
<1> HIDE DEF adopted
<1>6. /\ chip' \in ChipStates
      /\ chip'.gameweek = adopted.gameweek + 1 /\ chip'.saved = adopted.saved
      /\ chip'.pending = NoChip /\ chip'.playing = NoChip
      /\ chip'.history = adopted.history /\ chip'.snapshot = NoSnapshot
      /\ chip'.permanent = adopted.permanent /\ chip'.active = adopted.active
      /\ chip'.bank = adopted.bank /\ chip'.purchase = adopted.purchase
  <2>1. adopted.gameweek < MaxGameweek
        /\ adopted.snapshot = IF adopted.playing = "FREE_HIT" THEN began ELSE NoSnapshot
    BY <1>3, <1>5
  <2>2. adopted.playing # "FREE_HIT"
    BY <1>3, <1>5
  <2> QED BY <1>1, <1>2, <1>5, <2>1, <2>2, CompletedFields
<1>7. Lawful(chip')
  BY <1>1, <1>3, <1>5, <1>6, CompletedLawful
<1>8. /\ chip'.permanent = Squad(plan') /\ chip'.active = Squad(plan')
      /\ chip'.bank = plan'.bank /\ chip'.purchase = plan'.purchase /\ chip'.saved = plan'.free
      /\ chip'.gameweek = plan'.gameweek
  BY <1>3, <1>4, <1>5, <1>6
<1>9. DOMAIN chip'.purchase = chip'.active
  BY <1>8 DEF Squad
<1>10. SamePurse(began', plan', agreed')
  BY <1>1, <1>8 DEF SamePurse, Remembered
<1>11. Described(chip', plan', prices', began', agreed')
  BY <1>1, <1>6, <1>8, <1>9, <1>10, PlainIsDescribed
<1>12. count \in Nat
  BY <1>1, TransferFacts
<1>13. earned' \in Nat /\ plan'.free <= earned'
  BY <1>1, <1>4, <1>12, EarnsFacts
<1>14. Typed'
  <2>1. began' \in Snapshots
    BY <1>1, <1>6, RememberedType
  <2>2. agreed' \in [purse : BOOLEAN, free : BOOLEAN]
    BY <1>1
  <2> QED BY <2>1, <2>2, <1>1, <1>4, <1>6, <1>13 DEF Typed
<1> QED BY <1>7, <1>11, <1>13, <1>14 DEF SeasonInvariant

-----------------------------------------------------------------------------
(* Moves within a Gameweek.                                                *)

(* A step of the chip state alone keeps the invariant when it keeps its
   two parts. *)
LEMMA OnlyChipMoves ==
  ASSUME SeasonInvariant, chip' \in ChipStates,
         Described(chip', plan, prices, began, agreed), Lawful(chip'),
         UNCHANGED <<plan, prices, earned, began, agreed>>
  PROVE  SeasonInvariant'
<1>1. Typed'
  BY DEF SeasonInvariant, Typed
<1>2. Described(chip', plan', prices', began', agreed')
  OBVIOUS
<1> QED BY <1>1, <1>2 DEF SeasonInvariant

(* A chip that can still be played may be chosen and may lock.             *)
LEMMA ChosenMayLock ==
  ASSUME SeasonInvariant, NEW key \in ChipKeys, NEW count \in Counts,
         chip.playing = NoChip, Playable(chip, key)
  PROVE  LET chosen == Choosing(chip, key, count) IN
           /\ chosen \in ChipStates /\ Described(chosen, plan, prices, began, agreed) /\ Lawful(chosen)
           /\ Locks(chosen, key) \in ChipStates
           /\ Described(Locks(chosen, key), plan, prices, began, agreed) /\ Lawful(Locks(chosen, key))
<1>1. Typed /\ Described(chip, plan, prices, began, agreed) /\ Lawful(chip)
  BY DEF SeasonInvariant
<1>2. chip \in ChipStates /\ plan \in PlanStates
  BY <1>1 DEF Typed
<1>3. /\ BankAfter(plan, prices, Squad(plan)) = plan.bank
      /\ PurchaseAfter(plan, prices, Squad(plan)) = plan.purchase
  BY <1>2, NothingChanges
<1> QED BY <1>1, <1>2, <1>3, PlayableKeeps

(* play_chip keeps the invariant. *)
LEMMA PlayChipKeeps ==
  ASSUME SeasonInvariant, NEW key \in ChipKeys, NEW count \in Counts,
         PlayChip(key, count)
  PROVE  SeasonInvariant'
<1>1. chip.playing = NoChip /\ Playable(chip, key)
  BY DEF PlayChip, MayPlay, Playable, InWindow
<1>2. chip' = IF LocksAt(key, count) THEN Locks(Choosing(chip, key, count), key)
              ELSE Choosing(chip, key, count)
  BY DEF PlayChip, Played, Choosing
<1>3. chip' \in ChipStates /\ Described(chip', plan, prices, began, agreed) /\ Lawful(chip')
  BY <1>1, <1>2, ChosenMayLock
<1> QED BY <1>3, OnlyChipMoves DEF PlayChip, seen

(* A pending chip could be played now. *)
LEMMA PendingPlayable ==
  ASSUME SeasonInvariant, chip.pending # NoChip
  PROVE  chip.pending \in ChipKeys /\ chip.playing = NoChip /\ Playable(chip, chip.pending)
BY DEF SeasonInvariant, Typed, ChipStates, Lawful

(* confirm_chip_transfers keeps the invariant. *)
LEMMA ConfirmTransfersKeeps ==
  ASSUME SeasonInvariant, NEW count \in Counts, ConfirmTransfers(count)
  PROVE  SeasonInvariant'
<1> DEFINE key == chip.pending
<1>1. key \in ChipKeys /\ chip.playing = NoChip /\ Playable(chip, key)
  BY PendingPlayable DEF ConfirmTransfers, MayConfirm
<1>2. [chip EXCEPT !.confirmed = count] = Choosing(chip, key, count)
  BY DEF SeasonInvariant, Typed, ChipStates, Choosing
<1>3. chip' = IF LocksAt(key, count) THEN Locks(Choosing(chip, key, count), key)
              ELSE Choosing(chip, key, count)
  BY <1>2 DEF ConfirmTransfers, Confirmed
<1>4. chip' \in ChipStates /\ Described(chip', plan, prices, began, agreed) /\ Lawful(chip')
  BY <1>1, <1>3, ChosenMayLock
<1> QED BY <1>4, OnlyChipMoves DEF ConfirmTransfers, seen

(* Nothing is lost with a selection that is dropped. *)
LEMMA DropKeeps ==
  ASSUME SeasonInvariant
  PROVE  LET next == [chip EXCEPT !.pending = NoChip, !.confirmed = 0] IN
           next \in ChipStates /\ Described(next, plan, prices, began, agreed) /\ Lawful(next)
<1>1. chip \in ChipStates /\ Described(chip, plan, prices, began, agreed) /\ Lawful(chip)
  BY DEF SeasonInvariant, Typed
<1>2. 0 \in Counts
  BY SeasonAssumption DEF Counts
<1>3. /\ Choosing(chip, NoChip, 0) \in ChipStates
      /\ Described(Choosing(chip, NoChip, 0), plan, prices, began, agreed)
      /\ Lawful(Choosing(chip, NoChip, 0))
  BY <1>1, <1>2, ChoosingKeeps
<1> QED BY <1>3 DEF Choosing

(* cancel_pending_chip keeps the invariant. *)
LEMMA CancelChipKeeps ==
  ASSUME SeasonInvariant, CancelChip
  PROVE  SeasonInvariant'
BY DropKeeps, OnlyChipMoves DEF CancelChip, Cancelled, seen

(* finalise_chip_deadline keeps the invariant, whether it locks the
   pending chip or has none. *)
LEMMA FinaliseDeadlineKeeps ==
  ASSUME SeasonInvariant, FinaliseDeadline
  PROVE  SeasonInvariant'
<1>1. chip \in ChipStates /\ Described(chip, plan, prices, began, agreed) /\ Lawful(chip)
      /\ chip.confirmed \in Counts
  BY DEF SeasonInvariant, Typed, ChipStates
<1>2. CASE chip.pending = NoChip
  BY <1>1, <1>2, OnlyChipMoves DEF FinaliseDeadline, Finalised, seen
<1>3. CASE chip.pending # NoChip /\ ChipRules[chip.pending].route = "CONFIRMED_TRANSFERS"
  <2>1. chip' = [chip EXCEPT !.pending = NoChip, !.confirmed = 0]
    BY <1>3 DEF FinaliseDeadline, Finalised
  <2> QED BY <2>1, DropKeeps, OnlyChipMoves DEF FinaliseDeadline, seen
<1>4. CASE chip.pending # NoChip /\ ChipRules[chip.pending].route # "CONFIRMED_TRANSFERS"
  <2> DEFINE key == chip.pending
  <2>1. key \in ChipKeys /\ chip.playing = NoChip /\ Playable(chip, key)
    BY <1>4, PendingPlayable
  <2>2. chip = Choosing(chip, key, chip.confirmed)
    BY <1>1 DEF ChipStates, Choosing
  <2>3. chip' = Locks(chip, key)
    BY <1>4 DEF FinaliseDeadline, Finalised
  <2>4. chip' = Locks(Choosing(chip, key, chip.confirmed), key)
    BY <2>2, <2>3
  <2>5. chip' \in ChipStates /\ Described(chip', plan, prices, began, agreed) /\ Lawful(chip')
    BY <1>1, <2>1, <2>4, ChosenMayLock
  <2> QED BY <2>5, OnlyChipMoves DEF FinaliseDeadline, seen
<1> QED BY <1>2, <1>3, <1>4

(* What a squad written into the chip state changes of it. *)
LEMMA ReplacedFields ==
  ASSUME NEW state \in ChipStates, NEW squad \in SUBSET Players, NEW bank \in Nat,
         NEW purchase \in Said
  PROVE  LET next == Replaced(state, squad, bank, purchase) IN
           /\ next \in ChipStates
           /\ next.active = squad /\ next.bank = bank /\ next.purchase = purchase
           /\ next.permanent = IF state.playing = "WILDCARD" THEN squad ELSE state.permanent
           /\ next.gameweek = state.gameweek /\ next.saved = state.saved
           /\ next.history = state.history /\ next.pending = state.pending
           /\ next.playing = state.playing /\ next.snapshot = state.snapshot
<1>1. state.playing \in Permanent <=> state.playing = "WILDCARD"
  BY DEF Permanent
<1> DEFINE next == Replaced(state, squad, bank, purchase)
<1>2. next = [state EXCEPT !.active = squad, !.bank = bank, !.purchase = purchase,
                !.permanent = IF state.playing = "WILDCARD" THEN squad ELSE state.permanent]
  BY <1>1 DEF Replaced, ChipStates
<1> HIDE DEF next
<1>3. next \in ChipStates
  BY <1>2 DEF ChipStates
<1>4. /\ next.active = squad /\ next.bank = bank /\ next.purchase = purchase
      /\ next.permanent = IF state.playing = "WILDCARD" THEN squad ELSE state.permanent
      /\ next.gameweek = state.gameweek /\ next.saved = state.saved
      /\ next.history = state.history /\ next.pending = state.pending
      /\ next.playing = state.playing /\ next.snapshot = state.snapshot
  BY <1>2 DEF ChipStates
<1> QED BY <1>3, <1>4 DEF next

(* A replacement keeps the invariant: under a Wildcard what the two were
   told agrees afterwards only if the finances are those of the plan's
   transfers. *)
LEMMA ReplacedKeeps ==
  ASSUME SeasonInvariant, NEW squad \in SUBSET Players, NEW bank \in Nat,
         NEW purchase \in Said, MayReplace(chip, squad, bank, purchase),
         chip' = Replaced(chip, squad, bank, purchase),
         UNCHANGED <<plan, prices, earned, began>>,
         agreed' \in [purse : BOOLEAN, free : BOOLEAN], agreed'.free = agreed.free,
         chip.playing # "WILDCARD" => agreed'.purse = agreed.purse,
         chip.playing = "WILDCARD" /\ agreed'.purse =>
           bank = BankAfter(plan, prices, squad) /\ purchase = PurchaseAfter(plan, prices, squad)
  PROVE  SeasonInvariant'
<1>1. /\ Typed /\ Described(chip, plan, prices, began, agreed) /\ Lawful(chip)
      /\ chip \in ChipStates /\ plan.free <= earned
  BY DEF SeasonInvariant, Typed
<1>2. /\ chip.playing \in UnlimitedFree /\ Cardinality(squad) = Cardinality(chip.active)
      /\ DOMAIN purchase = squad
  BY DEF MayReplace
<1>3. /\ chip' \in ChipStates
      /\ chip'.active = squad /\ chip'.bank = bank /\ chip'.purchase = purchase
      /\ chip'.permanent = IF chip.playing = "WILDCARD" THEN squad ELSE chip.permanent
      /\ chip'.gameweek = chip.gameweek /\ chip'.saved = chip.saved
      /\ chip'.history = chip.history /\ chip'.pending = chip.pending
      /\ chip'.playing = chip.playing /\ chip'.snapshot = chip.snapshot
  BY <1>1, ReplacedFields
<1>4. Lawful(chip')
  BY <1>1, <1>3 DEF Lawful, Playable, Rested
<1>5. chip.playing = "WILDCARD" => Rebuilt(chip', plan, prices, agreed')
  BY <1>3 DEF Rebuilt
<1>6. Cardinality(chip'.active) = Cardinality(chip'.permanent)
  BY <1>1, <1>2, <1>3 DEF Described
<1>7. chip.playing # "WILDCARD" => Owns(began, plan, agreed')
  <2> SUFFICES ASSUME chip.playing # "WILDCARD" PROVE Owns(began, plan, agreed')
    OBVIOUS
  <2>1. Owns(began, plan, agreed) /\ agreed'.purse = agreed.purse
    BY <1>1 DEF Described
  <2> QED BY <2>1 DEF Owns, SamePurse
<1>8. Described(chip', plan, prices, began, agreed')
  BY <1>1, <1>2, <1>3, <1>5, <1>6, <1>7 DEF Described
<1>9. Typed'
  BY <1>1, <1>3 DEF Typed
<1> QED BY <1>1, <1>4, <1>8, <1>9 DEF SeasonInvariant

(* replace_chip_squad keeps the invariant, however often it is called in a
   Gameweek and with whatever finances it accepts. *)
LEMMA ReplaceSquadKeeps ==
  ASSUME SeasonInvariant, NEW squad \in SUBSET Players, NEW bank \in Banks,
         NEW purchase \in [squad -> Payments], ReplaceSquad(squad, bank, purchase)
  PROVE  SeasonInvariant'
<1>1. /\ MayReplace(chip, squad, bank, purchase)
      /\ chip' = Replaced(chip, squad, bank, purchase)
      /\ agreed' = [agreed EXCEPT !.purse = @ /\ chip.playing \notin Permanent]
      /\ UNCHANGED <<plan, prices, earned, began>>
  BY DEF ReplaceSquad, seen
<1>2. bank \in Nat
  BY <1>1, SeasonAssumption DEF MayReplace
<1>3. purchase \in Said
  <2>1. purchase \in [squad -> Int]
    BY SeasonAssumption
  <2> QED BY <2>1 DEF Said
<1>4. chip.playing \in Permanent <=> chip.playing = "WILDCARD"
  BY DEF Permanent
<1>5. agreed \in [purse : BOOLEAN, free : BOOLEAN]
  BY DEF SeasonInvariant, Typed
<1> DEFINE both == agreed.purse /\ chip.playing \notin Permanent
<1>6. /\ both \in BOOLEAN /\ (chip.playing # "WILDCARD" => both = agreed.purse)
      /\ (chip.playing = "WILDCARD" => ~both)
  BY <1>4, <1>5
<1> HIDE DEF both
<1>7. agreed' = [agreed EXCEPT !.purse = both]
  BY <1>1 DEF both
<1>8. /\ agreed' \in [purse : BOOLEAN, free : BOOLEAN] /\ agreed'.free = agreed.free
      /\ agreed'.purse = both
  BY <1>5, <1>6, <1>7
<1> QED BY <1>1, <1>2, <1>3, <1>6, <1>8, ReplacedKeeps

(* Transfers of the plan written into the chip state keep the invariant,
   and settle what a Wildcard's caller may have said before. *)
LEMMA ReplaceByTransfersKeeps ==
  ASSUME SeasonInvariant, NEW squad \in LegalSquads, ReplaceByTransfers(squad)
  PROVE  SeasonInvariant'
<1> DEFINE bank == BankAfter(plan, prices, squad)
           purchase == PurchaseAfter(plan, prices, squad)
<1>1. /\ Typed /\ MayApply(plan, prices, squad) /\ MayReplace(chip, squad, bank, purchase)
      /\ chip' = Replaced(chip, squad, bank, purchase)
      /\ agreed' = [agreed EXCEPT !.purse = @ \/ chip.playing \in Permanent]
      /\ UNCHANGED <<plan, prices, earned, began>>
  BY DEF SeasonInvariant, ReplaceByTransfers, seen
<1>2. bank \in Nat /\ purchase \in Said
  BY <1>1, TransferFacts, PaidIsSaid
<1>3. squad \in SUBSET Players
  BY TransferRulesAssumption
<1>4. chip.playing \in Permanent <=> chip.playing = "WILDCARD"
  BY DEF Permanent
<1>5. agreed \in [purse : BOOLEAN, free : BOOLEAN]
  BY <1>1 DEF Typed
<1> DEFINE either == agreed.purse \/ chip.playing \in Permanent
<1>6. either \in BOOLEAN /\ (chip.playing # "WILDCARD" => either = agreed.purse)
  BY <1>4, <1>5
<1> HIDE DEF either
<1>7. agreed' = [agreed EXCEPT !.purse = either]
  BY <1>1 DEF either
<1>8. /\ agreed' \in [purse : BOOLEAN, free : BOOLEAN] /\ agreed'.free = agreed.free
      /\ agreed'.purse = either
  BY <1>5, <1>6, <1>7
<1> QED BY <1>1, <1>2, <1>3, <1>6, <1>8, ReplacedKeeps

-----------------------------------------------------------------------------
(* The theorems.                                                           *)

(* The first Gameweek of a season has the invariant. *)
LEMMA InitKeeps == Init => SeasonInvariant
<1> SUFFICES ASSUME Init PROVE SeasonInvariant
  OBVIOUS
<1>1. PICK squad \in Openings :
        LET paid == [p \in squad |-> prices[p]] IN
          /\ chip = ChipStart(1, squad, OpeningBank, paid, 0)
          /\ plan = PlanStart(1, OpeningBank, paid, 0)
  BY DEF Init
<1> DEFINE paid == [p \in squad |-> prices[p]]
<1>2. /\ prices \in PriceLists /\ prices \in [Players -> Nat] /\ earned = 0
      /\ squad \in LegalSquads /\ squad \subseteq Players /\ OpeningBank \in Nat
      /\ 1 \in 1..MaxGameweek /\ 0 \in 0..MaxFree /\ 0 \in Counts
      /\ began = Remembered(chip) /\ agreed = [purse |-> TRUE, free |-> TRUE]
  BY SeasonAssumption, TransferRulesAssumption DEF Init, Counts
<1>3. paid \in [squad -> Nat]
  BY <1>2
<1>4. paid \in Paid /\ paid \in Said /\ DOMAIN paid = squad
  <2>1. paid \in [squad -> Int]
    BY <1>3
  <2> HIDE DEF paid
  <2> QED BY <2>1, <1>2, <1>3 DEF Paid, Said
<1> HIDE DEF paid
<1>5. /\ chip = ChipStart(1, squad, OpeningBank, paid, 0)
      /\ plan = PlanStart(1, OpeningBank, paid, 0)
  BY <1>1 DEF paid
<1>6. chip \in ChipStates
  BY <1>2, <1>4, <1>5 DEF ChipStart, ChipStates
<1>7. plan \in PlanStates
  BY <1>2, <1>4, <1>5 DEF PlanStart, PlanStates
<1>8. Typed
  <2>1. began \in Snapshots
    BY <1>2, <1>6, RememberedType
  <2>2. agreed \in [purse : BOOLEAN, free : BOOLEAN]
    BY <1>2
  <2> QED BY <2>1, <2>2, <1>2, <1>6, <1>7 DEF Typed
<1>9. /\ chip.gameweek = 1 /\ chip.saved = 0 /\ chip.permanent = squad /\ chip.active = squad
      /\ chip.bank = OpeningBank /\ chip.purchase = paid /\ chip.history = <<>>
      /\ chip.pending = NoChip /\ chip.playing = NoChip /\ chip.snapshot = NoSnapshot
  BY <1>5 DEF ChipStart
<1>10. /\ plan.gameweek = 1 /\ plan.free = 0 /\ plan.bank = OpeningBank
       /\ plan.purchase = paid /\ Squad(plan) = squad
  BY <1>4, <1>5 DEF PlanStart, Squad
<1>11. SamePurse(began, plan, agreed)
  BY <1>2, <1>9, <1>10 DEF SamePurse, Remembered
<1>12. Described(chip, plan, prices, began, agreed)
  BY <1>2, <1>4, <1>9, <1>10, <1>11, PlainIsDescribed
<1>13. Lawful(chip)
  BY <1>9 DEF Lawful, Spaced, Granted
<1> QED BY <1>2, <1>8, <1>10, <1>12, <1>13 DEF SeasonInvariant

(* Every step of the season keeps the invariant. *)
LEMMA NextKeeps == SeasonInvariant /\ [Next]_vars => SeasonInvariant'
<1> SUFFICES ASSUME SeasonInvariant, [Next]_vars PROVE SeasonInvariant'
  OBVIOUS
<1>1. CASE \E key \in ChipKeys, count \in Counts : PlayChip(key, count)
  BY <1>1, PlayChipKeeps
<1>2. CASE \E count \in Counts : ConfirmTransfers(count)
  BY <1>2, ConfirmTransfersKeeps
<1>3. CASE CancelChip
  BY <1>3, CancelChipKeeps
<1>4. CASE FinaliseDeadline
  BY <1>4, FinaliseDeadlineKeeps
<1>5. CASE \/ \E squad \in SUBSET Players, bank \in Banks :
                 \E purchase \in [squad -> Payments] : ReplaceSquad(squad, bank, purchase)
           \/ \E squad \in LegalSquads : ReplaceByTransfers(squad)
  BY <1>5, ReplaceSquadKeeps, ReplaceByTransfersKeeps
<1>6. CASE EndGameweek
  BY <1>6, WildcardEnds, FreeHitEnds, TransfersEnd DEF EndGameweek, NodeEvents
<1>7. CASE UNCHANGED vars
  BY <1>7 DEF vars, SeasonInvariant, Typed
<1> QED BY <1>1, <1>2, <1>3, <1>4, <1>5, <1>6, <1>7 DEF Next

(* The inductive invariant: how the chip state and the plan describe each  *)
(* other, whatever chips are played, cancelled and dropped.                *)
THEOREM SeasonInvariantHolds == Spec => []SeasonInvariant
BY InitKeeps, NextKeeps, PTL DEF Spec

(* Whatever arguments the functions of rules/chips.py accept, what they    *)
(* return meets the demands of the state's validator except those on the   *)
(* signs of counts and purchase prices, which they never look at.          *)
THEOREM StateStaysCoherent == Spec => []StateIsCoherent
<1>1. SeasonInvariant => StateIsCoherent
  <2> SUFFICES ASSUME SeasonInvariant PROVE StateIsCoherent
    OBVIOUS
  <2>1. Typed /\ Described(chip, plan, prices, began, agreed) /\ Lawful(chip)
    BY DEF SeasonInvariant
  <2>2. chip \in ChipStates /\ plan \in PlanStates /\ prices \in PriceLists
        /\ agreed \in [purse : BOOLEAN, free : BOOLEAN]
    BY <2>1 DEF Typed
  <2>3. /\ chip.permanent \in SUBSET Players /\ chip.active \in SUBSET Players
        /\ chip.bank >= 0 /\ chip.saved \in 0..MaxFree /\ chip.confirmed \in Counts
        /\ {chip.pending, chip.playing} \subseteq ChipKeys \cup {NoChip}
    BY <2>2 DEF ChipStates
  <2>4. plan.bank >= 0 /\ plan.free \in 0..MaxFree /\ plan.gameweek \in 1..MaxGameweek
    BY <2>2 DEF PlanStates
  <2>5. /\ DOMAIN chip.purchase = chip.active /\ plan.gameweek = chip.gameweek
        /\ Cardinality(chip.active) = Cardinality(chip.permanent)
    BY <2>1 DEF Described
  <2>6. chip.pending = NoChip \/ chip.playing = NoChip
    BY <2>1 DEF Lawful
  <2>7. chip.snapshot # NoSnapshot <=> chip.playing \in RestoresNextDeadline
    <3>1. chip.playing = "FREE_HIT" => began.permanent = Squad(plan)
      BY <2>1 DEF Described, Owns
    <3>2. chip.playing = "FREE_HIT" => began # NoSnapshot
      BY <3>1, <2>1, PlanFacts DEF NoSnapshot
    <3> QED BY <3>2, <2>1 DEF Described, RestoresNextDeadline
  <2>8. Squad(plan) \in LegalSquads
    BY <2>1, PlanFacts
  <2> QED BY <2>2, <2>3, <2>4, <2>5, <2>6, <2>7, <2>8 DEF StateIsCoherent
<1> QED BY <1>1, SeasonInvariantHolds, PTL

(* Further transfers cost the same in both: the chip state charges what    *)
(* exceeds the free transfers, the plan what its arc could not cover.      *)
LEMMA SameHits ==
  ASSUME NEW held \in Nat, NEW count \in Nat, chip.playing \notin UnlimitedFree
  PROVE  TransferHitPoints(chip, count, held) = -Hits("NORMAL", held, count)
<1>1. /\ EventRules["NORMAL"].unlimited = FALSE /\ EventRules["NORMAL"].before = NoReset
      /\ HitPoints = -HitCost /\ HitCost \in Nat
  BY EventsAssumption, TransferRulesAssumption DEF EventRecords
<1>2. FreeUsed("NORMAL", held, count) = IF held <= count THEN held ELSE count
  BY <1>1, MinOfTwo DEF FreeUsed, FreeBefore
<1>3. PaidTransfers("NORMAL", held, count) = IF held <= count THEN count - held ELSE 0
  BY <1>1, <1>2 DEF PaidTransfers
<1>4. Max({count - held, 0}) = IF held <= count THEN count - held ELSE 0
  <2>1. count - held \in Int /\ 0 \in Int
    OBVIOUS
  <2>2. Max({count - held, 0}) = IF count - held >= 0 THEN count - held ELSE 0
    BY <2>1, MaxOfTwo
  <2> QED BY <2>2
<1> DEFINE n == IF held <= count THEN count - held ELSE 0
<1>5. n \in Nat
  OBVIOUS
<1>6. TransferHitPoints(chip, count, held) = n * (-HitCost)
  BY <1>1, <1>4 DEF TransferHitPoints
<1>7. Hits("NORMAL", held, count) = n * HitCost
  BY <1>3 DEF Hits
<1> HIDE DEF n
<1>8. n * (-HitCost) = -(n * HitCost)
  BY <1>1, <1>5
<1> QED BY <1>6, <1>7, <1>8

(* The rules and the optimiser always agree about the manager, as far as   *)
(* both were told the same.                                                *)
THEOREM RulesAndPlannerAlwaysAgree == Spec => []RulesAndPlannerAgree
<1>1. SeasonInvariant => RulesAndPlannerAgree
  <2> SUFFICES ASSUME SeasonInvariant PROVE RulesAndPlannerAgree
    OBVIOUS
  <2>1. Typed /\ Described(chip, plan, prices, began, agreed)
    BY DEF SeasonInvariant
  <2>2. /\ agreed.free => chip.saved = plan.free
        /\ chip.playing # "WILDCARD" => chip.permanent = Squad(plan)
        /\ chip.playing \notin UnlimitedFree => chip.active = Squad(plan)
    BY <2>1 DEF Described
  <2>3. chip.playing \notin UnlimitedFree =>
          (agreed.purse => chip.bank = plan.bank /\ chip.purchase = plan.purchase)
    <3> SUFFICES ASSUME chip.playing \notin UnlimitedFree, agreed.purse
                 PROVE  chip.bank = plan.bank /\ chip.purchase = plan.purchase
      OBVIOUS
    <3>1. Owns(began, plan, agreed) /\ Remembered(chip) = began
      BY <2>1 DEF Described, UnlimitedFree
    <3>2. began.bank = plan.bank /\ began.purchase = plan.purchase
      BY <3>1 DEF Owns, SamePurse
    <3> QED BY <3>1, <3>2 DEF Remembered
  <2>4. plan.free \in Nat
    BY <2>1, PlanFacts
  <2>5. 0..TransferLimit \subseteq Nat
    BY TransferRulesAssumption
  <2>6. ASSUME chip.playing \notin UnlimitedFree, NEW count \in 0..TransferLimit
        PROVE  TransferHitPoints(chip, count, plan.free) = -Hits("NORMAL", plan.free, count)
    BY <2>4, <2>5, <2>6, SameHits
  <2> QED BY <2>2, <2>3, <2>6 DEF RulesAndPlannerAgree
<1> QED BY <1>1, SeasonInvariantHolds, PTL

(* A Free Hit gives back exactly what the Gameweek began with.             *)
THEOREM FreeHitsLeaveNoTrace == Spec => FreeHitLeavesNoTrace
<1> DEFINE A == (chip.playing = "FREE_HIT" /\ chip'.gameweek # chip.gameweek) =>
                  /\ Remembered(chip') = began
                  /\ chip'.active = began.permanent
                  /\ plan'.bank = plan.bank /\ plan'.purchase = plan.purchase
<1>1. SeasonInvariant /\ SeasonInvariant' /\ [Next]_vars => [A]_vars
  <2> SUFFICES ASSUME SeasonInvariant, SeasonInvariant', Next, chip.playing = "FREE_HIT",
                      chip'.gameweek # chip.gameweek
               PROVE  /\ Remembered(chip') = began
                      /\ chip'.active = began.permanent
                      /\ plan'.bank = plan.bank /\ plan'.purchase = plan.purchase
    OBVIOUS
  <2>1. plan.gameweek = chip.gameweek /\ plan'.gameweek = chip'.gameweek
    BY DEF SeasonInvariant, Described
  <2>2. EndGameweek
    BY <2>1 DEF Next, PlayChip, ConfirmTransfers, CancelChip, FinaliseDeadline, ReplaceSquad,
                ReplaceByTransfers, seen
  <2>3. plan.gameweek < MaxGameweek /\ \E event \in DOMAIN EventRules : EndFreeHit(event)
    BY <2>2 DEF EndGameweek, NodeEvents, EndWildcard, EndWithTransfers, UnlimitedFree
  <2> QED BY <2>3, FreeHitEnds
<1> QED BY <1>1, SeasonInvariantHolds, PTL DEF Spec, FreeHitLeavesNoTrace

(* Chips are used as the rules grant them, also when one stays selected    *)
(* for long before it locks.                                               *)
THEOREM ChipsAreKept == Spec => []ChipsKeepToTheirInventory
<1>1. SeasonInvariant => ChipsKeepToTheirInventory
  BY DEF SeasonInvariant, Lawful, Spaced, Granted, InWindow, ChipsKeepToTheirInventory
<1> QED BY <1>1, SeasonInvariantHolds, PTL

(* Nobody ever holds a free transfer that was not earned.                  *)
THEOREM FreeTransfersStayEarned == Spec => []FreeTransfersAreEarned
<1>1. SeasonInvariant => FreeTransfersAreEarned
  BY DEF SeasonInvariant, FreeTransfersAreEarned
<1> QED BY <1>1, SeasonInvariantHolds, PTL

(* No step of a season changes what the manager is worth at the prices at  *)
(* which he made it.                                                       *)
THEOREM ValueIsConserved == Spec => TransfersConserveValue
<1> DEFINE A == Value(plan', prices) = Value(plan, prices)
<1>1. SeasonInvariant /\ [Next]_vars => [A]_vars
  <2> SUFFICES ASSUME SeasonInvariant, Next PROVE A
    OBVIOUS
  <2>1. Typed
    BY DEF SeasonInvariant
  <2>2. CASE UNCHANGED plan
    BY <2>2
  <2>3. CASE EndWildcard
    <3>1. /\ plan'.bank = BankAfter(plan, prices, chip.active)
          /\ plan'.purchase = PurchaseAfter(plan, prices, chip.active)
          /\ chip.active \in LegalSquads
      BY <2>3 DEF EndWildcard, Applied, MayReset, MayApply
    <3> QED BY <3>1, <2>1, ValueKept
  <2>4. ASSUME NEW event \in DOMAIN EventRules, EndFreeHit(event), plan.gameweek < MaxGameweek
        PROVE  A
    <3>1. plan'.bank = plan.bank /\ plan'.purchase = plan.purchase
      BY <2>4, FreeHitEnds
    <3> QED BY <3>1 DEF Value, Proceeds, Squad
  <2>5. ASSUME NEW squad \in LegalSquads, NEW event \in DOMAIN EventRules,
               EndWithTransfers(squad, event)
        PROVE  A
    <3>1. /\ plan'.bank = BankAfter(plan, prices, squad)
          /\ plan'.purchase = PurchaseAfter(plan, prices, squad)
      BY <2>5 DEF EndWithTransfers, Applied
    <3> QED BY <3>1, <2>1, ValueKept
  <2> HIDE DEF A
  <2> QED BY <2>2, <2>3, <2>4, <2>5 DEF Next, PlayChip, ConfirmTransfers, CancelChip,
             FinaliseDeadline, ReplaceSquad, ReplaceByTransfers, EndGameweek, NodeEvents, seen
<1> QED BY <1>1, SeasonInvariantHolds, PTL DEF Spec, TransfersConserveValue

=============================================================================
