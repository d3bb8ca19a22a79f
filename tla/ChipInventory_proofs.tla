------------------------- MODULE ChipInventory_proofs -------------------------
(***************************************************************************)
(* Proofs about ChipInventory, for every compiled bundle and any number of *)
(* tokens and Gameweeks: the uses of chips of one concurrency group never  *)
(* share a Gameweek, the uses of one chip keep its minimum gap, a pending  *)
(* selection is always current, the rights follow their grants, and the    *)
(* histories are in order.                                                 *)
(***************************************************************************)
EXTENDS ChipInventory, FiniteSetTheorems, SequenceTheorems, TLAPS

(* What Legal says of one token of the manager's bundle.                   *)
LEMMA GrantTypes ==
  ASSUME bundle \in Bundles, NEW t \in Tokens
  PROVE  /\ bundle.grant[t] \in Grants
         /\ bundle.grant[t].duration \in Nat \ {0}
         /\ bundle.grant[t].gap \in Nat
         /\ bundle.grant[t].acquired \in Nat \ {0}
         /\ bundle.grant[t].expires \in Nat \ {0}
<1>1. Legal(bundle)
  BY BundlesAssumption
<1>2. bundle.grant[t] \in Grants
  BY <1>1 DEF Legal
<1> QED
  BY <1>2 DEF Grants

(* Two copies of one chip are of one concurrency group and have one gap.   *)
LEMMA SameDefinition ==
  ASSUME bundle \in Bundles, NEW t \in Tokens, NEW u \in Tokens,
         bundle.grant[t].chip = bundle.grant[u].chip
  PROVE  /\ bundle.grant[t].group = bundle.grant[u].group
         /\ bundle.grant[t].gap = bundle.grant[u].gap
BY BundlesAssumption DEF Legal

(* The state of one token, and the events appended to its history, keep    *)
(* their types.                                                            *)
LEMMA EventType ==
  ASSUME NEW kind \in Kinds, NEW gameweek \in Nat \ {0}
  PROVE  Event(kind, gameweek) \in TokenEvents
BY DEF Event, TokenEvents

(* An event appended to a history of the right type leaves one.            *)
LEMMA HistoryType ==
  ASSUME NEW history \in Seq(TokenEvents), NEW kind \in Kinds, NEW gameweek \in Nat \ {0}
  PROVE  Append(history, Event(kind, gameweek)) \in Seq(TokenEvents)
BY EventType

(* The fields of a token's state.                                          *)
LEMMA TokenFields ==
  ASSUME TypeOK, NEW t \in Tokens
  PROVE  /\ token[t] \in TokenStates
         /\ token[t].status \in Statuses
         /\ token[t].selected \in Nat
         /\ token[t].from \in Nat
         /\ token[t].until \in Nat
         /\ token[t].used \in Nat
         /\ token[t].history \in Seq(TokenEvents)
         /\ inventory.gameweek \in Nat \ {0}
         /\ inventory.gameweek \in Gameweeks
<1>1. /\ token[t] \in TokenStates
      /\ inventory.gameweek \in Gameweeks
  BY DEF TypeOK, token
<1>2. inventory.gameweek \in Nat \ {0}
  BY <1>1, BoundsAssumption DEF Gameweeks
<1> QED
  BY <1>1, <1>2 DEF TokenStates

(* A fresh inventory has exercised nothing.                                *)
LEMMA InitExercise == Init => ExerciseInvariant
<1> SUFFICES ASSUME Init PROVE ExerciseInvariant
  OBVIOUS
<1>1. PICK gameweek \in Gameweeks : inventory = Built(bundle, gameweek)
  BY DEF Init
<1>2. bundle \in Bundles
  BY DEF Init
<1>3. /\ inventory.gameweek = gameweek
      /\ token = [t \in Tokens |->
           [ status |-> StatusAt(bundle, t, gameweek), selected |-> None, from |-> None,
             until |-> None, used |-> None, history |-> Granted(bundle, t, gameweek) ]]
      /\ inventory = [gameweek |-> inventory.gameweek, token |-> token]
  BY <1>1 DEF Built, token
<1>4. ASSUME NEW t \in Tokens
      PROVE  /\ StatusAt(bundle, t, gameweek) \in {"EXPIRED", "AVAILABLE", "UNAVAILABLE"}
             /\ Granted(bundle, t, gameweek) \in Seq(TokenEvents)
  <2>1. StatusAt(bundle, t, gameweek) \in {"EXPIRED", "AVAILABLE", "UNAVAILABLE"}
    BY DEF StatusAt
  <2>2. /\ Event("ACQUIRED", bundle.grant[t].acquired) \in TokenEvents
        /\ Event("EXPIRED", bundle.grant[t].expires) \in TokenEvents
    BY <1>2, GrantTypes, EventType DEF Kinds
  <2> QED
    BY <2>1, <2>2 DEF Granted
<1>5. TypeOK
  <2>1. ASSUME NEW t \in Tokens PROVE token[t] \in TokenStates
    BY <1>3, <1>4 DEF TokenStates, Statuses, None
  <2>2. token \in [Tokens -> TokenStates]
    BY <2>1, <1>3
  <2> QED
    BY <2>2, <1>2, <1>3 DEF TypeOK
<1>6. \A t \in Tokens : ~Exercised(t) /\ token[t].status \notin {"ACTIVE", "USED"}
                        /\ token[t].used = None
  BY <1>3, <1>4 DEF Exercised
<1> QED
  BY <1>5, <1>6 DEF ExerciseInvariant, StatusExplained, GroupsNeverOverlap, GapsKept

(* A step that leaves the interval of every token as it is, whatever it    *)
(* does to statuses and histories, keeps groups apart and gaps open.       *)
LEMMA SameIntervals ==
  ASSUME GroupsNeverOverlap, GapsKept, bundle' = bundle,
         \A t \in Tokens : token'[t].from = token[t].from /\ token'[t].until = token[t].until
  PROVE  GroupsNeverOverlap' /\ GapsKept'
BY DEF GroupsNeverOverlap, GapsKept, Exercised

(* Selecting a token exercises nothing.                                    *)
LEMMA SelectKeeps ==
  ASSUME ExerciseInvariant, NEW t \in Tokens, Select(t)
  PROVE  ExerciseInvariant'
<1> DEFINE s == [token[t] EXCEPT !.status = "PENDING_CANCELLABLE",
                                 !.selected = inventory.gameweek,
                                 !.history = Append(@, Event("SELECTED", inventory.gameweek))]
<1>1. TypeOK /\ StatusExplained /\ GroupsNeverOverlap /\ GapsKept
  BY DEF ExerciseInvariant
<1>2. /\ bundle' = bundle
      /\ inventory' = [inventory EXCEPT !.token[t] = s]
      /\ token[t].status = "AVAILABLE"
  BY DEF Select, Selected, Replaced, Selectable, Available, token
<1>3. /\ inventory'.gameweek = inventory.gameweek
      /\ token' = [token EXCEPT ![t] = s]
  BY <1>1, <1>2 DEF TypeOK, token
<1>4. s \in TokenStates
  <2>1. Append(token[t].history, Event("SELECTED", inventory.gameweek)) \in Seq(TokenEvents)
    BY <1>1, TokenFields, HistoryType DEF Kinds
  <2> QED
    BY <1>1, <2>1, TokenFields DEF TokenStates, Statuses
<1>5. TypeOK'
  BY <1>1, <1>2, <1>4 DEF TypeOK
<1>6. /\ s.status = "PENDING_CANCELLABLE" /\ s.from = token[t].from
      /\ s.until = token[t].until /\ s.used = token[t].used
  BY <1>1, TokenFields DEF TokenStates
<1>7. \A u \in Tokens : token'[u] = IF u = t THEN s ELSE token[u]
  BY <1>1, <1>3 DEF TypeOK, token
<1>8. GroupsNeverOverlap' /\ GapsKept'
  <2>1. \A u \in Tokens : token'[u].from = token[u].from /\ token'[u].until = token[u].until
    BY <1>6, <1>7
  <2> QED
    BY <1>1, <1>2, <2>1, SameIntervals
<1>9. StatusExplained'
  BY <1>1, <1>2, <1>3, <1>6, <1>7 DEF StatusExplained, Exercised
<1> QED
  BY <1>5, <1>8, <1>9 DEF ExerciseInvariant

(* Cancelling a selection exercises nothing.                               *)
LEMMA CancelKeeps ==
  ASSUME ExerciseInvariant, NEW t \in Tokens, Cancel(t)
  PROVE  ExerciseInvariant'
<1> DEFINE s == [token[t] EXCEPT !.status = "AVAILABLE",
                                 !.selected = None,
                                 !.history = Append(@, Event("CANCELLED", inventory.gameweek))]
<1>1. TypeOK /\ StatusExplained /\ GroupsNeverOverlap /\ GapsKept
  BY DEF ExerciseInvariant
<1>2. /\ bundle' = bundle
      /\ inventory' = [inventory EXCEPT !.token[t] = s]
      /\ token[t].status = "PENDING_CANCELLABLE"
  BY DEF Cancel, Cancelled, Replaced, Cancellable, token
<1>3. /\ inventory'.gameweek = inventory.gameweek
      /\ token' = [token EXCEPT ![t] = s]
  BY <1>1, <1>2 DEF TypeOK, token
<1>4. s \in TokenStates
  <2>1. Append(token[t].history, Event("CANCELLED", inventory.gameweek)) \in Seq(TokenEvents)
    BY <1>1, TokenFields, HistoryType DEF Kinds
  <2> QED
    BY <1>1, <2>1, TokenFields DEF TokenStates, Statuses, None
<1>5. TypeOK'
  BY <1>1, <1>2, <1>4 DEF TypeOK
<1>6. /\ s.status = "AVAILABLE" /\ s.from = token[t].from
      /\ s.until = token[t].until /\ s.used = token[t].used
  BY <1>1, TokenFields DEF TokenStates
<1>7. \A u \in Tokens : token'[u] = IF u = t THEN s ELSE token[u]
  BY <1>1, <1>3 DEF TypeOK, token
<1>8. GroupsNeverOverlap' /\ GapsKept'
  <2>1. \A u \in Tokens : token'[u].from = token[u].from /\ token'[u].until = token[u].until
    BY <1>6, <1>7
  <2> QED
    BY <1>1, <1>2, <2>1, SameIntervals
<1>9. StatusExplained'
  BY <1>1, <1>2, <1>3, <1>6, <1>7 DEF StatusExplained, Exercised
<1> QED
  BY <1>5, <1>8, <1>9 DEF ExerciseInvariant

(* Activating a token starts a use in the current Gameweek.  A use that is *)
(* over ended before it; one that is not overlaps the new one, so          *)
(* activate_token sees it and refuses its group; and the uses of one chip  *)
(* are of one group, so those that matter to the gap are over and counted. *)
LEMMA ActivateKeeps ==
  ASSUME ExerciseInvariant, NEW t \in Tokens, Activate(t)
  PROVE  ExerciseInvariant'
<1> DEFINE now == inventory.gameweek
           last == LastGameweek(bundle, inventory, t)
           s == [token[t] EXCEPT !.status = "ACTIVE",
                                 !.selected = IF @ = None THEN now ELSE @,
                                 !.from = now,
                                 !.until = last,
                                 !.history = Append(@, Event("ACTIVATED", now))]
<1>1. /\ TypeOK /\ StatusExplained /\ GroupsNeverOverlap /\ GapsKept
      /\ bundle \in Bundles
  BY DEF ExerciseInvariant, TypeOK
<1>2. /\ bundle' = bundle
      /\ inventory' = [inventory EXCEPT !.token[t] = s]
      /\ Activatable(bundle, inventory, t)
  BY DEF Activate, Activated, Replaced, token
<1>3. token[t].status \notin {"ACTIVE", "USED"}
  BY <1>2 DEF Activatable, Exercisable, Available, token
<1>4. /\ inventory'.gameweek = now
      /\ token' = [token EXCEPT ![t] = s]
  BY <1>1, <1>2 DEF TypeOK, token
<1>5. /\ now \in Nat \ {0} /\ now \in Gameweeks
      /\ last \in Nat /\ last = now + bundle.grant[t].duration - 1 /\ now <= last
  BY <1>1, TokenFields, GrantTypes DEF LastGameweek
<1>6. s \in TokenStates
  <2>1. Append(token[t].history, Event("ACTIVATED", now)) \in Seq(TokenEvents)
    BY <1>1, TokenFields, HistoryType DEF Kinds
  <2> QED
    BY <1>1, <1>5, <2>1, TokenFields DEF TokenStates, Statuses, None
<1>7. TypeOK'
  BY <1>1, <1>2, <1>6 DEF TypeOK
<1>8. s.status = "ACTIVE" /\ s.from = now /\ s.until = last /\ s.used = token[t].used
  BY <1>1, TokenFields DEF TokenStates
<1>9. \A u \in Tokens : token'[u] = IF u = t THEN s ELSE token[u]
  BY <1>1, <1>4 DEF TypeOK, token
<1> HIDE DEF s, last
<1>10. StatusExplained'
  <2> SUFFICES ASSUME NEW u \in Tokens
               PROVE  /\ token'[u].status \in {"ACTIVE", "USED"} <=> Exercised(u)'
                      /\ Exercised(u)' => token'[u].until = token'[u].from + bundle'.grant[u].duration - 1
                      /\ token'[u].status = "ACTIVE" =>
                           token'[u].from <= inventory'.gameweek /\ inventory'.gameweek <= token'[u].until
                      /\ token'[u].used = IF token'[u].status = "USED" THEN token'[u].until ELSE None
                      /\ token'[u].status = "USED" => token'[u].until < inventory'.gameweek
    BY DEF StatusExplained
  <2>1. CASE u = t
    <3>1. token[t].used = None
      BY <1>1, <1>3 DEF StatusExplained
    <3> QED
      BY <2>1, <3>1, <1>2, <1>4, <1>5, <1>8, <1>9 DEF Exercised, None
  <2>2. CASE u # t
    BY <2>2, <1>1, <1>2, <1>4, <1>9 DEF StatusExplained, Exercised
  <2> QED
    BY <2>1, <2>2
<1>11. ASSUME NEW u \in Tokens, u # t, Exercised(u)
       PROVE  /\ token[u].from \in Nat /\ token[u].until \in Nat
              /\ token[u].from <= now
              /\ \/ token[u].status = "USED" /\ token[u].used = token[u].until
                    /\ token[u].until < now
                 \/ bundle.grant[u].group # bundle.grant[t].group
  <2>1. /\ token[u].from \in Nat /\ token[u].until \in Nat
        /\ bundle.grant[u].duration \in Nat \ {0}
    BY <1>1, TokenFields, GrantTypes
  <2>2. token[u].status \in {"ACTIVE", "USED"}
    BY <1>1, <1>11 DEF StatusExplained
  <2>3. CASE token[u].status = "USED"
    BY <2>1, <2>3, <1>1, <1>5, <1>11 DEF StatusExplained
  <2>4. CASE token[u].status = "ACTIVE"
    <3>1. token[u].from <= now /\ now <= token[u].until
      BY <2>4, <1>1 DEF StatusExplained
    <3>2. token[u].from <= last
      BY <3>1, <2>1, <1>5
    <3>3. u \in Overlaps(bundle, inventory, t)
      BY <2>4, <3>1, <3>2 DEF Overlaps, Having, token, last
    <3> QED
      BY <2>1, <3>1, <3>3, <1>2 DEF Activatable
  <2> QED
    BY <2>2, <2>3, <2>4
<1>12. \A u \in Tokens : u # t => /\ token'[u] = token[u]
                                  /\ (Exercised(u)' <=> Exercised(u))
  BY <1>9 DEF Exercised
<1>13. token'[t].from = now /\ token'[t].until = last
  BY <1>8, <1>9
<1>14. GroupsNeverOverlap'
  <2> SUFFICES ASSUME NEW v \in Tokens, NEW u \in Tokens, v # u,
                      bundle.grant[v].group = bundle.grant[u].group,
                      Exercised(v)', Exercised(u)'
               PROVE  token'[v].until < token'[u].from \/ token'[u].until < token'[v].from
    BY <1>2 DEF GroupsNeverOverlap
  <2>1. CASE v = t
    BY <2>1, <1>11, <1>12, <1>13
  <2>2. CASE u = t
    BY <2>2, <1>11, <1>12, <1>13
  <2>3. CASE v # t /\ u # t
    BY <2>3, <1>1, <1>12 DEF GroupsNeverOverlap
  <2> QED
    BY <2>1, <2>2, <2>3
<1>15. GapsKept'
  <2> SUFFICES ASSUME NEW v \in Tokens, NEW u \in Tokens,
                      bundle.grant[v].chip = bundle.grant[u].chip,
                      Exercised(v)', Exercised(u)', token'[v].from < token'[u].from
               PROVE  token'[u].from - token'[v].until > bundle.grant[u].gap
    BY <1>2 DEF GapsKept
  <2>1. v # u
    <3>1. v = u => token'[u].from < token'[u].from
      OBVIOUS
    <3>2. token'[u].from \in Nat
      BY <1>5, <1>11, <1>12, <1>13
    <3> QED
      BY <3>1, <3>2
  <2>2. CASE u = t
    <3>1. token[v].status = "USED" /\ token[v].used = token[v].until
      BY <2>1, <2>2, <1>1, <1>11, <1>12, SameDefinition
    <3>2. token[v].used # None
      <4>1. token[v].until = token[v].from + bundle.grant[v].duration - 1
        BY <2>1, <2>2, <1>1, <1>12 DEF StatusExplained
      <4>2. token[v].from # None /\ token[v].from \in Nat /\ bundle.grant[v].duration \in Nat \ {0}
        BY <2>1, <2>2, <1>1, <1>12, TokenFields, GrantTypes DEF Exercised
      <4> QED
        BY <3>1, <4>1, <4>2 DEF None
    <3>3. now - token[v].used > bundle.grant[t].gap
      BY <3>2, <2>2, <1>2 DEF Activatable, RespectsGap, token
    <3> QED
      BY <3>1, <3>3, <2>1, <2>2, <1>12, <1>13
  <2>3. CASE v = t
    <3>1. token'[u].from \in Nat /\ token'[u].from <= now
      BY <2>1, <2>3, <1>11, <1>12
    <3> QED
      BY <3>1, <2>3, <1>5, <1>13
  <2>4. CASE v # t /\ u # t
    BY <2>4, <1>1, <1>12 DEF GapsKept
  <2> QED
    BY <2>2, <2>3, <2>4
<1> QED
  BY <1>7, <1>10, <1>14, <1>15 DEF ExerciseInvariant

(* What advance_inventory does to one token: it is still of its type, its  *)
(* interval stays, and the status still explains it.                       *)
LEMMA AdvancedTokenFacts ==
  ASSUME ExerciseInvariant, NEW t \in Tokens, NEW gameweek \in Gameweeks,
         gameweek > inventory.gameweek
  PROVE  LET s == AdvancedToken(bundle, inventory, t, gameweek) IN
           /\ s \in TokenStates
           /\ s.from = token[t].from
           /\ s.until = token[t].until
           /\ s.status \in {"ACTIVE", "USED"} <=> Exercised(t)
           /\ s.status = "ACTIVE" => s.from <= gameweek /\ gameweek <= s.until
           /\ s.used = IF s.status = "USED" THEN s.until ELSE None
           /\ s.status = "USED" => s.until < gameweek
<1> DEFINE d == Deselected(token[t], inventory.gameweek)
           s == AdvancedToken(bundle, inventory, t, gameweek)
<1>1. TypeOK /\ StatusExplained /\ bundle \in Bundles /\ gameweek \in Nat \ {0}
  BY BoundsAssumption DEF ExerciseInvariant, TypeOK, Gameweeks
<1>2. /\ token[t] \in TokenStates
      /\ inventory.gameweek \in Nat \ {0}
      /\ token[t].from \in Nat /\ token[t].until \in Nat /\ token[t].used \in Nat
      /\ token[t].history \in Seq(TokenEvents)
  BY <1>1, TokenFields
<1>3. /\ d \in TokenStates
      /\ d.from = token[t].from /\ d.until = token[t].until /\ d.used = token[t].used
      /\ d.status = IF token[t].status = "PENDING_CANCELLABLE" THEN "AVAILABLE" ELSE token[t].status
      /\ d.history \in Seq(TokenEvents)
  <2>1. Append(token[t].history, Event("CANCELLED", inventory.gameweek)) \in Seq(TokenEvents)
    BY <1>2, HistoryType DEF Kinds
  <2> QED
    BY <1>2, <2>1 DEF Deselected, TokenStates, Statuses, None
<1>4. /\ d.status \in {"ACTIVE", "USED"} <=> Exercised(t)
      /\ Exercised(t) => d.until = d.from + bundle.grant[t].duration - 1
      /\ d.status = "ACTIVE" => d.from <= inventory.gameweek /\ inventory.gameweek <= d.until
      /\ d.used = IF d.status = "USED" THEN d.until ELSE None
      /\ d.status = "USED" => d.until < inventory.gameweek
  BY <1>1, <1>3 DEF StatusExplained
<1>5. s = CASE d.status = "ACTIVE" -> IF gameweek > d.until THEN Completed(d, gameweek) ELSE d
            [] d.status \in {"USED", "EXPIRED"} -> d
            [] OTHER -> Aged(bundle, t, d, gameweek)
  BY DEF AdvancedToken, token
<1> HIDE DEF d, s
<1>6. /\ s \in TokenStates
      /\ s.from = d.from /\ s.until = d.until
      /\ s.status \in {"ACTIVE", "USED"} <=> Exercised(t)
      /\ s.status = "ACTIVE" => s.from <= gameweek /\ gameweek <= s.until
      /\ s.used = IF s.status = "USED" THEN s.until ELSE None
      /\ s.status = "USED" => s.until < gameweek
  <2>0. d.from \in Nat /\ d.until \in Nat /\ d.used \in Nat
    BY <1>2, <1>3
  <2>1. CASE d.status = "ACTIVE" /\ gameweek > d.until
    <3>1. s = Completed(d, gameweek)
      BY <2>1, <1>5
    <3>2. d.until \in Nat \ {0}
      BY <2>0, <2>1, <1>2, <1>4
    <3>3. Append(d.history, Event("COMPLETED", d.until)) \in Seq(TokenEvents)
      BY <1>3, <3>2, HistoryType DEF Kinds
    <3> QED
      BY <1>3, <1>4, <2>0, <2>1, <3>1, <3>3 DEF Completed, TokenStates, Statuses
  <2>2. CASE d.status = "ACTIVE" /\ ~(gameweek > d.until)
    <3>1. s = d
      BY <2>2, <1>5
    <3> QED
      BY <1>1, <1>2, <1>3, <1>4, <2>0, <2>2, <3>1
  <2>3. CASE d.status \in {"USED", "EXPIRED"}
    <3>1. s = d
      BY <2>3, <1>5
    <3> QED
      BY <1>1, <1>2, <1>3, <1>4, <2>0, <2>3, <3>1
  <2>4. CASE d.status \notin {"ACTIVE", "USED", "EXPIRED"}
    <3>1. s = Aged(bundle, t, d, gameweek)
      BY <2>4, <1>5
    <3>2. StatusAt(bundle, t, gameweek) \in {"EXPIRED", "AVAILABLE", "UNAVAILABLE"}
      BY DEF StatusAt
    <3>3. /\ Event("ACQUIRED", bundle.grant[t].acquired) \in TokenEvents
          /\ Event("EXPIRED", bundle.grant[t].expires) \in TokenEvents
      BY <1>1, GrantTypes, EventType DEF Kinds
    <3>4. s.history \in Seq(TokenEvents)
      BY <1>3, <3>1, <3>3 DEF Aged, TokenStates
    <3>5. /\ s = [d EXCEPT !.status = StatusAt(bundle, t, gameweek), !.history = s.history]
      BY <1>3, <3>1 DEF Aged, TokenStates
    <3> QED
      BY <1>3, <1>4, <2>4, <3>2, <3>4, <3>5 DEF TokenStates, Statuses
  <2> QED
    BY <2>1, <2>2, <2>3, <2>4
<1> QED
  BY <1>3, <1>6 DEF s

(* Time passes: uses end, and no interval changes.                         *)
LEMMA AdvanceKeeps ==
  ASSUME ExerciseInvariant, NEW gameweek \in Gameweeks, Advance(gameweek)
  PROVE  ExerciseInvariant'
<1>1. /\ TypeOK /\ StatusExplained /\ GroupsNeverOverlap /\ GapsKept
      /\ gameweek > inventory.gameweek
      /\ bundle' = bundle
  BY DEF ExerciseInvariant, Advance
<1>2. gameweek # inventory.gameweek
  BY <1>1, TokenFields, BoundsAssumption DEF Gameweeks, TypeOK
<1>3. /\ inventory' = [gameweek |-> gameweek, token |-> token']
      /\ token' = [t \in Tokens |-> AdvancedToken(bundle, inventory, t, gameweek)]
  BY <1>2 DEF Advance, Advanced, token
<1>4. ASSUME NEW t \in Tokens
      PROVE  /\ token'[t] \in TokenStates
             /\ token'[t].from = token[t].from
             /\ token'[t].until = token[t].until
             /\ token'[t].status \in {"ACTIVE", "USED"} <=> Exercised(t)
             /\ token'[t].status = "ACTIVE" =>
                  token'[t].from <= gameweek /\ gameweek <= token'[t].until
             /\ token'[t].used = IF token'[t].status = "USED" THEN token'[t].until ELSE None
             /\ token'[t].status = "USED" => token'[t].until < gameweek
  BY <1>1, <1>3, AdvancedTokenFacts
<1>5. TypeOK'
  BY <1>1, <1>3, <1>4 DEF TypeOK
<1>6. GroupsNeverOverlap' /\ GapsKept'
  BY <1>1, <1>4, SameIntervals
<1>7. StatusExplained'
  <2>1. \A t \in Tokens : Exercised(t)' <=> Exercised(t)
    BY <1>4 DEF Exercised
  <2>2. inventory'.gameweek = gameweek
    BY <1>3
  <2> QED
    BY <1>1, <1>4, <2>1, <2>2 DEF StatusExplained
<1> QED
  BY <1>5, <1>6, <1>7 DEF ExerciseInvariant

(* However a manager selects, cancels and activates chips and lets time    *)
(* pass, the exercise invariant holds: it is inductive.                    *)
THEOREM ExerciseHolds == Spec => []ExerciseInvariant
<1>1. Init => ExerciseInvariant
  BY InitExercise
<1>2. ExerciseInvariant /\ [Next]_vars => ExerciseInvariant'
  <2> SUFFICES ASSUME ExerciseInvariant, [Next]_vars PROVE ExerciseInvariant'
    OBVIOUS
  <2>1. ASSUME NEW t \in Tokens, Select(t) PROVE ExerciseInvariant'
    BY <2>1, SelectKeeps
  <2>2. ASSUME NEW t \in Tokens, Cancel(t) PROVE ExerciseInvariant'
    BY <2>2, CancelKeeps
  <2>3. ASSUME NEW t \in Tokens, Activate(t) PROVE ExerciseInvariant'
    BY <2>3, ActivateKeeps
  <2>4. ASSUME NEW gameweek \in Gameweeks, Advance(gameweek) PROVE ExerciseInvariant'
    BY <2>4, AdvanceKeeps
  <2>5. CASE UNCHANGED vars
    BY <2>5 DEF vars, ExerciseInvariant, TypeOK, StatusExplained, GroupsNeverOverlap, GapsKept,
                Exercised, token
  <2> QED
    BY <2>1, <2>2, <2>3, <2>4, <2>5 DEF Next
<1> QED
  BY <1>1, <1>2, PTL DEF Spec

(* Uses of chips of one concurrency group never share a Gameweek, although *)
(* activate_token compares a new use only with those that are still active.*)
THEOREM GroupsStayApart == Spec => []GroupsNeverOverlap
BY ExerciseHolds, PTL DEF ExerciseInvariant

(* The uses of one chip keep its minimum gap, over all its copies and      *)
(* grants.                                                                 *)
THEOREM GapsStayOpen == Spec => []GapsKept
BY ExerciseHolds, PTL DEF ExerciseInvariant

(* A token in force in Gameweek g after activate_token was so before, or g *)
(* is in the new interval and the token is the new one or overlaps it.     *)
LEMMA InForceAfterActivate ==
  ASSUME ExerciseInvariant, NEW t \in Tokens, Activate(t), NEW g \in Gameweeks
  PROVE  InForce(g)' \subseteq InForce(g) \/ InForce(g)' \subseteq Overlaps(bundle, inventory, t) \cup {t}
<1> DEFINE now == inventory.gameweek
           last == LastGameweek(bundle, inventory, t)
<1>1. TypeOK /\ StatusExplained /\ bundle \in Bundles /\ g \in Nat
  BY BoundsAssumption DEF ExerciseInvariant, TypeOK, Gameweeks
<1>2. /\ now \in Nat /\ last \in Nat
      /\ \A u \in Tokens : token[u].from \in Nat /\ token[u].until \in Nat
  BY <1>1, TokenFields, GrantTypes DEF LastGameweek
<1>3. /\ token'[t].from = now /\ token'[t].until = last
      /\ \A u \in Tokens : u # t => token'[u] = token[u]
  BY <1>1, TokenFields DEF Activate, Activated, Replaced, TypeOK, token, TokenStates
<1> HIDE DEF now, last
<1>4. CASE now <= g /\ g <= last
  <2> SUFFICES ASSUME NEW u \in Tokens, u # t, Exercised(u), token[u].from <= g, g <= token[u].until
               PROVE  u \in Overlaps(bundle, inventory, t)
    BY <1>3 DEF InForce, Exercised
  <2>1. now <= token[u].until /\ token[u].from <= last
    BY <1>1, <1>2, <1>4
  <2>2. token[u].status = "ACTIVE"
    BY <1>1, <1>2, <2>1 DEF StatusExplained, now
  <2> QED
    BY <2>1, <2>2 DEF Overlaps, Having, token, now, last
<1>5. CASE ~(now <= g /\ g <= last)
  <2>1. t \notin InForce(g)'
    BY <1>3, <1>5 DEF InForce
  <2> QED
    BY <1>3, <2>1 DEF InForce, Exercised
<1> QED
  BY <1>4, <1>5

(* The concurrency limit holds of every Gameweek: a use that began earlier *)
(* and still runs is active, so activate_token counts it.                  *)
THEOREM LimitHolds == Spec => []OccupancyWithinLimit
<1>1. ASSUME NEW g \in Gameweeks PROVE IsFiniteSet(InForce(g))
  BY BoundsAssumption, FS_Subset DEF InForce
<1>2. Init => OccupancyWithinLimit
  <2> SUFFICES ASSUME Init, NEW g \in Gameweeks PROVE Cardinality(InForce(g)) <= bundle.limit
    BY DEF OccupancyWithinLimit
  <2>1. InForce(g) = {}
    BY DEF Init, Built, InForce, Exercised, token
  <2>2. bundle.limit \in Nat \ {0}
    BY BundlesAssumption DEF Init, Legal
  <2> QED
    BY <2>1, <2>2, FS_EmptySet
<1>3. ExerciseInvariant /\ OccupancyWithinLimit /\ [Next]_vars => OccupancyWithinLimit'
  <2> SUFFICES ASSUME ExerciseInvariant, OccupancyWithinLimit, [Next]_vars, NEW g \in Gameweeks
               PROVE  Cardinality(InForce(g)') <= bundle'.limit
    BY DEF OccupancyWithinLimit, InForce
  <2>0. /\ bundle \in Bundles /\ bundle.limit \in Nat \ {0}
        /\ Cardinality(InForce(g)) <= bundle.limit
        /\ Cardinality(InForce(g)) \in Nat
    BY <1>1, BundlesAssumption, FS_CardinalityType
    DEF ExerciseInvariant, TypeOK, Legal, OccupancyWithinLimit
  <2>1. ASSUME NEW t \in Tokens, Activate(t) PROVE Cardinality(InForce(g)') <= bundle'.limit
    <3>1. bundle' = bundle
      BY <2>1 DEF Activate
    <3>2. CASE InForce(g)' \subseteq InForce(g)
      <4>1. Cardinality(InForce(g)') <= Cardinality(InForce(g)) /\ Cardinality(InForce(g)') \in Nat
        BY <3>2, <1>1, FS_Subset, FS_CardinalityType
      <4> QED
        BY <2>0, <3>1, <4>1
    <3>3. CASE InForce(g)' \subseteq Overlaps(bundle, inventory, t) \cup {t}
      <4> DEFINE O == Overlaps(bundle, inventory, t)
      <4>1. IsFiniteSet(O)
        BY BoundsAssumption, FS_Subset DEF Overlaps, Having
      <4>2. Cardinality(O) < bundle.limit
        BY <2>1 DEF Activate, Activatable
      <4> HIDE DEF O
      <4>3. /\ IsFiniteSet(O \cup {t})
            /\ Cardinality(O \cup {t}) <= Cardinality(O) + 1
            /\ Cardinality(O) \in Nat
        <5>1. /\ IsFiniteSet(O \cup {t})
              /\ Cardinality(O \cup {t}) =
                   IF t \in O THEN Cardinality(O) ELSE Cardinality(O) + 1
          BY <4>1, FS_AddElement
        <5>2. Cardinality(O) \in Nat
          BY <4>1, FS_CardinalityType
        <5> QED
          BY <5>1, <5>2
      <4>4. Cardinality(InForce(g)') <= Cardinality(O \cup {t})
            /\ Cardinality(InForce(g)') \in Nat /\ Cardinality(O \cup {t}) \in Nat
        BY <3>3, <4>3, FS_Subset, FS_CardinalityType DEF O
      <4> QED
        BY <2>0, <3>1, <4>2, <4>3, <4>4
    <3> QED
      BY <2>1, <3>2, <3>3, InForceAfterActivate
  <2>2. ASSUME bundle' = bundle,
               \A t \in Tokens : token'[t].from = token[t].from /\ token'[t].until = token[t].until
        PROVE  Cardinality(InForce(g)') <= bundle'.limit
    <3>1. InForce(g)' = InForce(g)
      BY <2>2 DEF InForce, Exercised
    <3> QED
      BY <2>0, <2>2, <3>1
  <2>3. ASSUME NEW t \in Tokens, Select(t) \/ Cancel(t)
        PROVE  Cardinality(InForce(g)') <= bundle'.limit
    <3>1. PICK status, selected, history :
            inventory' = [inventory EXCEPT !.token[t] =
              [@ EXCEPT !.status = status, !.selected = selected, !.history = history]]
      BY <2>3 DEF Select, Selected, Cancel, Cancelled, Replaced
    <3>2. \A u \in Tokens : token'[u].from = token[u].from /\ token'[u].until = token[u].until
      BY <3>1 DEF ExerciseInvariant, TypeOK, token, TokenStates
    <3> QED
      BY <2>2, <2>3, <3>2 DEF Select, Cancel
  <2>4. ASSUME NEW gameweek \in Gameweeks, Advance(gameweek)
        PROVE  Cardinality(InForce(g)') <= bundle'.limit
    <3>1. /\ gameweek > inventory.gameweek /\ gameweek # inventory.gameweek
      BY <2>4, TokenFields, BoundsAssumption DEF Advance, Gameweeks, ExerciseInvariant, TypeOK
    <3>2. \A u \in Tokens : token'[u] = AdvancedToken(bundle, inventory, u, gameweek)
      BY <2>4, <3>1 DEF Advance, Advanced, token
    <3>3. \A u \in Tokens : token'[u].from = token[u].from /\ token'[u].until = token[u].until
      BY <3>1, <3>2, AdvancedTokenFacts
    <3> QED
      BY <2>2, <2>4, <3>3 DEF Advance
  <2>5. CASE UNCHANGED vars
    BY <2>2, <2>5 DEF vars, token
  <2> QED
    BY <2>1, <2>3, <2>4, <2>5 DEF Next
<1> QED
  BY <1>2, <1>3, ExerciseHolds, PTL DEF Spec

-----------------------------------------------------------------------------
(* Rights that are not exercised, and the selection that may be pending.   *)

(* InventoryGrant orders the Gameweeks of a grant.                         *)
LEMMA GrantOrder ==
  ASSUME bundle \in Bundles, NEW t \in Tokens
  PROVE  LET g == bundle.grant[t] IN
           /\ g.acquired \in Nat /\ g.start \in Nat /\ g.end \in Nat /\ g.expires \in Nat
           /\ g.acquired <= g.start /\ g.start <= g.end /\ g.end <= g.expires
<1>1. Legal(bundle) /\ bundle.grant[t] \in Grants
  BY BundlesAssumption, GrantTypes
<1> QED
  BY <1>1 DEF Legal, Grants

Tells(history, kind) == \E i \in DOMAIN history : history[i].event = kind

(* What a longer history tells.                                            *)
LEMMA ConcatTells ==
  ASSUME NEW h \in Seq(TokenEvents), NEW g \in Seq(TokenEvents), NEW kind
  PROVE  Tells(h \o g, kind) <=> Tells(h, kind) \/ Tells(g, kind)
<1>1. /\ h \o g \in Seq(TokenEvents) /\ Len(h \o g) = Len(h) + Len(g)
      /\ \A i \in 1..(Len(h) + Len(g)) : (h \o g)[i] = IF i <= Len(h) THEN h[i] ELSE g[i - Len(h)]
  BY ConcatProperties
<1>2. /\ DOMAIN h = 1..Len(h) /\ DOMAIN g = 1..Len(g) /\ DOMAIN (h \o g) = 1..Len(h \o g)
      /\ Len(h) \in Nat /\ Len(g) \in Nat
  BY <1>1, LenProperties
<1>3. ASSUME NEW i \in 1..Len(h), h[i].event = kind PROVE Tells(h \o g, kind)
  <2>1. i \in DOMAIN (h \o g) /\ (h \o g)[i] = h[i]
    BY <1>1, <1>2
  <2> QED
    BY <1>3, <2>1 DEF Tells
<1>4. ASSUME NEW i \in 1..Len(g), g[i].event = kind PROVE Tells(h \o g, kind)
  <2>1. Len(h) + i \in 1..(Len(h) + Len(g)) /\ ~(Len(h) + i <= Len(h)) /\ Len(h) + i - Len(h) = i
    BY <1>2
  <2>2. Len(h) + i \in DOMAIN (h \o g) /\ (h \o g)[Len(h) + i] = g[i]
    BY <1>1, <1>2, <2>1
  <2> QED
    BY <1>4, <2>2 DEF Tells
<1>5. ASSUME NEW i \in 1..(Len(h) + Len(g)), (h \o g)[i].event = kind
      PROVE  Tells(h, kind) \/ Tells(g, kind)
  <2>1. CASE i <= Len(h)
    <3>1. i \in DOMAIN h /\ (h \o g)[i] = h[i]
      BY <1>1, <1>2, <2>1
    <3> QED
      BY <1>5, <3>1 DEF Tells
  <2>2. CASE ~(i <= Len(h))
    <3>1. i - Len(h) \in DOMAIN g /\ (h \o g)[i] = g[i - Len(h)]
      BY <1>1, <1>2, <2>2
    <3> QED
      BY <1>5, <3>1 DEF Tells
  <2> QED
    BY <2>1, <2>2
<1> QED
  BY <1>1, <1>2, <1>3, <1>4, <1>5 DEF Tells

(* An event of another kind adds nothing to what a history tells of one.   *)
LEMMA AppendTells ==
  ASSUME NEW h \in Seq(TokenEvents), NEW e \in TokenEvents, NEW kind
  PROVE  Tells(Append(h, e), kind) <=> Tells(h, kind) \/ e.event = kind
<1>1. Append(h, e) = h \o <<e>> /\ <<e>> \in Seq(TokenEvents)
  OBVIOUS
<1>2. Tells(<<e>>, kind) <=> e.event = kind
  BY DEF Tells
<1>3. Tells(h \o <<e>>, kind) <=> Tells(h, kind) \/ Tells(<<e>>, kind)
  <2> DEFINE single == <<e>>
  <2>1. single \in Seq(TokenEvents)
    BY <1>1
  <2> HIDE DEF single
  <2>2. Tells(h \o single, kind) <=> Tells(h, kind) \/ Tells(single, kind)
    BY <2>1, ConcatTells
  <2> QED
    BY <2>2 DEF single
<1> QED
  BY <1>1, <1>2, <1>3, Zenon

Pending == Having(inventory, "PENDING_CANCELLABLE")

RightsInvariant == ExerciseInvariant /\ PendingIsCurrent /\ RightsFollowTheirGrant

(* A step that changes one token, to one that is exercised or whose right  *)
(* is as usable as before, leaves the rights of all as they are granted.   *)
LEMMA RightsOfOthers ==
  ASSUME RightsFollowTheirGrant, bundle' = bundle, inventory'.gameweek = inventory.gameweek,
         NEW t \in Tokens, NEW s,
         \A u \in Tokens : token'[u] = IF u = t THEN s ELSE token[u],
         \/ s.from # None
         \/ /\ s.from = token[t].from
            /\ {s.status, token[t].status} \subseteq {"AVAILABLE", "PENDING_CANCELLABLE"}
            /\ Tells(s.history, "ACQUIRED") <=> Tells(token[t].history, "ACQUIRED")
  PROVE  RightsFollowTheirGrant'
<1> SUFFICES ASSUME NEW u \in Tokens, ~Exercised(u)'
             PROVE  /\ InWindow(bundle, u, inventory.gameweek)
                         <=> token'[u].status \in {"AVAILABLE", "PENDING_CANCELLABLE"}
                    /\ inventory.gameweek > bundle.grant[u].expires <=> token'[u].status = "EXPIRED"
                    /\ inventory.gameweek >= bundle.grant[u].acquired
                         <=> Tells(token'[u].history, "ACQUIRED")
  BY DEF RightsFollowTheirGrant, InWindow, Recorded, Tells
<1>1. ~Exercised(u)
  BY DEF Exercised
<1>2. /\ InWindow(bundle, u, inventory.gameweek)
           <=> token[u].status \in {"AVAILABLE", "PENDING_CANCELLABLE"}
      /\ inventory.gameweek > bundle.grant[u].expires <=> token[u].status = "EXPIRED"
      /\ inventory.gameweek >= bundle.grant[u].acquired <=> Tells(token[u].history, "ACQUIRED")
  BY <1>1 DEF RightsFollowTheirGrant, Recorded, Tells
<1>3. CASE u # t
  BY <1>2, <1>3
<1>4. CASE u = t
  BY <1>2, <1>4 DEF Exercised
<1> QED
  BY <1>3, <1>4

(* What a token that may be selected, cancelled or activated looks like.   *)
LEMMA UsableFacts ==
  ASSUME RightsInvariant, NEW t \in Tokens,
         token[t].status \in {"AVAILABLE", "PENDING_CANCELLABLE"}
  PROVE  /\ token[t].from = None
         /\ token[t].status = "AVAILABLE" => token[t].selected = None
         /\ token[t].status = "PENDING_CANCELLABLE" =>
              Pending = {t} /\ token[t].selected = inventory.gameweek
<1>1. token[t].from = None
  BY DEF RightsInvariant, ExerciseInvariant, StatusExplained, Exercised
<1>2. token[t].status = "PENDING_CANCELLABLE" => t \in Pending
  BY DEF Pending, Having, token
<1>3. token[t].status = "AVAILABLE" => t \in Tokens \ Pending
  BY DEF Pending, Having, token
<1> QED
  BY <1>1, <1>2, <1>3 DEF RightsInvariant, PendingIsCurrent, Pending

(* A selection is the only one, in its window and of its Gameweek. *)
LEMMA SelectKeepsRights ==
  ASSUME RightsInvariant, NEW t \in Tokens, Select(t)
  PROVE  PendingIsCurrent' /\ RightsFollowTheirGrant'
<1> DEFINE s == [token[t] EXCEPT !.status = "PENDING_CANCELLABLE",
                                 !.selected = inventory.gameweek,
                                 !.history = Append(@, Event("SELECTED", inventory.gameweek))]
<1>1. TypeOK /\ PendingIsCurrent /\ RightsFollowTheirGrant
  BY DEF RightsInvariant, ExerciseInvariant
<1>2. /\ bundle' = bundle
      /\ inventory' = [inventory EXCEPT !.token[t] = s]
      /\ token[t].status = "AVAILABLE" /\ InWindow(bundle, t, inventory.gameweek)
      /\ Pending = {}
  BY DEF Select, Selected, Replaced, Selectable, Available, token, Pending
<1>3. /\ inventory'.gameweek = inventory.gameweek
      /\ \A u \in Tokens : token'[u] = IF u = t THEN s ELSE token[u]
  BY <1>1, <1>2 DEF TypeOK, token
<1>4. /\ s.status = "PENDING_CANCELLABLE" /\ s.from = token[t].from
      /\ s.selected = inventory.gameweek
      /\ s.history = Append(token[t].history, Event("SELECTED", inventory.gameweek))
  BY <1>1, TokenFields DEF TokenStates
<1>5. Tells(s.history, "ACQUIRED") <=> Tells(token[t].history, "ACQUIRED")
  <2>1. Event("SELECTED", inventory.gameweek) \in TokenEvents
        /\ Event("SELECTED", inventory.gameweek).event # "ACQUIRED"
    BY <1>1, TokenFields, EventType DEF Kinds, Event
  <2> QED
    BY <1>1, <1>4, <2>1, TokenFields, AppendTells
<1> HIDE DEF s
<1>6. Having(inventory', "PENDING_CANCELLABLE") = {t}
  BY <1>2, <1>3, <1>4 DEF Having, Pending, token
<1>7. PendingIsCurrent'
  <2>1. \A u \in Tokens \ {t} : token'[u].selected = token'[u].from
    BY <1>1, <1>2, <1>3 DEF PendingIsCurrent, Pending
  <2> QED
    BY <1>2, <1>3, <1>4, <1>6, <2>1 DEF PendingIsCurrent, InWindow
<1> QED
  BY <1>1, <1>2, <1>3, <1>4, <1>5, <1>7, RightsOfOthers

(* A cancelled token is available again, inside its window. *)
LEMMA CancelKeepsRights ==
  ASSUME RightsInvariant, NEW t \in Tokens, Cancel(t)
  PROVE  PendingIsCurrent' /\ RightsFollowTheirGrant'
<1> DEFINE s == [token[t] EXCEPT !.status = "AVAILABLE", !.selected = None,
                                 !.history = Append(@, Event("CANCELLED", inventory.gameweek))]
<1>1. TypeOK /\ PendingIsCurrent /\ RightsFollowTheirGrant
  BY DEF RightsInvariant, ExerciseInvariant
<1>2. /\ bundle' = bundle
      /\ inventory' = [inventory EXCEPT !.token[t] = s]
      /\ token[t].status = "PENDING_CANCELLABLE"
  BY DEF Cancel, Cancelled, Cancellable, Replaced, token
<1>3. /\ inventory'.gameweek = inventory.gameweek
      /\ \A u \in Tokens : token'[u] = IF u = t THEN s ELSE token[u]
  BY <1>1, <1>2 DEF TypeOK, token
<1>4. /\ s.status = "AVAILABLE" /\ s.from = token[t].from /\ s.selected = None
      /\ s.history = Append(token[t].history, Event("CANCELLED", inventory.gameweek))
  BY <1>1, TokenFields DEF TokenStates
<1>5. Tells(s.history, "ACQUIRED") <=> Tells(token[t].history, "ACQUIRED")
  <2>1. Event("CANCELLED", inventory.gameweek) \in TokenEvents
        /\ Event("CANCELLED", inventory.gameweek).event # "ACQUIRED"
    BY <1>1, TokenFields, EventType DEF Kinds, Event
  <2> QED
    BY <1>1, <1>4, <2>1, TokenFields, AppendTells
<1>6. Pending = {t} /\ token[t].from = None
  BY <1>2, UsableFacts
<1> HIDE DEF s
<1>7. Having(inventory', "PENDING_CANCELLABLE") = {}
  BY <1>3, <1>4, <1>6 DEF Having, Pending, token
<1>8. PendingIsCurrent'
  <2>1. \A u \in Tokens \ {t} : token'[u].selected = token'[u].from
    BY <1>1, <1>3, <1>6 DEF PendingIsCurrent, Pending
  <2> QED
    BY <1>3, <1>4, <1>6, <1>7, <2>1 DEF PendingIsCurrent
<1> QED
  BY <1>1, <1>2, <1>3, <1>4, <1>5, <1>8, RightsOfOthers

(* An activation uses up the one selection and records its Gameweek. *)
LEMMA ActivateKeepsRights ==
  ASSUME RightsInvariant, NEW t \in Tokens, Activate(t)
  PROVE  PendingIsCurrent' /\ RightsFollowTheirGrant'
<1> DEFINE now == inventory.gameweek
           s == [token[t] EXCEPT !.status = "ACTIVE",
                                 !.selected = IF @ = None THEN now ELSE @,
                                 !.from = now,
                                 !.until = LastGameweek(bundle, inventory, t),
                                 !.history = Append(@, Event("ACTIVATED", now))]
<1>1. TypeOK /\ PendingIsCurrent /\ RightsFollowTheirGrant
  BY DEF RightsInvariant, ExerciseInvariant
<1>2. /\ bundle' = bundle
      /\ inventory' = [inventory EXCEPT !.token[t] = s]
      /\ token[t].status \in {"AVAILABLE", "PENDING_CANCELLABLE"}
  BY DEF Activate, Activated, Activatable, Exercisable, Available, Replaced, token
<1>3. /\ inventory'.gameweek = now
      /\ \A u \in Tokens : token'[u] = IF u = t THEN s ELSE token[u]
  BY <1>1, <1>2 DEF TypeOK, token
<1>4. /\ s.status = "ACTIVE" /\ s.from = now /\ now # None
      /\ s.selected = IF token[t].selected = None THEN now ELSE token[t].selected
  BY <1>1, TokenFields DEF TokenStates, None
<1>5. s.selected = now
  BY <1>2, <1>4, UsableFacts
<1> HIDE DEF s
<1>6. Having(inventory', "PENDING_CANCELLABLE") = Pending \ {t}
  BY <1>3, <1>4 DEF Having, Pending, token
<1>7. PendingIsCurrent'
  <2>1. \A u \in Pending \ {t} : /\ Pending \ {t} = {u}
                                 /\ token'[u].selected = now
                                 /\ InWindow(bundle, u, now)
    <3>1. \A u \in Pending : /\ Pending = {u} /\ token[u].selected = now
                             /\ InWindow(bundle, u, now) /\ u \in Tokens
      BY <1>1 DEF PendingIsCurrent, Pending, Having
    <3> QED
      BY <1>3, <3>1
  <2>2. \A u \in Tokens \ (Pending \ {t}) : token'[u].selected = token'[u].from
    BY <1>1, <1>3, <1>4, <1>5 DEF PendingIsCurrent, Pending
  <2> QED
    BY <1>2, <1>3, <1>6, <2>1, <2>2 DEF PendingIsCurrent, InWindow
<1> QED
  BY <1>1, <1>2, <1>3, <1>4, <1>7, RightsOfOthers

(* What advance_inventory does to a right: nothing is pending afterwards,  *)
(* and a right that is not exercised is what the grant says.               *)
LEMMA AdvancedRights ==
  ASSUME RightsInvariant, NEW t \in Tokens, NEW gameweek \in Gameweeks,
         gameweek > inventory.gameweek
  PROVE  LET s == AdvancedToken(bundle, inventory, t, gameweek) IN
           /\ s.status # "PENDING_CANCELLABLE"
           /\ s.selected = s.from
           /\ s.from = None =>
                /\ InWindow(bundle, t, gameweek) <=> s.status = "AVAILABLE"
                /\ gameweek > bundle.grant[t].expires <=> s.status = "EXPIRED"
                /\ gameweek >= bundle.grant[t].acquired <=> Tells(s.history, "ACQUIRED")
<1> DEFINE now == inventory.gameweek
           g == bundle.grant[t]
           d == Deselected(token[t], now)
           s == AdvancedToken(bundle, inventory, t, gameweek)
<1>1. /\ TypeOK /\ StatusExplained /\ PendingIsCurrent /\ RightsFollowTheirGrant
      /\ bundle \in Bundles
  BY DEF RightsInvariant, ExerciseInvariant, TypeOK
<1>2. /\ token[t] \in TokenStates /\ token[t].history \in Seq(TokenEvents)
      /\ now \in Nat \ {0} /\ gameweek \in Nat /\ gameweek > now
  BY <1>1, TokenFields, BoundsAssumption DEF Gameweeks
<1>3. /\ g.acquired \in Nat /\ g.start \in Nat /\ g.end \in Nat /\ g.expires \in Nat
      /\ g.acquired <= g.start /\ g.start <= g.end /\ g.end <= g.expires
  BY <1>1, GrantOrder
<1>4. /\ d.from = token[t].from
      /\ d.status = IF token[t].status = "PENDING_CANCELLABLE" THEN "AVAILABLE" ELSE token[t].status
      /\ d.selected = IF token[t].status = "PENDING_CANCELLABLE" THEN None ELSE token[t].selected
      /\ d.history = IF token[t].status = "PENDING_CANCELLABLE"
                     THEN Append(token[t].history, Event("CANCELLED", now)) ELSE token[t].history
      /\ d \in [status : Statuses, selected : Nat, from : Nat, until : Nat, used : Nat,
                history : Seq(TokenEvents)]
  <2>1. Append(token[t].history, Event("CANCELLED", now)) \in Seq(TokenEvents)
    BY <1>2, HistoryType DEF Kinds
  <2> QED
    BY <1>2, <2>1 DEF Deselected, TokenStates, Statuses, None
<1>5. d.selected = d.from
  <2>1. CASE token[t].status = "PENDING_CANCELLABLE"
    BY <1>4, <2>1, UsableFacts
  <2>2. CASE token[t].status # "PENDING_CANCELLABLE"
    <3>1. t \in Tokens \ Pending
      BY <2>2 DEF Pending, Having, token
    <3> QED
      BY <1>1, <1>4, <2>2, <3>1 DEF PendingIsCurrent, Pending
  <2> QED
    BY <2>1, <2>2
<1>6. d.history \in Seq(TokenEvents)
      /\ (Tells(d.history, "ACQUIRED") <=> Tells(token[t].history, "ACQUIRED"))
  <2>1. Event("CANCELLED", now) \in TokenEvents /\ Event("CANCELLED", now).event # "ACQUIRED"
    BY <1>2, EventType DEF Kinds, Event
  <2> QED
    BY <1>2, <1>4, <2>1, AppendTells
<1>7. /\ d.status # "PENDING_CANCELLABLE"
      /\ d.status \in {"ACTIVE", "USED"} <=> d.from # None
      /\ d.from = None => /\ now > g.expires <=> d.status = "EXPIRED"
                          /\ now >= g.acquired <=> Tells(d.history, "ACQUIRED")
  BY <1>1, <1>4, <1>6 DEF StatusExplained, RightsFollowTheirGrant, Exercised, Recorded, Tells
<1>8. s = CASE d.status = "ACTIVE" -> IF gameweek > d.until THEN Completed(d, gameweek) ELSE d
            [] d.status \in {"USED", "EXPIRED"} -> d
            [] OTHER -> Aged(bundle, t, d, gameweek)
  BY DEF AdvancedToken, token
<1> HIDE DEF d, s, g, now
<1>9. CASE d.status \in {"ACTIVE", "USED"}
  <2>1. s = d \/ s = Completed(d, gameweek)
    BY <1>8, <1>9
  <2>2. s.from = d.from /\ s.selected = d.selected /\ s.status \in {d.status, "USED"}
    BY <1>4, <2>1 DEF Completed
  <2> QED
    BY <1>5, <1>7, <1>9, <2>2 DEF s
<1>10. CASE d.status = "EXPIRED"
  <2>1. s = d /\ d.from = None
    BY <1>7, <1>8, <1>10
  <2>2. now > g.expires /\ gameweek > g.expires /\ ~(gameweek <= g.end)
        /\ now >= g.acquired /\ gameweek >= g.acquired
    BY <1>2, <1>3, <1>7, <1>10, <2>1
  <2> QED
    BY <1>5, <1>7, <1>10, <2>1, <2>2 DEF s, g, InWindow
<1>11. CASE d.status \notin {"ACTIVE", "USED", "EXPIRED"}
  <2> DEFINE A == IF gameweek >= g.acquired /\ ~Recorded(d, "ACQUIRED")
                  THEN <<Event("ACQUIRED", g.acquired)>> ELSE <<>>
             B == IF gameweek > g.expires /\ ~Recorded(d, "EXPIRED")
                  THEN <<Event("EXPIRED", g.expires)>> ELSE <<>>
  <2>1. s = [d EXCEPT !.status = StatusAt(bundle, t, gameweek), !.history = @ \o A \o B]
    BY <1>8, <1>11 DEF Aged, g
  <2>2. /\ s.from = d.from /\ s.selected = d.selected
        /\ s.status = StatusAt(bundle, t, gameweek) /\ s.history = d.history \o A \o B
    BY <1>4, <2>1
  <2>3. d.from = None
    BY <1>7, <1>11
  <2>4. /\ s.status # "PENDING_CANCELLABLE"
        /\ InWindow(bundle, t, gameweek) <=> s.status = "AVAILABLE"
        /\ gameweek > g.expires <=> s.status = "EXPIRED"
    BY <1>2, <1>3, <2>2 DEF StatusAt, InWindow, g
  <2>5. /\ A \in Seq(TokenEvents) /\ B \in Seq(TokenEvents)
        /\ ~Tells(B, "ACQUIRED")
        /\ Tells(A, "ACQUIRED") <=> gameweek >= g.acquired /\ ~Tells(d.history, "ACQUIRED")
    <3>1. /\ Event("ACQUIRED", g.acquired) \in TokenEvents
          /\ Event("EXPIRED", g.expires) \in TokenEvents
      BY <1>1, GrantTypes, EventType DEF Kinds, g
    <3>2. /\ Tells(<<Event("ACQUIRED", g.acquired)>>, "ACQUIRED")
          /\ ~Tells(<<Event("EXPIRED", g.expires)>>, "ACQUIRED")
          /\ ~Tells(<<>>, "ACQUIRED")
      BY DEF Tells, Event
    <3>3. Recorded(d, "ACQUIRED") <=> Tells(d.history, "ACQUIRED")
      BY DEF Recorded, Tells
    <3> QED
      BY <3>1, <3>2, <3>3
  <2> HIDE DEF A, B
  <2>6. d.history \o A \in Seq(TokenEvents)
    BY <1>6, <2>5, ConcatProperties
  <2>7. Tells(s.history, "ACQUIRED") <=> Tells(d.history, "ACQUIRED") \/ Tells(A, "ACQUIRED")
    <3> DEFINE C == d.history \o A
    <3>1. Tells(C, "ACQUIRED") <=> Tells(d.history, "ACQUIRED") \/ Tells(A, "ACQUIRED")
      BY <1>6, <2>5, ConcatTells
    <3>2. C \in Seq(TokenEvents)
      BY <2>6
    <3> HIDE DEF C
    <3>3. Tells(C \o B, "ACQUIRED") <=> Tells(C, "ACQUIRED") \/ Tells(B, "ACQUIRED")
      BY <3>2, <2>5, ConcatTells
    <3>4. s.history = C \o B
      BY <2>2 DEF C
    <3> QED
      BY <3>1, <3>3, <3>4, <2>5, Zenon
  <2>8. gameweek >= g.acquired <=> Tells(s.history, "ACQUIRED")
    BY <1>2, <1>3, <1>7, <2>3, <2>5, <2>7
  <2> QED
    BY <1>5, <2>2, <2>4, <2>8 DEF s, g
<1> QED
  BY <1>9, <1>10, <1>11

(* The clock ends every selection and gives each right the status of its
   Gameweek. *)
LEMMA AdvanceKeepsRights ==
  ASSUME RightsInvariant, NEW gameweek \in Gameweeks, Advance(gameweek)
  PROVE  PendingIsCurrent' /\ RightsFollowTheirGrant'
<1>1. gameweek > inventory.gameweek /\ bundle' = bundle
  BY DEF Advance
<1>2. gameweek # inventory.gameweek
  BY <1>1, TokenFields, BoundsAssumption DEF RightsInvariant, ExerciseInvariant, Gameweeks, TypeOK
<1>3. /\ inventory'.gameweek = gameweek
      /\ \A t \in Tokens : token'[t] = AdvancedToken(bundle, inventory, t, gameweek)
  BY <1>2 DEF Advance, Advanced, token
<1>4. ASSUME NEW t \in Tokens
      PROVE  /\ token'[t].status # "PENDING_CANCELLABLE"
             /\ token'[t].selected = token'[t].from
             /\ token'[t].from = None =>
                  /\ InWindow(bundle, t, gameweek) <=> token'[t].status = "AVAILABLE"
                  /\ gameweek > bundle.grant[t].expires <=> token'[t].status = "EXPIRED"
                  /\ gameweek >= bundle.grant[t].acquired <=> Tells(token'[t].history, "ACQUIRED")
  BY <1>1, <1>3, AdvancedRights
<1>5. Having(inventory', "PENDING_CANCELLABLE") = {}
  BY <1>4 DEF Having, token
<1>6. PendingIsCurrent'
  BY <1>4, <1>5 DEF PendingIsCurrent
<1>7. RightsFollowTheirGrant'
  BY <1>1, <1>3, <1>4 DEF RightsFollowTheirGrant, Exercised, InWindow, Recorded, Tells
<1> QED
  BY <1>6, <1>7

(* A new inventory has no selection, and its rights are those of its
   Gameweek. *)
LEMMA InitRights == Init => PendingIsCurrent /\ RightsFollowTheirGrant
<1> SUFFICES ASSUME Init PROVE PendingIsCurrent /\ RightsFollowTheirGrant
  OBVIOUS
<1>1. PICK gameweek \in Gameweeks : inventory = Built(bundle, gameweek)
  BY DEF Init
<1>2. bundle \in Bundles /\ inventory.gameweek = gameweek /\ gameweek \in Nat
  BY <1>1, BoundsAssumption DEF Init, Built, Gameweeks
<1>3. ASSUME NEW t \in Tokens
      PROVE  /\ token[t].status = StatusAt(bundle, t, gameweek)
             /\ token[t].selected = None /\ token[t].from = None
             /\ token[t].history = Granted(bundle, t, gameweek)
  BY <1>1 DEF Built, token
<1>4. Having(inventory, "PENDING_CANCELLABLE") = {}
  BY <1>3 DEF Having, StatusAt, token
<1>5. PendingIsCurrent
  BY <1>3, <1>4 DEF PendingIsCurrent
<1>6. ASSUME NEW t \in Tokens
      PROVE  /\ InWindow(bundle, t, gameweek)
                  <=> token[t].status \in {"AVAILABLE", "PENDING_CANCELLABLE"}
             /\ gameweek > bundle.grant[t].expires <=> token[t].status = "EXPIRED"
             /\ gameweek >= bundle.grant[t].acquired <=> Tells(token[t].history, "ACQUIRED")
  <2>1. /\ bundle.grant[t].end \in Nat /\ bundle.grant[t].expires \in Nat
        /\ bundle.grant[t].start \in Nat /\ bundle.grant[t].end <= bundle.grant[t].expires
    BY <1>2, GrantOrder
  <2>2. /\ InWindow(bundle, t, gameweek)
             <=> token[t].status \in {"AVAILABLE", "PENDING_CANCELLABLE"}
        /\ gameweek > bundle.grant[t].expires <=> token[t].status = "EXPIRED"
    BY <1>2, <1>3, <2>1 DEF StatusAt, InWindow
  <2> DEFINE A == IF gameweek >= bundle.grant[t].acquired
                  THEN <<Event("ACQUIRED", bundle.grant[t].acquired)>> ELSE <<>>
             B == IF gameweek > bundle.grant[t].expires
                  THEN <<Event("EXPIRED", bundle.grant[t].expires)>> ELSE <<>>
  <2>3. token[t].history = A \o B
    BY <1>3 DEF Granted
  <2>4. /\ A \in Seq(TokenEvents) /\ B \in Seq(TokenEvents)
        /\ ~Tells(B, "ACQUIRED")
        /\ Tells(A, "ACQUIRED") <=> gameweek >= bundle.grant[t].acquired
    <3>1. /\ Event("ACQUIRED", bundle.grant[t].acquired) \in TokenEvents
          /\ Event("EXPIRED", bundle.grant[t].expires) \in TokenEvents
      BY <1>2, GrantTypes, EventType DEF Kinds
    <3>2. /\ Tells(<<Event("ACQUIRED", bundle.grant[t].acquired)>>, "ACQUIRED")
          /\ ~Tells(<<Event("EXPIRED", bundle.grant[t].expires)>>, "ACQUIRED")
          /\ ~Tells(<<>>, "ACQUIRED")
      BY DEF Tells, Event
    <3> QED
      BY <3>1, <3>2
  <2> HIDE DEF A, B
  <2> QED
    BY <2>2, <2>3, <2>4, ConcatTells
<1>7. RightsFollowTheirGrant
  BY <1>2, <1>6 DEF RightsFollowTheirGrant, Recorded, Tells
<1> QED
  BY <1>5, <1>7

(* Selections and rights agree with the Gameweek and the grants in every   *)
(* reachable inventory (select_token, cancel_token, activate_token,        *)
(* advance_inventory).                                                     *)
THEOREM RightsHold == Spec => []RightsInvariant
<1>1. Init => RightsInvariant
  BY InitExercise, InitRights DEF RightsInvariant
<1>2. RightsInvariant /\ ExerciseInvariant' /\ [Next]_vars => RightsInvariant'
  <2> SUFFICES ASSUME RightsInvariant, [Next]_vars
               PROVE  PendingIsCurrent' /\ RightsFollowTheirGrant'
    BY DEF RightsInvariant
  <2>1. CASE UNCHANGED vars
    BY <2>1 DEF vars, RightsInvariant, PendingIsCurrent, RightsFollowTheirGrant, Having, Exercised,
                Recorded, InWindow, token
  <2> QED
    BY <2>1, SelectKeepsRights, CancelKeepsRights, ActivateKeepsRights, AdvanceKeepsRights DEF Next
<1> QED
  BY <1>1, <1>2, ExerciseHolds, PTL DEF Spec

(* At most one token is pending and it was selected in this Gameweek, so   *)
(* CHIP_PENDING_STATE_INVALID is never raised.                             *)
THEOREM SelectionIsCurrent == Spec => []PendingIsCurrent
BY RightsHold, PTL DEF RightsInvariant

(* A right that was not exercised is usable all through its window and     *)
(* gone after its expiry, however the inventory got there.                 *)
THEOREM RightsAreKept == Spec => []RightsFollowTheirGrant
BY RightsHold, PTL DEF RightsInvariant

-----------------------------------------------------------------------------
(* Histories.                                                              *)

(* What HistoryInOrder demands of one history.                             *)
InOrder(h) ==
  \A i, j \in DOMAIN h : i < j =>
    /\ h[i].gameweek <= h[j].gameweek
    /\ h[i].event = h[j].event => h[i].event \in {"SELECTED", "CANCELLED"}
    /\ h[i].event \notin {"COMPLETED", "EXPIRED"}
    /\ h[i].event = "ACTIVATED" => h[j].event = "COMPLETED"

(* What makes it inductive: a history that a token of this status may have *)
(* by this Gameweek.                                                       *)
Told(h, status, gameweek) ==
  /\ h \in Seq(TokenEvents) /\ InOrder(h)
  /\ \A i \in DOMAIN h : h[i].gameweek <= gameweek
  /\ Tells(h, "ACTIVATED") => status \in {"ACTIVE", "USED"}
  /\ Tells(h, "COMPLETED") => status = "USED"
  /\ Tells(h, "EXPIRED") => status = "EXPIRED"

HistoriesTold == \A t \in Tokens : Told(token[t].history, token[t].status, inventory.gameweek)

HistoryInvariant == RightsInvariant /\ HistoriesTold

(* An event that the status allows, not before the last, keeps the order.  *)
LEMMA AppendTold ==
  ASSUME NEW h, NEW status, NEW gameweek \in Nat, Told(h, status, gameweek),
         NEW kind \in Kinds, NEW at \in Nat \ {0}, gameweek <= at,
         NEW next,
         status \notin {"USED", "EXPIRED"},
         status = "ACTIVE" <=> kind = "COMPLETED",
         kind = "ACQUIRED" => ~Tells(h, "ACQUIRED"),
         kind = "ACTIVATED" => next = "ACTIVE",
         kind = "COMPLETED" => next = "USED",
         kind = "EXPIRED" => next = "EXPIRED"
  PROVE  Told(Append(h, Event(kind, at)), next, at)
<1> DEFINE e == Event(kind, at)
           k == Append(h, e)
<1>1. /\ h \in Seq(TokenEvents) /\ e \in TokenEvents /\ e.event = kind /\ e.gameweek = at
  BY EventType DEF Told, Event
<1> HIDE DEF e
<1>2. /\ k \in Seq(TokenEvents) /\ Len(h) \in Nat
      /\ DOMAIN h = 1..Len(h) /\ DOMAIN k = 1..(Len(h) + 1)
      /\ k[Len(h) + 1] = e
      /\ \A i \in DOMAIN h : k[i] = h[i] /\ h[i] \in TokenEvents
  BY <1>1
<1>3. \A x : Tells(k, x) <=> Tells(h, x) \/ kind = x
  BY <1>1, AppendTells
<1> HIDE DEF k
<1>4. \A i \in DOMAIN h : h[i].gameweek \in Nat
  BY <1>2 DEF TokenEvents
<1>5. ASSUME NEW i \in DOMAIN h
      PROVE  /\ h[i].gameweek <= at
             /\ h[i].event = kind => kind \in {"SELECTED", "CANCELLED"}
             /\ h[i].event \notin {"COMPLETED", "EXPIRED"}
             /\ h[i].event = "ACTIVATED" => kind = "COMPLETED"
  <2>1. h[i].gameweek <= gameweek
    BY DEF Told
  <2>2. Tells(h, h[i].event)
    BY DEF Tells
  <2>3. h[i].event \notin {"COMPLETED", "EXPIRED"}
    BY <2>2 DEF Told
  <2>4. h[i].event = "ACTIVATED" => status = "ACTIVE"
    BY <2>2 DEF Told
  <2> QED
    BY <1>4, <2>1, <2>2, <2>3, <2>4 DEF Kinds
<1>6. InOrder(k)
  <2> SUFFICES ASSUME NEW i \in DOMAIN k, NEW j \in DOMAIN k, i < j
               PROVE  /\ k[i].gameweek <= k[j].gameweek
                      /\ k[i].event = k[j].event => k[i].event \in {"SELECTED", "CANCELLED"}
                      /\ k[i].event \notin {"COMPLETED", "EXPIRED"}
                      /\ k[i].event = "ACTIVATED" => k[j].event = "COMPLETED"
    BY DEF InOrder
  <2>1. i \in DOMAIN h /\ (j \in DOMAIN h \/ j = Len(h) + 1)
    BY <1>2
  <2>2. CASE j \in DOMAIN h
    BY <1>2, <2>1, <2>2 DEF Told, InOrder
  <2>3. CASE j = Len(h) + 1
    BY <1>1, <1>2, <1>5, <2>1, <2>3
  <2> QED
    BY <2>1, <2>2, <2>3
<1>7. \A i \in DOMAIN k : k[i].gameweek <= at
  <2> SUFFICES ASSUME NEW i \in DOMAIN k PROVE k[i].gameweek <= at
    OBVIOUS
  <2>1. CASE i \in DOMAIN h
    BY <1>2, <1>5, <2>1
  <2>2. CASE i \notin DOMAIN h
    <3>1. i = Len(h) + 1
      BY <1>2, <2>2
    <3> QED
      BY <1>1, <1>2, <3>1
  <2> QED
    BY <2>1, <2>2
<1>8. /\ Tells(k, "ACTIVATED") => next \in {"ACTIVE", "USED"}
      /\ Tells(k, "COMPLETED") => next = "USED"
      /\ Tells(k, "EXPIRED") => next = "EXPIRED"
  BY <1>3 DEF Told
<1> QED
  BY <1>2, <1>6, <1>7, <1>8 DEF Told, k, e

(* A history stays right as time passes, and while the token is not used   *)
(* its status matters not.                                                 *)
LEMMA StaysTold ==
  ASSUME NEW h, NEW status, NEW gameweek \in Nat, Told(h, status, gameweek),
         NEW later \in Nat, gameweek <= later,
         NEW next, next = status \/ status \notin {"ACTIVE", "USED", "EXPIRED"}
  PROVE  Told(h, next, later)
<1>1. \A i \in DOMAIN h : h[i].gameweek \in Nat
  <2>1. \A i \in DOMAIN h : h[i] \in TokenEvents
    BY DEF Told
  <2> QED
    BY <2>1 DEF TokenEvents
<1>2. \A i \in DOMAIN h : h[i].gameweek <= later
  BY <1>1 DEF Told
<1> QED
  BY <1>2 DEF Told

(* A step that changes one token.                                          *)
LEMMA OthersTold ==
  ASSUME TypeOK, HistoriesTold, NEW t \in Tokens, NEW s,
         inventory' = [inventory EXCEPT !.token[t] = s],
         Told(s.history, s.status, inventory.gameweek)
  PROVE  HistoriesTold'
<1>1. /\ inventory'.gameweek = inventory.gameweek
      /\ \A u \in Tokens : token'[u] = IF u = t THEN s ELSE token[u]
  BY DEF TypeOK, token
<1>2. ASSUME NEW u \in Tokens
      PROVE  Told(token'[u].history, token'[u].status, inventory'.gameweek)
  BY <1>1 DEF HistoriesTold
<1> QED
  BY <1>2 DEF HistoriesTold, token

(* select_token, cancel_token and activate_token append one event of now.  *)
LEMMA OneEventTold ==
  ASSUME HistoryInvariant, NEW t \in Tokens, Select(t) \/ Cancel(t) \/ Activate(t)
  PROVE  HistoriesTold'
<1> DEFINE now == inventory.gameweek
           h == token[t].history
<1>1. TypeOK /\ HistoriesTold /\ token[t] \in TokenStates /\ now \in Nat \ {0}
  BY TokenFields, BoundsAssumption DEF HistoryInvariant, RightsInvariant, ExerciseInvariant,
     TypeOK, Gameweeks
<1>2. Told(h, token[t].status, now)
  BY <1>1 DEF HistoriesTold
<1>3. CASE Select(t)
  <2> DEFINE s == [token[t] EXCEPT !.status = "PENDING_CANCELLABLE", !.selected = now,
                                   !.history = Append(@, Event("SELECTED", now))]
  <2>1. inventory' = [inventory EXCEPT !.token[t] = s] /\ token[t].status = "AVAILABLE"
    BY <1>3 DEF Select, Selected, Replaced, Selectable, Available, token
  <2>2. s.history = Append(h, Event("SELECTED", now)) /\ s.status = "PENDING_CANCELLABLE"
    BY <1>1 DEF TokenStates
  <2> HIDE DEF s
  <2>3. Told(s.history, s.status, now)
    BY <1>1, <1>2, <2>1, <2>2, AppendTold DEF Kinds
  <2> QED
    BY <1>1, <2>1, <2>3, OthersTold
<1>4. CASE Cancel(t)
  <2> DEFINE s == [token[t] EXCEPT !.status = "AVAILABLE", !.selected = None,
                                   !.history = Append(@, Event("CANCELLED", now))]
  <2>1. inventory' = [inventory EXCEPT !.token[t] = s] /\ token[t].status = "PENDING_CANCELLABLE"
    BY <1>4 DEF Cancel, Cancelled, Replaced, Cancellable, token
  <2>2. s.history = Append(h, Event("CANCELLED", now)) /\ s.status = "AVAILABLE"
    BY <1>1 DEF TokenStates
  <2> HIDE DEF s
  <2>3. Told(s.history, s.status, now)
    BY <1>1, <1>2, <2>1, <2>2, AppendTold DEF Kinds
  <2> QED
    BY <1>1, <2>1, <2>3, OthersTold
<1>5. CASE Activate(t)
  <2> DEFINE s == [token[t] EXCEPT !.status = "ACTIVE",
                                   !.selected = IF @ = None THEN now ELSE @,
                                   !.from = now,
                                   !.until = LastGameweek(bundle, inventory, t),
                                   !.history = Append(@, Event("ACTIVATED", now))]
  <2>1. /\ inventory' = [inventory EXCEPT !.token[t] = s]
        /\ token[t].status \in {"AVAILABLE", "PENDING_CANCELLABLE"}
    BY <1>5 DEF Activate, Activated, Activatable, Exercisable, Available, Replaced, token
  <2>2. s.history = Append(h, Event("ACTIVATED", now)) /\ s.status = "ACTIVE"
    BY <1>1 DEF TokenStates
  <2> HIDE DEF s
  <2>3. Told(s.history, s.status, now)
    BY <1>1, <1>2, <2>1, <2>2, AppendTold DEF Kinds
  <2> QED
    BY <1>1, <2>1, <2>3, OthersTold
<1> QED
  BY <1>3, <1>4, <1>5

(* An acquisition and an expiry, where they apply, told in this order.     *)
Acquiring(at) == <<Event("ACQUIRED", at)>>
Expiring(at) == <<Event("EXPIRED", at)>>

(* What aging adds to a history tells of an acquisition and an expiry in
   their order, at the Gameweeks at which they fall due. *)
LEMMA AgingTold ==
  ASSUME NEW h, NEW status, NEW now \in Nat, Told(h, status, now),
         status \notin {"ACTIVE", "USED", "EXPIRED"},
         NEW gameweek \in Nat, now <= gameweek,
         NEW acquired \in Nat \ {0}, NEW expires \in Nat \ {0}, acquired <= expires,
         NEW acquires \in BOOLEAN, NEW ends \in BOOLEAN,
         acquires => ~Tells(h, "ACQUIRED") /\ now <= acquired /\ acquired <= gameweek,
         ends => now <= expires /\ expires <= gameweek,
         NEW next, ends => next = "EXPIRED"
  PROVE  Told(h \o (IF acquires THEN Acquiring(acquired) ELSE <<>>)
                \o (IF ends THEN Expiring(expires) ELSE <<>>), next, gameweek)
<1> DEFINE A == IF acquires THEN Acquiring(acquired) ELSE <<>>
           B == IF ends THEN Expiring(expires) ELSE <<>>
           C == h \o A
           m == IF acquires THEN acquired ELSE now
<1>1. h \in Seq(TokenEvents)
  BY DEF Told
<1>2. m \in Nat /\ m <= gameweek /\ (ends => m <= expires)
  OBVIOUS
<1>3. Told(C, "AVAILABLE", m)
  <2>1. CASE acquires
    <3>1. C = Append(h, Event("ACQUIRED", acquired)) /\ m = acquired
      BY <1>1, <2>1 DEF Acquiring
    <3>2. Told(Append(h, Event("ACQUIRED", acquired)), "AVAILABLE", acquired)
      BY <2>1, AppendTold DEF Kinds
    <3> QED
      BY <3>1, <3>2
  <2>2. CASE ~acquires
    <3>1. C = h /\ m = now
      BY <1>1, <2>2
    <3>2. Told(h, "AVAILABLE", now)
      BY StaysTold
    <3> QED
      BY <3>1, <3>2
  <2> QED
    BY <2>1, <2>2
<1> HIDE DEF m, C
<1>4. C \in Seq(TokenEvents)
  BY <1>3 DEF Told
<1>5. CASE ends
  <2>1. C \o B = Append(C, Event("EXPIRED", expires))
    BY <1>4, <1>5 DEF Expiring
  <2>2. Told(Append(C, Event("EXPIRED", expires)), "EXPIRED", expires)
    BY <1>2, <1>3, <1>5, AppendTold DEF Kinds
  <2>3. Told(C \o B, "EXPIRED", gameweek)
    BY <1>5, <2>1, <2>2, StaysTold
  <2> QED
    BY <1>5, <2>3 DEF C
<1>6. CASE ~ends
  <2>1. C \o B = C
    BY <1>4, <1>6
  <2>2. Told(C, next, gameweek)
    BY <1>2, <1>3, StaysTold
  <2> QED
    BY <2>1, <2>2 DEF C
<1> QED
  BY <1>5, <1>6

(* advance_inventory: whatever it tells happened after all that was told.  *)
LEMMA AdvancedTold ==
  ASSUME HistoryInvariant, NEW t \in Tokens, NEW gameweek \in Gameweeks,
         gameweek > inventory.gameweek
  PROVE  LET s == AdvancedToken(bundle, inventory, t, gameweek) IN
           Told(s.history, s.status, gameweek)
<1> DEFINE now == inventory.gameweek
           g == bundle.grant[t]
           d == Deselected(token[t], now)
           s == AdvancedToken(bundle, inventory, t, gameweek)
<1>1. /\ TypeOK /\ StatusExplained /\ RightsFollowTheirGrant
      /\ bundle \in Bundles
      /\ Told(token[t].history, token[t].status, now)
  BY DEF HistoryInvariant, RightsInvariant, ExerciseInvariant, TypeOK, HistoriesTold
<1>2. /\ token[t] \in TokenStates
      /\ now \in Nat \ {0} /\ gameweek \in Nat /\ now < gameweek
  BY <1>1, TokenFields, BoundsAssumption DEF Gameweeks
<1>3. /\ g.acquired \in Nat \ {0} /\ g.expires \in Nat \ {0}
      /\ g.start \in Nat /\ g.end \in Nat
      /\ g.acquired <= g.start /\ g.start <= g.end /\ g.end <= g.expires
  BY <1>1, GrantOrder, GrantTypes
<1>4. /\ d \in TokenStates /\ d.from = token[t].from /\ d.until = token[t].until
      /\ d.status = IF token[t].status = "PENDING_CANCELLABLE" THEN "AVAILABLE" ELSE token[t].status
      /\ Told(d.history, d.status, now)
      /\ Tells(d.history, "ACQUIRED") <=> Tells(token[t].history, "ACQUIRED")
  <2>1. CASE token[t].status = "PENDING_CANCELLABLE"
    <3>1. d = [token[t] EXCEPT !.status = "AVAILABLE", !.selected = None,
                               !.history = Append(@, Event("CANCELLED", now))]
      BY <2>1 DEF Deselected
    <3>2. /\ Event("CANCELLED", now) \in TokenEvents /\ Event("CANCELLED", now).event = "CANCELLED"
          /\ token[t].history \in Seq(TokenEvents)
      BY <1>1, <1>2, EventType DEF Kinds, Event, Told
    <3>3. Append(token[t].history, Event("CANCELLED", now)) \in Seq(TokenEvents)
      BY <3>2
    <3>4. /\ d \in TokenStates /\ d.from = token[t].from /\ d.until = token[t].until
          /\ d.status = "AVAILABLE"
          /\ d.history = Append(token[t].history, Event("CANCELLED", now))
      <4> DEFINE told == Append(token[t].history, Event("CANCELLED", now))
      <4>1. d = [token[t] EXCEPT !.status = "AVAILABLE", !.selected = None, !.history = told]
        BY <1>2, <3>1
      <4>2. told \in Seq(TokenEvents)
        BY <3>3
      <4> HIDE DEF d, told
      <4>3. /\ d \in TokenStates /\ d.from = token[t].from /\ d.until = token[t].until
            /\ d.status = "AVAILABLE" /\ d.history = told
        BY <1>2, <4>1, <4>2 DEF TokenStates, Statuses, None
      <4> QED
        BY <4>3 DEF told
    <3>5. Told(Append(token[t].history, Event("CANCELLED", now)), "AVAILABLE", now)
      BY <1>1, <1>2, <2>1, AppendTold DEF Kinds
    <3>6. Tells(d.history, "ACQUIRED") <=> Tells(token[t].history, "ACQUIRED")
      BY <3>2, <3>4, AppendTells
    <3> QED
      BY <2>1, <3>4, <3>5, <3>6
  <2>2. CASE token[t].status # "PENDING_CANCELLABLE"
    BY <1>1, <1>2, <2>2 DEF Deselected
  <2> QED
    BY <2>1, <2>2
<1>5. s = CASE d.status = "ACTIVE" -> IF gameweek > d.until THEN Completed(d, gameweek) ELSE d
            [] d.status \in {"USED", "EXPIRED"} -> d
            [] OTHER -> Aged(bundle, t, d, gameweek)
  BY DEF AdvancedToken, token
<1>6. d.status = "ACTIVE" => now <= d.until
  BY <1>1, <1>4 DEF StatusExplained
<1>7. d.status \notin {"ACTIVE", "USED", "EXPIRED"} =>
        now <= g.expires /\ (now >= g.acquired <=> Tells(d.history, "ACQUIRED"))
  <2> SUFFICES ASSUME d.status \notin {"ACTIVE", "USED", "EXPIRED"}
               PROVE  now <= g.expires /\ (now >= g.acquired <=> Tells(d.history, "ACQUIRED"))
    OBVIOUS
  <2>1. ~Exercised(t) /\ token[t].status # "EXPIRED"
    BY <1>1, <1>4 DEF StatusExplained
  <2>2. /\ ~(now > g.expires)
        /\ now >= g.acquired <=> Tells(token[t].history, "ACQUIRED")
    BY <1>1, <2>1 DEF RightsFollowTheirGrant, Recorded, Tells
  <2> QED
    BY <1>2, <1>3, <1>4, <2>2
<1> HIDE DEF d, s, g, now
<1>8. CASE s = d
  <2>1. Told(d.history, d.status, gameweek)
    BY <1>2, <1>4, StaysTold
  <2> QED
    BY <1>8, <2>1 DEF s
<1>9. CASE d.status = "ACTIVE" /\ s = Completed(d, gameweek) /\ gameweek > d.until
  <2>1. d.until \in Nat \ {0}
    BY <1>2, <1>4, <1>6, <1>9 DEF TokenStates
  <2>2. s.history = Append(d.history, Event("COMPLETED", d.until)) /\ s.status = "USED"
    BY <1>4, <1>9 DEF Completed, TokenStates
  <2>3. Told(Append(d.history, Event("COMPLETED", d.until)), "USED", d.until)
    BY <1>2, <1>4, <1>6, <1>9, <2>1, AppendTold DEF Kinds
  <2>4. Told(Append(d.history, Event("COMPLETED", d.until)), "USED", gameweek)
    BY <1>2, <1>9, <2>1, <2>3, StaysTold
  <2> QED
    BY <2>2, <2>4 DEF s
<1>10. CASE d.status \notin {"ACTIVE", "USED", "EXPIRED"} /\ s = Aged(bundle, t, d, gameweek)
  <2> DEFINE acquires == gameweek >= g.acquired /\ ~Recorded(d, "ACQUIRED")
             ends == gameweek > g.expires /\ ~Recorded(d, "EXPIRED")
  <2>1. s = [d EXCEPT !.status = StatusAt(bundle, t, gameweek),
                      !.history = @ \o (IF acquires THEN Acquiring(g.acquired) ELSE <<>>)
                                    \o (IF ends THEN Expiring(g.expires) ELSE <<>>)]
    BY <1>10 DEF Aged, Acquiring, Expiring, g
  <2>2. /\ s.status = StatusAt(bundle, t, gameweek)
        /\ s.history = d.history \o (IF acquires THEN Acquiring(g.acquired) ELSE <<>>)
                                 \o (IF ends THEN Expiring(g.expires) ELSE <<>>)
    BY <1>4, <2>1 DEF TokenStates
  <2>3. Recorded(d, "ACQUIRED") <=> Tells(d.history, "ACQUIRED")
    BY DEF Recorded, Tells
  <2>4. acquires => ~Tells(d.history, "ACQUIRED") /\ now <= g.acquired /\ g.acquired <= gameweek
    BY <1>2, <1>3, <1>7, <1>10, <2>3
  <2>5. ends => now <= g.expires /\ g.expires <= gameweek /\ s.status = "EXPIRED"
    BY <1>2, <1>3, <1>7, <1>10, <2>2 DEF StatusAt, g
  <2>6. acquires \in BOOLEAN /\ ends \in BOOLEAN /\ g.acquired <= g.expires /\ now <= gameweek
        /\ now \in Nat
    BY <1>2, <1>3
  <2> HIDE DEF acquires, ends
  <2>7. Told(d.history \o (IF acquires THEN Acquiring(g.acquired) ELSE <<>>)
                       \o (IF ends THEN Expiring(g.expires) ELSE <<>>), s.status, gameweek)
    BY <1>2, <1>3, <1>4, <1>10, <2>4, <2>5, <2>6, AgingTold
  <2> QED
    BY <2>2, <2>7 DEF s
<1> QED
  BY <1>5, <1>8, <1>9, <1>10

(* ... for every token.                                                    *)
LEMMA AdvanceTold ==
  ASSUME HistoryInvariant, NEW gameweek \in Gameweeks, Advance(gameweek)
  PROVE  HistoriesTold'
<1>1. gameweek > inventory.gameweek
  BY DEF Advance
<1>2. gameweek # inventory.gameweek
  BY <1>1, TokenFields, BoundsAssumption
     DEF HistoryInvariant, RightsInvariant, ExerciseInvariant, Gameweeks, TypeOK
<1>3. /\ inventory'.gameweek = gameweek
      /\ \A t \in Tokens : token'[t] = AdvancedToken(bundle, inventory, t, gameweek)
  BY <1>2 DEF Advance, Advanced, token
<1>4. ASSUME NEW t \in Tokens
      PROVE  Told(token'[t].history, token'[t].status, inventory'.gameweek)
  BY <1>1, <1>3, AdvancedTold
<1> QED
  BY <1>4 DEF HistoriesTold, token

(* build_chip_inventory: an inventory may start late, with a right that    *)
(* has been acquired and has expired already.                              *)
LEMMA InitTold == Init => HistoriesTold
<1> SUFFICES ASSUME Init, NEW t \in Tokens
             PROVE  Told(token[t].history, token[t].status, inventory.gameweek)
  BY DEF HistoriesTold
<1>1. PICK gameweek \in Gameweeks : inventory = Built(bundle, gameweek)
  BY DEF Init
<1> DEFINE g == bundle.grant[t]
           acquires == gameweek >= g.acquired
           ends == gameweek > g.expires
           e == <<>>
<1>2. bundle \in Bundles /\ inventory.gameweek = gameweek /\ gameweek \in Nat
  BY <1>1, BoundsAssumption DEF Init, Built, Gameweeks
<1>3. /\ token[t].status = StatusAt(bundle, t, gameweek)
      /\ token[t].history = Granted(bundle, t, gameweek)
  BY <1>1 DEF Built, token
<1>4. /\ g.acquired \in Nat \ {0} /\ g.expires \in Nat \ {0} /\ g.acquired <= g.expires
  BY <1>2, GrantOrder, GrantTypes
<1>5. token[t].history = (IF acquires THEN Acquiring(g.acquired) ELSE <<>>)
                         \o (IF ends THEN Expiring(g.expires) ELSE <<>>)
  BY <1>3 DEF Granted, Acquiring, Expiring
<1>6. /\ acquires => 0 <= g.acquired /\ g.acquired <= gameweek
      /\ ends => 0 <= g.expires /\ g.expires <= gameweek /\ token[t].status = "EXPIRED"
      /\ acquires \in BOOLEAN /\ ends \in BOOLEAN /\ 0 <= gameweek /\ 0 \in Nat
  BY <1>2, <1>3, <1>4 DEF StatusAt
<1>7. /\ Told(e, "AVAILABLE", 0) /\ ~Tells(e, "ACQUIRED")
  BY DEF Told, InOrder, Tells
<1>8. e \o (IF acquires THEN Acquiring(g.acquired) ELSE <<>>)
        = (IF acquires THEN Acquiring(g.acquired) ELSE <<>>)
  <2>1. (IF acquires THEN Acquiring(g.acquired) ELSE <<>>) \in Seq(TokenEvents)
    BY <1>4, EventType DEF Acquiring, Kinds
  <2> QED
    BY <2>1
<1> HIDE DEF acquires, ends, e, g
<1>9. Told(e \o (IF acquires THEN Acquiring(g.acquired) ELSE <<>>)
             \o (IF ends THEN Expiring(g.expires) ELSE <<>>), token[t].status, gameweek)
  BY <1>2, <1>4, <1>6, <1>7, AgingTold
<1> QED
  BY <1>2, <1>5, <1>8, <1>9

(* Every history is in order, tells each change of a right once, and tells *)
(* nothing after its end, whether the inventory moves Gameweek by Gameweek *)
(* or skips some, and however often a token is selected and cancelled.     *)
THEOREM HistoriesInOrder == Spec => []HistoryInOrder
<1>1. Init => HistoriesTold
  BY InitTold
<1>2. RightsInvariant /\ HistoriesTold /\ [Next]_vars => HistoriesTold'
  <2> SUFFICES ASSUME HistoryInvariant, [Next]_vars PROVE HistoriesTold'
    BY DEF HistoryInvariant
  <2>1. CASE UNCHANGED vars
    BY <2>1 DEF vars, HistoryInvariant, HistoriesTold, token
  <2> QED
    BY <2>1, OneEventTold, AdvanceTold DEF Next
<1>3. HistoriesTold => HistoryInOrder
  BY DEF HistoriesTold, Told, InOrder, HistoryInOrder
<1> QED
  BY <1>1, <1>2, <1>3, RightsHold, PTL DEF Spec

-----------------------------------------------------------------------------
(* Advancing in one step and in several.                                   *)

Acquires(t, history, gameweek) ==
  gameweek >= bundle.grant[t].acquired /\ ~Tells(history, "ACQUIRED")

Expires(t, history, gameweek) ==
  gameweek > bundle.grant[t].expires /\ ~Tells(history, "EXPIRED")

(* What ageing to a Gameweek adds to a history.                            *)
Added(t, history, gameweek) ==
  (IF Acquires(t, history, gameweek) THEN Acquiring(bundle.grant[t].acquired) ELSE <<>>)
  \o (IF Expires(t, history, gameweek) THEN Expiring(bundle.grant[t].expires) ELSE <<>>)

(* Aging adds an acquisition exactly if one falls due and an expiry
   exactly if one does. *)
LEMMA AddedFacts ==
  ASSUME bundle \in Bundles, NEW t \in Tokens, NEW history \in Seq(TokenEvents),
         NEW gameweek \in Nat
  PROVE  /\ Added(t, history, gameweek) \in Seq(TokenEvents)
         /\ Tells(Added(t, history, gameweek), "ACQUIRED") <=> Acquires(t, history, gameweek)
         /\ Tells(Added(t, history, gameweek), "EXPIRED") <=> Expires(t, history, gameweek)
<1> DEFINE A == IF Acquires(t, history, gameweek) THEN Acquiring(bundle.grant[t].acquired) ELSE <<>>
           E == IF Expires(t, history, gameweek) THEN Expiring(bundle.grant[t].expires) ELSE <<>>
<1>1. /\ Event("ACQUIRED", bundle.grant[t].acquired) \in TokenEvents
      /\ Event("EXPIRED", bundle.grant[t].expires) \in TokenEvents
  BY GrantTypes, EventType DEF Kinds
<1>2. A \in Seq(TokenEvents) /\ E \in Seq(TokenEvents)
  BY <1>1 DEF Acquiring, Expiring
<1>3. /\ Tells(A, "ACQUIRED") <=> Acquires(t, history, gameweek)
      /\ ~Tells(A, "EXPIRED")
  BY DEF Tells, Acquiring, Event
<1>4. /\ Tells(E, "EXPIRED") <=> Expires(t, history, gameweek)
      /\ ~Tells(E, "ACQUIRED")
  BY DEF Tells, Expiring, Event
<1> HIDE DEF A, E
<1>5. A \o E \in Seq(TokenEvents)
  BY <1>2
<1>6. \A kind : Tells(A \o E, kind) <=> Tells(A, kind) \/ Tells(E, kind)
  BY <1>2, ConcatTells
<1> QED BY <1>3, <1>4, <1>5, <1>6 DEF Added, A, E

(* What two steps of the clock add to a history is what one adds. A right
   that is still in its window after the first has all of its expiry
   before it. *)
LEMMA AddedTwice ==
  ASSUME bundle \in Bundles, NEW t \in Tokens, NEW history \in Seq(TokenEvents),
         NEW g \in Nat, NEW h \in Nat, g <= h, g <= bundle.grant[t].expires
  PROVE  LET once == history \o Added(t, history, g) IN
           once \o Added(t, once, h) = history \o Added(t, history, h)
<1> DEFINE first == Added(t, history, g)
           once == history \o first
           E(k) == IF Expires(t, k, h) THEN Expiring(bundle.grant[t].expires) ELSE <<>>
           A(k) == IF Acquires(t, k, h) THEN Acquiring(bundle.grant[t].acquired) ELSE <<>>
<1>1. /\ first \in Seq(TokenEvents)
      /\ Tells(first, "ACQUIRED") <=> Acquires(t, history, g)
      /\ Tells(first, "EXPIRED") <=> Expires(t, history, g)
  BY AddedFacts
<1>2. ~Expires(t, history, g) /\ bundle.grant[t].acquired \in Nat
  <2>1. bundle.grant[t].expires \in Nat /\ bundle.grant[t].acquired \in Nat
    BY GrantTypes
  <2> QED BY <2>1 DEF Expires
<1>3. first = IF Acquires(t, history, g) THEN Acquiring(bundle.grant[t].acquired) ELSE <<>>
  <2> DEFINE B == IF Acquires(t, history, g) THEN Acquiring(bundle.grant[t].acquired) ELSE <<>>
  <2>1. B \in Seq(TokenEvents)
    BY GrantTypes, EventType DEF Acquiring, Kinds
  <2>2. first = B \o <<>>
    BY <1>2 DEF Added
  <2> HIDE DEF B, first
  <2>3. first = B
    BY <2>1, <2>2
  <2> QED BY <2>3 DEF B
<1>4. /\ Added(t, once, h) = A(once) \o E(once)
      /\ Added(t, history, h) = A(history) \o E(history)
  BY DEF Added
<1>5. \A k : E(k) \in Seq(TokenEvents) /\ A(k) \in Seq(TokenEvents)
  BY GrantTypes, EventType DEF Acquiring, Expiring, Kinds
<1> HIDE DEF first
<1>6. \A kind : Tells(once, kind) <=> Tells(history, kind) \/ Tells(first, kind)
  BY <1>1, ConcatTells
<1>7. E(once) = E(history)
  BY <1>1, <1>2, <1>6 DEF Expires
<1>8. once \o A(once) = history \o A(history)
  <2>1. CASE Acquires(t, history, g)
    <3>1. Tells(once, "ACQUIRED") /\ Acquires(t, history, h)
      BY <2>1, <1>1, <1>2, <1>6 DEF Acquires
    <3>2. A(once) = <<>> /\ A(history) = first
      BY <3>1, <2>1, <1>3 DEF Acquires
    <3>3. once \in Seq(TokenEvents)
      BY <1>1
    <3> HIDE DEF A
    <3>4. once \o A(once) = once
      BY <3>2, <3>3
    <3> QED BY <3>2, <3>4
  <2>2. CASE ~Acquires(t, history, g)
    <3>1. once = history
      BY <2>2, <1>3
    <3> QED BY <3>1
  <2> QED BY <2>1, <2>2
<1> HIDE DEF A, E
<1>9. once \in Seq(TokenEvents)
  BY <1>1
<1> HIDE DEF once
<1>10. (once \o A(once)) \o E(once) = once \o (A(once) \o E(once))
  BY <1>5, <1>9
<1>11. (history \o A(history)) \o E(history) = history \o (A(history) \o E(history))
  BY <1>5
<1>12. once \o Added(t, once, h) = history \o Added(t, history, h)
  BY <1>4, <1>7, <1>8, <1>10, <1>11, Zenon
<1> QED BY <1>12 DEF once, first

Becomes(state, status, history) == [state EXCEPT !.status = status, !.history = history]

(* The later of two changes of status and history prevails. *)
LEMMA BecomesFields ==
  ASSUME NEW state \in TokenStates, NEW status \in Statuses, NEW history \in Seq(TokenEvents)
  PROVE  /\ Becomes(state, status, history) \in TokenStates
         /\ Becomes(state, status, history).status = status
         /\ Becomes(state, status, history).history = history
         /\ \A next, longer :
              Becomes(Becomes(state, status, history), next, longer) = Becomes(state, next, longer)
BY DEF Becomes, TokenStates

(* Aging sets the status and extends the history, and changes nothing
   else. *)
LEMMA AgedFields ==
  ASSUME bundle \in Bundles, NEW t \in Tokens, NEW state \in TokenStates, NEW gameweek \in Nat
  PROVE  /\ Aged(bundle, t, state, gameweek) =
              Becomes(state, StatusAt(bundle, t, gameweek),
                      state.history \o Added(t, state.history, gameweek))
         /\ StatusAt(bundle, t, gameweek) \in Statuses
         /\ state.history \o Added(t, state.history, gameweek) \in Seq(TokenEvents)
         /\ Aged(bundle, t, state, gameweek) \in TokenStates
         /\ Aged(bundle, t, state, gameweek).status = StatusAt(bundle, t, gameweek)
<1> DEFINE A == IF Acquires(t, state.history, gameweek)
                THEN Acquiring(bundle.grant[t].acquired) ELSE <<>>
           E == IF Expires(t, state.history, gameweek)
                THEN Expiring(bundle.grant[t].expires) ELSE <<>>
           longer == state.history \o Added(t, state.history, gameweek)
<1>1. state.history \in Seq(TokenEvents)
  BY DEF TokenStates
<1>2. A \in Seq(TokenEvents) /\ E \in Seq(TokenEvents)
  BY GrantTypes, EventType DEF Acquiring, Expiring, Kinds
<1>3. Aged(bundle, t, state, gameweek) =
        [state EXCEPT !.status = StatusAt(bundle, t, gameweek), !.history = (@ \o A) \o E]
  BY DEF Aged, Acquires, Expires, Recorded, Tells, Acquiring, Expiring
<1>4. (state.history \o A) \o E = longer
  <2> HIDE DEF A, E
  <2> DEFINE k == state.history
  <2>2. k \in Seq(TokenEvents)
    BY <1>1
  <2> HIDE DEF k
  <2>1. (k \o A) \o E = k \o (A \o E)
    BY <1>2, <2>2
  <2> QED BY <2>1 DEF A, E, Added, k
<1> HIDE DEF A, E
<1>5. Aged(bundle, t, state, gameweek) =
        Becomes(state, StatusAt(bundle, t, gameweek), longer)
  BY <1>3, <1>4 DEF TokenStates, Becomes
<1>6. longer \in Seq(TokenEvents)
  BY <1>1, AddedFacts
<1>7. StatusAt(bundle, t, gameweek) \in Statuses
  BY DEF StatusAt, Statuses
<1> HIDE DEF longer
<1>8. /\ Aged(bundle, t, state, gameweek) \in TokenStates
      /\ Aged(bundle, t, state, gameweek).status = StatusAt(bundle, t, gameweek)
  BY <1>5, <1>6, <1>7, BecomesFields
<1> QED BY <1>5, <1>6, <1>7, <1>8 DEF longer

(* Ageing to one Gameweek and then, unless the right is gone, to another.  *)
LEMMA AgedTwice ==
  ASSUME bundle \in Bundles, NEW t \in Tokens, NEW state \in TokenStates,
         NEW g \in Nat, NEW h \in Nat, g <= h
  PROVE  Aged(bundle, t, state, h) =
           IF g > bundle.grant[t].expires THEN Aged(bundle, t, state, g)
           ELSE Aged(bundle, t, Aged(bundle, t, state, g), h)
<1> DEFINE x == Aged(bundle, t, state, g)
           y == Aged(bundle, t, state, h)
           once == state.history \o Added(t, state.history, g)
<1>1. state.history \in Seq(TokenEvents)
  BY DEF TokenStates
<1>2. /\ x = Becomes(state, StatusAt(bundle, t, g), once)
      /\ x \in TokenStates /\ StatusAt(bundle, t, g) \in Statuses /\ once \in Seq(TokenEvents)
      /\ y = Becomes(state, StatusAt(bundle, t, h),
                     state.history \o Added(t, state.history, h))
  BY AgedFields
<1>3. bundle.grant[t].acquired \in Nat /\ bundle.grant[t].expires \in Nat
      /\ bundle.grant[t].acquired <= bundle.grant[t].expires
  BY GrantOrder
<1> HIDE DEF x, y, once
<1>4. CASE g > bundle.grant[t].expires
  <2>1. h > bundle.grant[t].expires /\ g >= bundle.grant[t].acquired
        /\ h >= bundle.grant[t].acquired
    BY <1>3, <1>4
  <2>2. StatusAt(bundle, t, g) = StatusAt(bundle, t, h)
    BY <1>4, <2>1 DEF StatusAt
  <2>3. Added(t, state.history, g) = Added(t, state.history, h)
    BY <1>4, <2>1 DEF Added, Acquires, Expires
  <2> QED BY <1>2, <1>4, <2>2, <2>3 DEF x, y, once
<1>5. CASE ~(g > bundle.grant[t].expires)
  <2> DEFINE z == Aged(bundle, t, x, h)
             twice == x.history \o Added(t, x.history, h)
  <2>1. z = Becomes(x, StatusAt(bundle, t, h), twice)
    BY <1>2, AgedFields
  <2>2. x.history = once
    BY <1>2, BecomesFields
  <2>3. twice = state.history \o Added(t, state.history, h)
    <3>1. g <= bundle.grant[t].expires
      BY <1>3, <1>5
    <3>2. once \o Added(t, once, h) = state.history \o Added(t, state.history, h)
      BY <1>1, <3>1, AddedTwice DEF once
    <3> QED BY <2>2, <3>2
  <2> HIDE DEF z, twice
  <2>4. z = y
    BY <1>2, <2>1, <2>3, BecomesFields
  <2> QED BY <1>5, <2>4 DEF z, x, y
<1> QED BY <1>4, <1>5

(* A token advanced by way of a Gameweek is the token advanced at once. *)
LEMMA TokenComposes ==
  ASSUME TypeOK, NEW t \in Tokens, NEW g \in Gameweeks, NEW h \in Gameweeks,
         inventory.gameweek < g, g < h,
         NEW between, between.gameweek = g,
         between.token[t] = AdvancedToken(bundle, inventory, t, g)
  PROVE  AdvancedToken(bundle, between, t, h) = AdvancedToken(bundle, inventory, t, h)
<1> DEFINE s == inventory.token[t]
           d == Deselected(s, inventory.gameweek)
           x == between.token[t]
<1>1. bundle \in Bundles /\ s \in TokenStates /\ inventory.gameweek \in Nat \ {0}
      /\ g \in Nat /\ h \in Nat
  BY TokenFields, BoundsAssumption DEF TypeOK, token, Gameweeks
<1>2. d \in TokenStates /\ d.status # "PENDING_CANCELLABLE"
  <2>1. CASE s.status = "PENDING_CANCELLABLE"
    <3>1. d = [s EXCEPT !.status = "AVAILABLE", !.selected = None,
                 !.history = Append(s.history, Event("CANCELLED", inventory.gameweek))]
      BY <2>1, <1>1 DEF Deselected, TokenStates
    <3>2. Append(s.history, Event("CANCELLED", inventory.gameweek)) \in Seq(TokenEvents)
      BY <1>1, HistoryType DEF TokenStates, Kinds
    <3> DEFINE longer == Append(s.history, Event("CANCELLED", inventory.gameweek))
    <3>3. longer \in Seq(TokenEvents)
          /\ d = [s EXCEPT !.status = "AVAILABLE", !.selected = 0, !.history = longer]
      BY <3>1, <3>2 DEF None
    <3> HIDE DEF longer, d
    <3> QED BY <3>3, <1>1 DEF TokenStates, Statuses
  <2>2. CASE s.status # "PENDING_CANCELLABLE"
    BY <2>2, <1>1 DEF Deselected
  <2> QED BY <2>1, <2>2
<1> HIDE DEF s, d
<1>3. \A k \in Gameweeks : AdvancedToken(bundle, inventory, t, k) =
        IF d.status = "ACTIVE" THEN (IF k > d.until THEN Completed(d, k) ELSE d)
        ELSE IF d.status \in {"USED", "EXPIRED"} THEN d
        ELSE Aged(bundle, t, d, k)
  BY DEF AdvancedToken, s, d
<1>4. x.status # "PENDING_CANCELLABLE" =>
        AdvancedToken(bundle, between, t, h) =
        IF x.status = "ACTIVE" THEN (IF h > x.until THEN Completed(x, h) ELSE x)
        ELSE IF x.status \in {"USED", "EXPIRED"} THEN x
        ELSE Aged(bundle, t, x, h)
  BY DEF AdvancedToken, Deselected
<1>5. x = AdvancedToken(bundle, inventory, t, g)
  OBVIOUS
<1> HIDE DEF x
<1>6. CASE d.status = "ACTIVE"
  <2>1. CASE g > d.until
    <3>1. x = Completed(d, g) /\ h > d.until /\ d.until \in Nat
      BY <1>1, <1>2, <1>3, <1>5, <1>6, <2>1 DEF TokenStates
    <3>2. x.status = "USED" /\ Completed(d, h) = Completed(d, g)
      BY <3>1, <1>2 DEF Completed, TokenStates
    <3> QED BY <1>3, <1>4, <1>6, <3>1, <3>2
  <2>2. CASE ~(g > d.until)
    <3>1. x = d
      BY <1>3, <1>5, <1>6, <2>2
    <3> QED BY <3>1, <1>3, <1>4, <1>6
  <2> QED BY <2>1, <2>2
<1>7. CASE d.status \in {"USED", "EXPIRED"}
  <2>1. x = d
    BY <1>3, <1>5, <1>7
  <2> QED BY <2>1, <1>3, <1>4, <1>7
<1>8. CASE d.status \notin {"ACTIVE", "USED", "EXPIRED"}
  <2>1. x = Aged(bundle, t, d, g) /\ AdvancedToken(bundle, inventory, t, h) = Aged(bundle, t, d, h)
    BY <1>3, <1>5, <1>8
  <2>2. x.status = StatusAt(bundle, t, g)
    BY <2>1, <1>1, <1>2, AgedFields
  <2>3. AdvancedToken(bundle, between, t, h) =
          IF g > bundle.grant[t].expires THEN x ELSE Aged(bundle, t, x, h)
    BY <1>4, <2>2 DEF StatusAt
  <2>4. Aged(bundle, t, d, h) =
          IF g > bundle.grant[t].expires THEN Aged(bundle, t, d, g)
          ELSE Aged(bundle, t, Aged(bundle, t, d, g), h)
    <3>1. g <= h
      BY <1>1
    <3> QED BY <3>1, <1>1, <1>2, AgedTwice
  <2> QED BY <2>1, <2>3, <2>4
<1> QED BY <1>6, <1>7, <1>8

(* What an inventory becomes does not depend on the Gameweeks at which it  *)
(* was advanced on the way, so neither on how often it was saved.          *)
THEOREM AdvancesCompose == Spec => []AdvanceComposes
<1>1. TypeOK => AdvanceComposes
  <2> SUFFICES ASSUME TypeOK, NEW g \in Gameweeks, NEW h \in Gameweeks,
                      inventory.gameweek <= g, g <= h
               PROVE  Advanced(bundle, Advanced(bundle, inventory, g), h)
                        = Advanced(bundle, inventory, h)
    BY DEF AdvanceComposes
  <2> DEFINE between == Advanced(bundle, inventory, g)
  <2>1. inventory.gameweek \in Nat /\ g \in Nat /\ h \in Nat
    BY BoundsAssumption DEF TypeOK, Gameweeks
  <2>2. CASE inventory.gameweek = g
    BY <2>2 DEF Advanced
  <2>3. CASE inventory.gameweek < g
    <3>1. /\ between.gameweek = g
          /\ \A t \in Tokens : between.token[t] = AdvancedToken(bundle, inventory, t, g)
      BY <2>1, <2>3 DEF Advanced
    <3>2. CASE g = h
      BY <3>1, <3>2 DEF Advanced
    <3>3. CASE g < h
      <4> HIDE DEF between
      <4>1. \A t \in Tokens :
              AdvancedToken(bundle, between, t, h) = AdvancedToken(bundle, inventory, t, h)
        BY <2>3, <3>1, <3>3, TokenComposes
      <4>2. Advanced(bundle, between, h) =
              [gameweek |-> h, token |-> [t \in Tokens |-> AdvancedToken(bundle, between, t, h)]]
        BY <2>1, <3>1, <3>3 DEF Advanced
      <4>3. Advanced(bundle, inventory, h) =
              [gameweek |-> h, token |-> [t \in Tokens |-> AdvancedToken(bundle, inventory, t, h)]]
        BY <2>1, <2>3, <3>3 DEF Advanced
      <4> QED BY <4>1, <4>2, <4>3 DEF between
    <3> QED BY <2>1, <3>2, <3>3
  <2> QED BY <2>1, <2>2, <2>3
<1>2. ExerciseInvariant => TypeOK
  BY DEF ExerciseInvariant
<1> QED BY <1>1, <1>2, ExerciseHolds, PTL

=============================================================================
