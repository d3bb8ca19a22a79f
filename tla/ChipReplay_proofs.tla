--------------------------- MODULE ChipReplay_proofs ---------------------------
(***************************************************************************)
(* Proof that the verifier of chip inventories accepts what the functions  *)
(* produced, for every legal bundle and any number of tokens, Gameweeks    *)
(* and calls, if no two tokens were selected in one Gameweek.              *)
(*                                                                         *)
(* The argument does not run the calls again in another order.  First, a   *)
(* token is what its history makes of it (AsTold): the commands in it tell *)
(* its state, and with the clock when each of its other events fell due.   *)
(* Then a replay of the earlier commands finds each token as a part of its *)
(* history made it (Retold), and what the next command has to ask of the   *)
(* other tokens follows from what is known of the final inventory: whoever *)
(* is in force now and then was in force there too.                        *)
(***************************************************************************)
EXTENDS ChipReplay, ChipInventory_proofs, WellFoundedInduction

(* What a bundle demands of a Gameweek in which a token is used.           *)
Usable(b, t, gameweek) ==
  /\ b.grant[t].ready
  /\ InWindow(b, t, gameweek)
  /\ gameweek \notin b.grant[t].excluded

(* What follows what in the history of a token: it is acquired, selected   *)
(* and cancelled any number of times, and in the end activated and         *)
(* completed, or expired.                                                  *)
Waiting == {"ACQUIRED", "CANCELLED"}

Follows(b, t, before, after) ==
  LET g == b.grant[t] IN
    /\ before.gameweek <= after.gameweek
    /\ \/ /\ before.event \in Waiting
          /\ after.event = "SELECTED" /\ g.cancellable /\ Usable(b, t, after.gameweek)
       \/ /\ before.event \in Waiting
          /\ after.event = "ACTIVATED" /\ Usable(b, t, after.gameweek)
       \/ /\ before.event \in Waiting
          /\ after = Event("EXPIRED", g.expires)
       \/ /\ before.event = "SELECTED" /\ g.cancellable /\ Usable(b, t, before.gameweek)
          /\ after \in {Event("CANCELLED", before.gameweek), Event("ACTIVATED", before.gameweek)}
       \/ /\ before.event = "ACTIVATED"
          /\ after = Event("COMPLETED", before.gameweek + g.duration - 1)

Story(b, t, h) ==
  /\ h \in Seq(TokenEvents)
  /\ h # <<>> => h[1] = Event("ACQUIRED", b.grant[t].acquired)
  /\ \A i \in DOMAIN h : i > 1 => Follows(b, t, h[i - 1], h[i])

(* The token that n events of a history make, as of a Gameweek.            *)
Ending(h, n) == IF n = 0 THEN "NOTHING" ELSE h[n].event

UseFrom(h, n) ==
  IF Ending(h, n) = "ACTIVATED" THEN h[n].gameweek
  ELSE IF Ending(h, n) = "COMPLETED" THEN h[n - 1].gameweek
  ELSE None

Image(b, t, h, n, gameweek) ==
  LET k == Ending(h, n)  from == UseFrom(h, n) IN
    [ status |-> IF k = "SELECTED" THEN "PENDING_CANCELLABLE"
                 ELSE IF k = "ACTIVATED" THEN "ACTIVE"
                 ELSE IF k = "COMPLETED" THEN "USED"
                 ELSE StatusAt(b, t, gameweek),
      selected |-> IF k = "SELECTED" THEN h[n].gameweek ELSE from,
      from |-> from,
      until |-> IF from = None THEN None ELSE from + b.grant[t].duration - 1,
      used |-> IF k = "COMPLETED" THEN h[n].gameweek ELSE None,
      history |-> SubSeq(h, 1, n) ]

(* The first n events have happened by a Gameweek, and nothing that the    *)
(* clock alone brings is missing.                                          *)
UpToDate(b, t, h, n, gameweek) ==
  LET k == Ending(h, n)  g == b.grant[t] IN
    /\ k = "NOTHING" => gameweek < g.acquired
    /\ k # "NOTHING" => h[n].gameweek <= gameweek
    /\ k \in Waiting => gameweek <= g.expires
    /\ k = "SELECTED" => h[n].gameweek = gameweek
    /\ k = "ACTIVATED" => gameweek <= h[n].gameweek + g.duration - 1
    /\ k \in {"COMPLETED", "EXPIRED"} => h[n].gameweek < gameweek

(* A token is what its history makes of it.                                *)
AsTold(t) ==
  LET h == token[t].history  now == inventory.gameweek IN
    /\ Story(bundle, t, h)
    /\ UpToDate(bundle, t, h, Len(h), now)
    /\ token[t] = Image(bundle, t, h, Len(h), now)

-----------------------------------------------------------------------------
(* One event more.                                                         *)

(* What Legal says of one token.                                           *)
LEMMA GrantFacts ==
  ASSUME NEW b \in Bundles, NEW t \in Tokens
  PROVE  /\ b.grant[t].duration \in Nat \ {0} /\ b.grant[t].gap \in Nat
         /\ b.grant[t].acquired \in Nat \ {0} /\ b.grant[t].start \in Nat \ {0}
         /\ b.grant[t].end \in Nat \ {0} /\ b.grant[t].expires \in Nat \ {0}
         /\ b.grant[t].acquired <= b.grant[t].start
         /\ b.grant[t].start <= b.grant[t].end
         /\ b.grant[t].end <= b.grant[t].expires
<1>1. Legal(b)
  BY BundlesAssumption
<1>2. b.grant[t] \in Grants
  BY <1>1 DEF Legal
<1> QED
  BY <1>1, <1>2 DEF Legal, Grants

(* The fields of an event.                                                 *)
LEMMA EventFields ==
  ASSUME NEW kind, NEW gameweek
  PROVE  Event(kind, gameweek).event = kind /\ Event(kind, gameweek).gameweek = gameweek
BY DEF Event

(* An event of a history.                                                  *)
LEMMA EventOf ==
  ASSUME NEW h \in Seq(TokenEvents), NEW i \in DOMAIN h
  PROVE  /\ h[i] \in TokenEvents /\ h[i].gameweek \in Nat \ {0} /\ h[i].event \in Kinds
         /\ h[i] = Event(h[i].event, h[i].gameweek)
         /\ i \in Nat /\ DOMAIN h = 1..Len(h) /\ Len(h) \in Nat
<1>1. h[i] \in TokenEvents
  OBVIOUS
<1>2. h[i].gameweek \in Nat \ {0} /\ h[i].event \in Kinds
  BY <1>1 DEF TokenEvents
<1>3. h[i] = Event(h[i].event, h[i].gameweek)
  BY <1>1 DEF TokenEvents, Event
<1> QED
  BY <1>1, <1>2, <1>3

(* A longer part of a history.                                             *)
LEMMA OneMore ==
  ASSUME NEW h \in Seq(TokenEvents), NEW n \in Nat, n + 1 \in DOMAIN h
  PROVE  /\ SubSeq(h, 1, n + 1) = Append(SubSeq(h, 1, n), h[n + 1])
         /\ SubSeq(h, 1, n) \in Seq(TokenEvents) /\ Len(SubSeq(h, 1, n)) = n
         /\ \A i \in 1..n : SubSeq(h, 1, n)[i] = h[i]
<1>1. n \in 0..Len(h) /\ n + 1 \in 1..Len(h)
  OBVIOUS
<1>2. SubSeq(h, 1, n) \in Seq(TokenEvents) /\ Len(SubSeq(h, 1, n)) = n
      /\ \A i \in 1..n : SubSeq(h, 1, n)[i] = h[i]
  BY <1>1
<1>3. SubSeq(h, 1, n + 1) \in Seq(TokenEvents) /\ Len(SubSeq(h, 1, n + 1)) = n + 1
      /\ \A i \in 1..(n + 1) : SubSeq(h, 1, n + 1)[i] = h[i]
  BY <1>1
<1> DEFINE short == SubSeq(h, 1, n)
           long == SubSeq(h, 1, n + 1)
           app == Append(short, h[n + 1])
<1>4. app \in Seq(TokenEvents) /\ Len(app) = n + 1 /\ \A i \in 1..(n + 1) : app[i] = h[i]
  <2> HIDE DEF short
  <2>1. h[n + 1] \in TokenEvents
    BY <1>1
  <2>2. short \in Seq(TokenEvents) /\ Len(short) = n /\ \A i \in 1..n : short[i] = h[i]
    BY <1>2 DEF short
  <2> QED BY <2>1, <2>2
<1>5. long = app
  <2> HIDE DEF long, app
  <2>1. long \in Seq(TokenEvents) /\ Len(long) = n + 1 /\ \A i \in 1..(n + 1) : long[i] = h[i]
    BY <1>3 DEF long
  <2>2. \A i \in 1..Len(long) : long[i] = app[i]
    BY <1>4, <2>1
  <2> QED BY <1>4, <2>1, <2>2, SeqEqual
<1> QED
  BY <1>2, <1>5

(* Two histories with the same beginning make the same token of it.        *)
LEMMA SameBeginning ==
  ASSUME NEW b, NEW t, NEW h \in Seq(TokenEvents), NEW k \in Seq(TokenEvents), NEW n \in Nat,
         n <= Len(h), n <= Len(k), \A i \in 1..n : h[i] = k[i],
         n > 0 => h[1].event = "ACQUIRED", NEW gameweek
  PROVE  /\ Image(b, t, h, n, gameweek) = Image(b, t, k, n, gameweek)
         /\ UpToDate(b, t, h, n, gameweek) <=> UpToDate(b, t, k, n, gameweek)
<1>1. SubSeq(h, 1, n) = SubSeq(k, 1, n)
  <2>1. /\ SubSeq(h, 1, n) \in Seq(TokenEvents) /\ Len(SubSeq(h, 1, n)) = n
        /\ SubSeq(k, 1, n) \in Seq(TokenEvents) /\ Len(SubSeq(k, 1, n)) = n
        /\ \A i \in 1..n : SubSeq(h, 1, n)[i] = SubSeq(k, 1, n)[i]
    OBVIOUS
  <2> QED BY <2>1, SeqEqual
<1>2. Ending(h, n) = Ending(k, n) /\ (Ending(h, n) # "NOTHING" /\ n # 0 => h[n] = k[n])
  BY DEF Ending
<1>3. CASE n = 0
  BY <1>1, <1>3 DEF Image, UpToDate, UseFrom, Ending, Waiting
<1>4. CASE n = 1
  <2>1. h[1] = k[1]
    BY <1>4
  <2>2. UseFrom(h, n) = UseFrom(k, n)
    BY <1>4, <2>1 DEF UseFrom, Ending
  <2> QED BY <1>1, <1>2, <1>4, <2>1, <2>2 DEF Image, UpToDate
<1>5. CASE n > 1
  <2>1. h[n] = k[n] /\ h[n - 1] = k[n - 1]
    BY <1>5
  <2>2. UseFrom(h, n) = UseFrom(k, n)
    BY <1>5, <2>1 DEF UseFrom, Ending
  <2> QED BY <1>1, <1>2, <2>1, <2>2 DEF Image, UpToDate
<1> QED
  BY <1>3, <1>4, <1>5

(* Tokens with the same fields are the same.                               *)
LEMMA SameFields ==
  ASSUME NEW r \in TokenStates, NEW s \in TokenStates,
         r.status = s.status, r.selected = s.selected, r.from = s.from,
         r.until = s.until, r.used = s.used, r.history = s.history
  PROVE  r = s
BY DEF TokenStates

(* What the functions do to a token: select or cancel it, and use it.      *)
Chosen(s, status, gameweek, e) ==
  [s EXCEPT !.status = status, !.selected = gameweek, !.history = Append(@, e)]

Taken(s, gameweek, until, e) ==
  [s EXCEPT !.status = "ACTIVE", !.selected = IF @ = None THEN gameweek ELSE @,
            !.from = gameweek, !.until = until, !.history = Append(@, e)]

(* The fields of a token that was selected or cancelled.                   *)
LEMMA ChoiceFields ==
  ASSUME NEW s \in TokenStates, NEW e \in TokenEvents, NEW st \in Statuses, NEW se \in Nat
  PROVE  LET r == Chosen(s, st, se, e) IN
           /\ r \in TokenStates /\ r.status = st /\ r.selected = se
           /\ r.history = Append(s.history, e)
           /\ r.from = s.from /\ r.until = s.until /\ r.used = s.used
<1> DEFINE longer == Append(s.history, e)
<1>1. s.history \in Seq(TokenEvents)
  BY DEF TokenStates
<1>2. longer \in Seq(TokenEvents)
  BY <1>1
<1> HIDE DEF longer
<1>3. [s EXCEPT !.status = st, !.selected = se, !.history = longer] \in TokenStates
  BY <1>2 DEF TokenStates
<1>4. LET r == [s EXCEPT !.status = st, !.selected = se, !.history = longer] IN
        /\ r.status = st /\ r.selected = se /\ r.history = longer
        /\ r.from = s.from /\ r.until = s.until /\ r.used = s.used
  BY <1>2 DEF TokenStates
<1> QED BY <1>3, <1>4 DEF longer, Chosen

(* ... or activated ...                                                    *)
LEMMA UseFields ==
  ASSUME NEW s \in TokenStates, NEW e \in TokenEvents, NEW g \in Nat, NEW until \in Nat
  PROVE  LET r == Taken(s, g, until, e) IN
           /\ r \in TokenStates /\ r.status = "ACTIVE"
           /\ r.selected = IF s.selected = None THEN g ELSE s.selected
           /\ r.history = Append(s.history, e)
           /\ r.from = g /\ r.until = until /\ r.used = s.used
<1> DEFINE longer == Append(s.history, e)
           se == IF s.selected = None THEN g ELSE s.selected
           r == [s EXCEPT !.status = "ACTIVE", !.selected = se, !.from = g, !.until = until,
                          !.history = longer]
<1>1. s.history \in Seq(TokenEvents)
  BY DEF TokenStates
<1>2. longer \in Seq(TokenEvents)
  BY <1>1
<1>3. se \in Nat
  BY DEF TokenStates
<1> HIDE DEF longer, se
<1>4. r \in TokenStates
  BY <1>2, <1>3 DEF TokenStates, Statuses
<1>5. /\ r.status = "ACTIVE" /\ r.selected = se /\ r.history = longer
      /\ r.from = g /\ r.until = until /\ r.used = s.used
  BY <1>2, <1>3 DEF TokenStates
<1> QED BY <1>4, <1>5 DEF longer, se, Taken

(* ... or whose use was completed.                                         *)
LEMMA CompletedFields ==
  ASSUME NEW s \in TokenStates, NEW gameweek, s.until \in Nat \ {0}
  PROVE  LET r == Completed(s, gameweek) IN
           /\ r \in TokenStates /\ r.status = "USED" /\ r.selected = s.selected
           /\ r.history = Append(s.history, Event("COMPLETED", s.until))
           /\ r.from = s.from /\ r.until = s.until /\ r.used = s.until
<1> DEFINE e == Event("COMPLETED", s.until)
           longer == Append(s.history, e)
           r == [s EXCEPT !.status = "USED", !.used = s.until, !.history = longer]
<1>0. r = Completed(s, gameweek)
  BY DEF Completed
<1>1. s.history \in Seq(TokenEvents) /\ e \in TokenEvents
  BY EventType DEF TokenStates, Kinds
<1> HIDE DEF e
<1>2. longer \in Seq(TokenEvents)
  BY <1>1
<1> HIDE DEF longer
<1>3. r \in TokenStates
  BY <1>2 DEF TokenStates, Statuses
<1>4. /\ r.status = "USED" /\ r.history = longer /\ r.selected = s.selected
      /\ r.from = s.from /\ r.until = s.until /\ r.used = s.until
  BY <1>2 DEF TokenStates
<1> QED BY <1>0, <1>3, <1>4 DEF longer, e

(* The fields of the token that a part of a history makes.                 *)
LEMMA ImageFields ==
  ASSUME NEW b \in Bundles, NEW t \in Tokens, NEW h, Story(b, t, h), NEW n \in 0..Len(h),
         NEW gameweek
  PROVE  LET r == Image(b, t, h, n, gameweek)  k == Ending(h, n)  from == UseFrom(h, n) IN
           /\ r \in TokenStates
           /\ r.status = IF k = "SELECTED" THEN "PENDING_CANCELLABLE"
                         ELSE IF k = "ACTIVATED" THEN "ACTIVE"
                         ELSE IF k = "COMPLETED" THEN "USED"
                         ELSE StatusAt(b, t, gameweek)
           /\ r.selected = IF k = "SELECTED" THEN h[n].gameweek ELSE from
           /\ r.from = from
           /\ r.until = IF from = None THEN None ELSE from + b.grant[t].duration - 1
           /\ r.used = IF k = "COMPLETED" THEN h[n].gameweek ELSE None
           /\ r.history = SubSeq(h, 1, n)
           /\ from \in Nat
<1> DEFINE past == SubSeq(h, 1, n)
           k == Ending(h, n)
           from == UseFrom(h, n)
           at == IF k = "SELECTED" \/ k = "COMPLETED" THEN h[n].gameweek ELSE 1
           st == IF k = "SELECTED" THEN "PENDING_CANCELLABLE"
                 ELSE IF k = "ACTIVATED" THEN "ACTIVE"
                 ELSE IF k = "COMPLETED" THEN "USED"
                 ELSE StatusAt(b, t, gameweek)
           until == IF from = None THEN None ELSE from + b.grant[t].duration - 1
<1>1. h \in Seq(TokenEvents) /\ (n > 0 => h[1].event = "ACQUIRED")
  BY EventFields DEF Story
<1>2. past \in Seq(TokenEvents)
  BY <1>1
<1>3. \A i \in 1..Len(h) : h[i].gameweek \in Nat \ {0}
  BY <1>1, EventOf
<1>4. from \in Nat /\ at \in Nat
  BY <1>1, <1>3 DEF UseFrom, Ending, None
<1>5. st \in Statuses
  BY DEF StatusAt, Statuses
<1>6. until \in Nat
  BY <1>4, GrantFacts DEF None
<1>7. Image(b, t, h, n, gameweek) =
        [ status |-> st, selected |-> IF k = "SELECTED" THEN at ELSE from, from |-> from,
          until |-> until, used |-> IF k = "COMPLETED" THEN at ELSE None, history |-> past ]
  BY DEF Image
<1> HIDE DEF past, k, from, at, st, until
<1>8. /\ [ status |-> st, selected |-> IF k = "SELECTED" THEN at ELSE from, from |-> from,
           until |-> until, used |-> IF k = "COMPLETED" THEN at ELSE None, history |-> past ]
           \in TokenStates
  BY <1>2, <1>4, <1>5, <1>6 DEF TokenStates, None
<1>9. LET r == Image(b, t, h, n, gameweek) IN
        /\ r \in TokenStates /\ r.status = st
        /\ r.selected = (IF k = "SELECTED" THEN at ELSE from) /\ r.from = from
        /\ r.until = until /\ r.used = (IF k = "COMPLETED" THEN at ELSE None)
        /\ r.history = past
  BY <1>7, <1>8
<1> QED BY <1>4, <1>9 DEF past, k, from, at, st, until

(* select_token makes a token what one event more makes of it ...          *)
LEMMA SelectStep ==
  ASSUME NEW b \in Bundles, NEW t \in Tokens, NEW h, Story(b, t, h), NEW n \in Nat,
         n + 1 \in 1..Len(h), NEW g \in Nat \ {0}, Ending(h, n) \in Waiting,
         h[n + 1] = Event("SELECTED", g)
  PROVE  LET s == Image(b, t, h, n, g) IN
           /\ Chosen(s, "PENDING_CANCELLABLE", g, Event("SELECTED", g)) = Image(b, t, h, n + 1, g)
           /\ UpToDate(b, t, h, n + 1, g)
<1> DEFINE s == Image(b, t, h, n, g)
           r == Image(b, t, h, n + 1, g)
           e == Event("SELECTED", g)
           c == Chosen(s, "PENDING_CANCELLABLE", g, e)
<1>1. Ending(h, n + 1) = "SELECTED" /\ h[n + 1].gameweek = g
  BY EventFields DEF Ending
<1>2. UseFrom(h, n) = None /\ UseFrom(h, n + 1) = None
  BY <1>1 DEF UseFrom, Waiting
<1>3. h \in Seq(TokenEvents) /\ n \in 0..Len(h) /\ n + 1 \in 0..Len(h)
  BY DEF Story
<1>4. SubSeq(h, 1, n + 1) = Append(SubSeq(h, 1, n), e)
  BY <1>3, OneMore
<1>5. UpToDate(b, t, h, n + 1, g)
  BY <1>1 DEF UpToDate, Waiting
<1>6. e \in TokenEvents /\ g \in Nat /\ "PENDING_CANCELLABLE" \in Statuses
  BY EventType DEF Kinds, Statuses
<1>7. /\ s \in TokenStates /\ s.from = None /\ s.until = None /\ s.used = None
      /\ s.history = SubSeq(h, 1, n)
  BY <1>2, <1>3, ImageFields DEF Waiting
<1>8. /\ r \in TokenStates /\ r.status = "PENDING_CANCELLABLE" /\ r.selected = g
      /\ r.from = None /\ r.until = None /\ r.used = None /\ r.history = SubSeq(h, 1, n + 1)
  BY <1>1, <1>2, <1>3, ImageFields
<1>9. c = r
  <2> HIDE DEF s, r, e
  <2>1. /\ c \in TokenStates /\ c.status = "PENDING_CANCELLABLE" /\ c.selected = g
        /\ c.history = Append(s.history, e)
        /\ c.from = s.from /\ c.until = s.until /\ c.used = s.used
    BY <1>6, <1>7, ChoiceFields
  <2> HIDE DEF c
  <2> QED BY <1>4, <1>7, <1>8, <2>1, SameFields
<1> QED
  BY <1>5, <1>9

(* ... and so does cancel_token, in the Gameweek of the selection ...      *)
LEMMA CancelStep ==
  ASSUME NEW b \in Bundles, NEW t \in Tokens, NEW h, Story(b, t, h), NEW n \in Nat,
         n + 1 \in 1..Len(h), NEW g \in Nat \ {0}, Ending(h, n) = "SELECTED",
         h[n + 1] = Event("CANCELLED", g), InWindow(b, t, g)
  PROVE  LET s == Image(b, t, h, n, g) IN
           /\ Chosen(s, "AVAILABLE", None, Event("CANCELLED", g)) = Image(b, t, h, n + 1, g)
           /\ UpToDate(b, t, h, n + 1, g)
<1> DEFINE s == Image(b, t, h, n, g)
           r == Image(b, t, h, n + 1, g)
           e == Event("CANCELLED", g)
           c == Chosen(s, "AVAILABLE", None, e)
<1>1. Ending(h, n + 1) = "CANCELLED" /\ h[n + 1].gameweek = g
  BY EventFields DEF Ending
<1>2. UseFrom(h, n) = None /\ UseFrom(h, n + 1) = None
  BY <1>1 DEF UseFrom
<1>3. h \in Seq(TokenEvents) /\ n \in 0..Len(h) /\ n + 1 \in 0..Len(h)
  BY DEF Story
<1>4. SubSeq(h, 1, n + 1) = Append(SubSeq(h, 1, n), e)
  BY <1>3, OneMore
<1>10. g <= b.grant[t].expires
  BY GrantFacts DEF InWindow
<1>5. UpToDate(b, t, h, n + 1, g)
  BY <1>1, <1>10 DEF UpToDate, Waiting
<1>11. StatusAt(b, t, g) = "AVAILABLE"
  BY <1>10, GrantFacts DEF StatusAt
<1>6. e \in TokenEvents /\ None \in Nat /\ "AVAILABLE" \in Statuses
  BY EventType DEF Kinds, Statuses, None
<1>7. /\ s \in TokenStates /\ s.from = None /\ s.until = None /\ s.used = None
      /\ s.history = SubSeq(h, 1, n)
  BY <1>2, <1>3, ImageFields
<1>8. /\ r \in TokenStates /\ r.status = "AVAILABLE" /\ r.selected = None
      /\ r.from = None /\ r.until = None /\ r.used = None /\ r.history = SubSeq(h, 1, n + 1)
  BY <1>1, <1>2, <1>3, <1>11, ImageFields
<1>9. c = r
  <2> HIDE DEF s, r, e
  <2>1. /\ c \in TokenStates /\ c.status = "AVAILABLE" /\ c.selected = None
        /\ c.history = Append(s.history, e)
        /\ c.from = s.from /\ c.until = s.until /\ c.used = s.used
    <3>1. s \in TokenStates
      BY <1>7
    <3> QED BY ONLY <1>6, <3>1, ChoiceFields
  <2> HIDE DEF c
  <2> QED BY <1>4, <1>7, <1>8, <2>1, SameFields
<1> QED
  BY <1>5, <1>9

(* ... and activate_token.                                                 *)
LEMMA ActivateStep ==
  ASSUME NEW b \in Bundles, NEW t \in Tokens, NEW h, Story(b, t, h), NEW n \in Nat,
         n + 1 \in 1..Len(h), NEW g \in Nat \ {0},
         \/ Ending(h, n) \in Waiting
         \/ Ending(h, n) = "SELECTED" /\ h[n].gameweek = g,
         h[n + 1] = Event("ACTIVATED", g)
  PROVE  LET s == Image(b, t, h, n, g) IN
           /\ Taken(s, g, g + b.grant[t].duration - 1, Event("ACTIVATED", g))
                = Image(b, t, h, n + 1, g)
           /\ UpToDate(b, t, h, n + 1, g)
<1> DEFINE s == Image(b, t, h, n, g)
           r == Image(b, t, h, n + 1, g)
           e == Event("ACTIVATED", g)
           until == g + b.grant[t].duration - 1
           c == Taken(s, g, until, e)
<1>1. Ending(h, n + 1) = "ACTIVATED" /\ h[n + 1].gameweek = g
  BY EventFields DEF Ending
<1>2. UseFrom(h, n) = None /\ UseFrom(h, n + 1) = g /\ g # None
  BY <1>1 DEF UseFrom, Waiting, None
<1>3. h \in Seq(TokenEvents) /\ n \in 0..Len(h) /\ n + 1 \in 0..Len(h)
  BY DEF Story
<1>4. SubSeq(h, 1, n + 1) = Append(SubSeq(h, 1, n), e)
  BY <1>3, OneMore
<1>5. UpToDate(b, t, h, n + 1, g)
  BY <1>1, GrantFacts DEF UpToDate, Waiting
<1>6. e \in TokenEvents /\ g \in Nat /\ until \in Nat
  BY EventType, GrantFacts DEF Kinds
<1>7. /\ s \in TokenStates /\ s.used = None /\ s.selected \in {None, g}
      /\ s.history = SubSeq(h, 1, n)
  BY <1>2, <1>3, ImageFields DEF Waiting
<1>8. /\ r \in TokenStates /\ r.status = "ACTIVE" /\ r.selected = g
      /\ r.from = g /\ r.until = until /\ r.used = None /\ r.history = SubSeq(h, 1, n + 1)
  BY <1>1, <1>2, <1>3, ImageFields
<1>9. c = r
  <2> HIDE DEF s, r, e, until
  <2>1. /\ c \in TokenStates /\ c.status = "ACTIVE"
        /\ c.selected = (IF s.selected = None THEN g ELSE s.selected)
        /\ c.history = Append(s.history, e)
        /\ c.from = g /\ c.until = until /\ c.used = s.used
    <3>1. s \in TokenStates
      BY <1>7
    <3> QED BY ONLY <1>6, <3>1, UseFields
  <2> HIDE DEF c
  <2>2. c.selected = g
    BY <1>7, <2>1
  <2> QED BY <1>4, <1>7, <1>8, <2>1, <2>2, SameFields
<1> QED
  BY <1>5, <1>9

(* The end of a use does too.                                              *)
LEMMA CompleteStep ==
  ASSUME NEW b \in Bundles, NEW t \in Tokens, NEW h, Story(b, t, h), NEW n \in 1..Len(h),
         n + 1 \in 1..Len(h), NEW g, NEW next \in Nat \ {0}, Ending(h, n) = "ACTIVATED",
         h[n + 1] = Event("COMPLETED", h[n].gameweek + b.grant[t].duration - 1),
         h[n].gameweek + b.grant[t].duration - 1 < next
  PROVE  /\ Completed(Image(b, t, h, n, g), next) = Image(b, t, h, n + 1, next)
         /\ UpToDate(b, t, h, n + 1, next)
<1> DEFINE s == Image(b, t, h, n, g)
           r == Image(b, t, h, n + 1, next)
           f == h[n].gameweek
           until == f + b.grant[t].duration - 1
           c == Completed(s, next)
<1>1. h \in Seq(TokenEvents) /\ n \in 0..Len(h) /\ n + 1 \in 0..Len(h)
  BY DEF Story
<1>2. f \in Nat \ {0} /\ until \in Nat \ {0} /\ f # None /\ until < next
  <2>1. n \in DOMAIN h
    BY <1>1
  <2>2. f \in Nat \ {0}
    BY <1>1, <2>1, EventOf
  <2>3. f + b.grant[t].duration - 1 < next
    OBVIOUS
  <2> DEFINE d == b.grant[t].duration
  <2>4. d \in Nat \ {0} /\ f + d - 1 < next
    BY <2>3, GrantFacts
  <2> HIDE DEF f, d
  <2>5. f + d - 1 \in Nat \ {0}
    BY <2>2, <2>4
  <2> QED BY <2>2, <2>4, <2>5 DEF None, d
<1>3. Ending(h, n + 1) = "COMPLETED" /\ h[n + 1].gameweek = until
  BY EventFields DEF Ending
<1>4. UseFrom(h, n) = f /\ UseFrom(h, n + 1) = f
  BY <1>3 DEF UseFrom
<1>5. SubSeq(h, 1, n + 1) = Append(SubSeq(h, 1, n), Event("COMPLETED", until))
  BY <1>1, OneMore
<1>6. UpToDate(b, t, h, n + 1, next)
  BY <1>2, <1>3 DEF UpToDate, Waiting
<1>7. /\ s \in TokenStates /\ s.selected = f /\ s.from = f /\ s.until = until
      /\ s.history = SubSeq(h, 1, n)
  BY <1>1, <1>2, <1>4, ImageFields
<1>8. /\ r \in TokenStates /\ r.status = "USED" /\ r.selected = f
      /\ r.from = f /\ r.until = until /\ r.used = until /\ r.history = SubSeq(h, 1, n + 1)
  BY <1>1, <1>2, <1>3, <1>4, ImageFields
<1>9. c = r
  <2> HIDE DEF s, r, f, until
  <2>1. /\ c \in TokenStates /\ c.status = "USED" /\ c.selected = s.selected
        /\ c.history = Append(s.history, Event("COMPLETED", s.until))
        /\ c.from = s.from /\ c.until = s.until /\ c.used = s.until
    BY <1>2, <1>7, CompletedFields
  <2> HIDE DEF c
  <2> QED BY <1>5, <1>7, <1>8, <2>1, SameFields
<1> QED
  BY <1>6, <1>9

-----------------------------------------------------------------------------
(* The clock.                                                              *)

(* What a history may hold at a place.                                     *)
LEMMA StoryFacts ==
  ASSUME NEW b \in Bundles, NEW t \in Tokens, NEW h, Story(b, t, h), NEW i \in 1..Len(h)
  PROVE  /\ h \in Seq(TokenEvents) /\ Len(h) \in Nat /\ i \in DOMAIN h
         /\ h[i].event \in Kinds /\ h[i].gameweek \in Nat \ {0}
         /\ h[i] = Event(h[i].event, h[i].gameweek)
         /\ h[1] = Event("ACQUIRED", b.grant[t].acquired)
         /\ h[i].event = "ACQUIRED" <=> i = 1
         /\ i > 1 => Follows(b, t, h[i - 1], h[i]) /\ i - 1 \in 1..Len(h)
         /\ i < Len(h) => Follows(b, t, h[i], h[i + 1]) /\ i + 1 \in 1..Len(h)
<1>1. h \in Seq(TokenEvents) /\ Len(h) \in Nat /\ i \in DOMAIN h
  BY DEF Story
<1>2. h[i].event \in Kinds /\ h[i].gameweek \in Nat \ {0} /\ h[i] = Event(h[i].event, h[i].gameweek)
  BY <1>1, EventOf
<1>3. h # <<>>
  BY <1>1
<1>4. h[1] = Event("ACQUIRED", b.grant[t].acquired) /\ h[1].event = "ACQUIRED"
  BY <1>3, EventFields DEF Story
<1>5. i > 1 => Follows(b, t, h[i - 1], h[i]) /\ i - 1 \in 1..Len(h)
  BY <1>1 DEF Story
<1>6. i > 1 => h[i].event # "ACQUIRED"
  BY <1>5, EventFields DEF Follows
<1>7. i < Len(h) => Follows(b, t, h[i], h[i + 1]) /\ i + 1 \in 1..Len(h)
  <2> SUFFICES ASSUME i < Len(h) PROVE Follows(b, t, h[i], h[i + 1]) /\ i + 1 \in 1..Len(h)
    OBVIOUS
  <2>1. i + 1 \in DOMAIN h /\ i + 1 > 1 /\ (i + 1) - 1 = i
    BY <1>1
  <2>2. Follows(b, t, h[(i + 1) - 1], h[i + 1])
    BY <2>1 DEF Story
  <2> QED BY <1>1, <2>1, <2>2
<1> QED
  BY <1>1, <1>2, <1>4, <1>5, <1>6, <1>7

(* What follows an event, by its kind.                                     *)
LEMMA FollowsFacts ==
  ASSUME NEW b, NEW t, NEW e, NEW f, Follows(b, t, e, f)
  PROVE  /\ e.gameweek <= f.gameweek
         /\ e.event \notin {"COMPLETED", "EXPIRED"}
         /\ e.event \in Waiting =>
              \/ f.event \in {"SELECTED", "ACTIVATED"} /\ Usable(b, t, f.gameweek)
              \/ f = Event("EXPIRED", b.grant[t].expires) /\ f.event = "EXPIRED"
                 /\ f.gameweek = b.grant[t].expires
         /\ e.event = "SELECTED" =>
              /\ f.event \in {"CANCELLED", "ACTIVATED"} /\ f.gameweek = e.gameweek
              /\ b.grant[t].cancellable /\ Usable(b, t, e.gameweek)
         /\ e.event = "ACTIVATED" =>
              /\ f = Event("COMPLETED", e.gameweek + b.grant[t].duration - 1)
              /\ f.event = "COMPLETED"
              /\ f.gameweek = e.gameweek + b.grant[t].duration - 1
         /\ f.event = "SELECTED" =>
              e.event \in Waiting /\ b.grant[t].cancellable /\ Usable(b, t, f.gameweek)
         /\ f.event = "CANCELLED" => e.event = "SELECTED"
         /\ f.event = "ACTIVATED" =>
              \/ e.event \in Waiting /\ Usable(b, t, f.gameweek)
              \/ e.event = "SELECTED" /\ f.gameweek = e.gameweek
         /\ f.event = "EXPIRED" => e.event \in Waiting /\ f.gameweek = b.grant[t].expires
         /\ f.event = "COMPLETED" => e.event = "ACTIVATED"
BY EventFields DEF Follows, Waiting

(* advance_inventory for a token that is not pending.                      *)
Grown(b, t, s, gameweek) ==
  CASE s.status = "ACTIVE" -> IF gameweek > s.until THEN Completed(s, gameweek) ELSE s
    [] s.status \in {"USED", "EXPIRED"} -> s
    [] OTHER -> Aged(b, t, s, gameweek)

(* What the clock adds to the part of a history: none of its commands, and *)
(* all that falls due.                                                     *)
Due(b, t, h, n, m, gameweek) ==
  /\ m \in n..Len(h)
  /\ UpToDate(b, t, h, m, gameweek)
  /\ \A i \in (n + 1)..m : h[i].event \notin UserKinds

(* The last Gameweek of a use.                                             *)
LEMMA LastOfUse ==
  ASSUME NEW b \in Bundles, NEW t \in Tokens, NEW f \in Nat \ {0}
  PROVE  f + b.grant[t].duration - 1 \in Nat \ {0} /\ f <= f + b.grant[t].duration - 1
<1> DEFINE d == b.grant[t].duration
<1>1. d \in Nat \ {0}
  BY GrantFacts
<1> HIDE DEF d
<1>2. f + d - 1 \in Nat \ {0} /\ f <= f + d - 1
  BY <1>1
<1> QED
  BY <1>2 DEF d

(* It is at most the end of a use ...                                      *)
LEMMA DueInUse ==
  ASSUME bundle \in Bundles, NEW t \in Tokens, NEW h, Story(bundle, t, h), NEW n \in 0..Len(h),
         NEW g \in Nat \ {0}, NEW next \in Nat \ {0}, g < next,
         UpToDate(bundle, t, h, n, g), NEW m, Due(bundle, t, h, n, m, next),
         Ending(h, n) = "ACTIVATED"
  PROVE  Grown(bundle, t, Image(bundle, t, h, n, g), next) = Image(bundle, t, h, m, next)
<1> DEFINE s == Image(bundle, t, h, n, g)
           until == h[n].gameweek + bundle.grant[t].duration - 1
<1>1. n \in 1..Len(h) /\ m \in n..Len(h) /\ UpToDate(bundle, t, h, m, next)
      /\ h[n].event = "ACTIVATED" /\ n \in Nat /\ m \in Nat /\ Len(h) \in Nat
  BY DEF Ending, Due, Story
<1>2. h[n].gameweek \in Nat \ {0} /\ (n < Len(h) => Follows(bundle, t, h[n], h[n + 1]))
  BY <1>1, StoryFacts
<1>3. UseFrom(h, n) = h[n].gameweek /\ h[n].gameweek # None
  BY <1>2 DEF UseFrom, None
<1>4. s.status = "ACTIVE" /\ s.until = until
  BY <1>3, ImageFields
<1>5. Grown(bundle, t, s, next) = IF next > until THEN Completed(s, next) ELSE s
  <2> HIDE DEF s
  <2> QED BY <1>4 DEF Grown
<1>6. ASSUME m > n
      PROVE  m = n + 1 /\ h[m] = Event("COMPLETED", until) /\ until < next
  <2>1. n < Len(h) /\ n + 1 \in 1..Len(h)
    BY <1>1, <1>6
  <2>2. h[n + 1] = Event("COMPLETED", until) /\ h[n + 1].event = "COMPLETED"
        /\ h[n + 1].gameweek = until
    BY <1>1, <1>2, <2>1, FollowsFacts
  <2>3. n + 1 < Len(h) => Follows(bundle, t, h[n + 1], h[(n + 1) + 1])
    BY <2>1, StoryFacts
  <2>4. ~(n + 1 < Len(h))
    BY <2>2, <2>3, FollowsFacts
  <2>5. m = n + 1
    BY <1>1, <1>6, <2>4
  <2>6. Ending(h, m) = "COMPLETED"
    BY <1>1, <2>2, <2>5 DEF Ending
  <2>7. until < next
    BY <1>1, <2>2, <2>5, <2>6 DEF UpToDate
  <2> QED BY <2>2, <2>5, <2>7
<1>7. CASE m > n
  <2>1. n + 1 \in 1..Len(h)
    BY <1>1, <1>6, <1>7
  <2>2. Completed(s, next) = Image(bundle, t, h, n + 1, next)
    BY <1>1, <1>6, <1>7, <2>1, CompleteStep
  <2>3. next > until
    <3>1. until < next
      BY <1>6, <1>7
    <3>2. until \in Nat \ {0}
      BY <1>2, LastOfUse
    <3> QED BY <3>1, <3>2
  <2> QED BY <1>5, <1>6, <1>7, <2>2, <2>3
<1>8. CASE m = n
  <2>1. next <= until
    BY <1>1, <1>8 DEF UpToDate
  <2>2. ~(next > until)
    <3>1. until \in Nat \ {0}
      BY <1>2, LastOfUse
    <3> QED BY <2>1, <3>1
  <2>3. Image(bundle, t, h, n, g) = Image(bundle, t, h, n, next)
    BY DEF Image
  <2> QED BY <1>5, <1>8, <2>2, <2>3
<1> QED
  BY <1>1, <1>7, <1>8

(* ... nothing after the end of a right ...                                *)
LEMMA DueAfterEnd ==
  ASSUME bundle \in Bundles, NEW t \in Tokens, NEW h, Story(bundle, t, h), NEW n \in 0..Len(h),
         NEW g \in Nat \ {0}, NEW next \in Nat \ {0}, g < next,
         UpToDate(bundle, t, h, n, g), NEW m, Due(bundle, t, h, n, m, next),
         Ending(h, n) \in {"COMPLETED", "EXPIRED"}
  PROVE  Grown(bundle, t, Image(bundle, t, h, n, g), next) = Image(bundle, t, h, m, next)
<1> DEFINE s == Image(bundle, t, h, n, g)
<1>1. n \in 1..Len(h) /\ m \in n..Len(h) /\ h[n].event = Ending(h, n)
      /\ n \in Nat /\ m \in Nat /\ Len(h) \in Nat
  BY DEF Ending, Due, Story
<1>2. n < Len(h) => Follows(bundle, t, h[n], h[n + 1])
  BY <1>1, StoryFacts
<1>3. m = n
  BY <1>1, <1>2, FollowsFacts
<1>4. CASE Ending(h, n) = "COMPLETED"
  <2>1. s.status = "USED"
    BY <1>4, ImageFields
  <2>2. Grown(bundle, t, s, next) = s
    <3> HIDE DEF s
    <3> QED BY <2>1 DEF Grown
  <2>3. Image(bundle, t, h, n, g) = Image(bundle, t, h, n, next)
    BY <1>4 DEF Image
  <2> QED BY <1>3, <2>2, <2>3
<1>5. CASE Ending(h, n) = "EXPIRED"
  <2>1. h[n].gameweek = bundle.grant[t].expires
    <3>1. n > 1 /\ Follows(bundle, t, h[n - 1], h[n])
      BY <1>1, <1>5, StoryFacts
    <3> QED BY <1>1, <1>5, <3>1, FollowsFacts
  <2>2. bundle.grant[t].expires < g
    BY <1>5, <2>1 DEF UpToDate
  <2>3. StatusAt(bundle, t, g) = "EXPIRED" /\ StatusAt(bundle, t, next) = "EXPIRED"
    BY <2>2, GrantFacts DEF StatusAt
  <2>4. s.status = "EXPIRED"
    BY <1>5, <2>3, ImageFields
  <2>5. Grown(bundle, t, s, next) = s
    <3> HIDE DEF s
    <3> QED BY <2>4 DEF Grown
  <2>6. Image(bundle, t, h, n, g) = Image(bundle, t, h, n, next)
    BY <1>5, <2>3 DEF Image
  <2> QED BY <1>3, <2>5, <2>6
<1> QED
  BY <1>4, <1>5

(* Short sequences.                                                        *)
LEMMA ShortSequences ==
  ASSUME NEW a \in TokenEvents, NEW e \in TokenEvents
  PROVE  /\ <<a>> \o <<e>> = <<a, e>>
         /\ \A h \in Seq(TokenEvents), i \in Nat : i \in 1..Len(h) /\ h[i] = a => SubSeq(h, i, i) = <<a>>
         /\ \A h \in Seq(TokenEvents), i \in Nat :
              i \in 1..Len(h) /\ i + 1 \in 1..Len(h) /\ h[i] = a /\ h[i + 1] = e =>
                SubSeq(h, i, i + 1) = <<a, e>>
<1> DEFINE one == <<a>>
           other == <<e>>
           two == <<a, e>>
<1>1. one \in Seq(TokenEvents) /\ Len(one) = 1 /\ one[1] = a
  OBVIOUS
<1>2. other \in Seq(TokenEvents) /\ Len(other) = 1 /\ other[1] = e
  OBVIOUS
<1>3. two \in Seq(TokenEvents) /\ Len(two) = 2 /\ two[1] = a /\ two[2] = e
  OBVIOUS
<1> HIDE DEF one, other, two
<1>4. one \o other = two
  <2> DEFINE both == one \o other
  <2>1. both \in Seq(TokenEvents) /\ Len(both) = 2 /\ both[1] = a /\ both[2] = e
    <3>1. /\ both \in Seq(TokenEvents) /\ Len(both) = Len(one) + Len(other)
          /\ \A i \in 1..(Len(one) + Len(other)) :
               both[i] = IF i <= Len(one) THEN one[i] ELSE other[i - Len(one)]
      BY <1>1, <1>2, ConcatProperties
    <3> HIDE DEF both
    <3> QED BY <1>1, <1>2, <3>1
  <2> HIDE DEF both
  <2>2. both = two
    BY <1>3, <2>1, SeqEqual
  <2> QED BY <2>2 DEF both
<1>5. ASSUME NEW h \in Seq(TokenEvents), NEW i \in Nat, i \in 1..Len(h), h[i] = a
      PROVE  SubSeq(h, i, i) = one
  <2> DEFINE part == SubSeq(h, i, i)
  <2>1. part \in Seq(TokenEvents) /\ Len(part) = 1 /\ part[1] = a
    BY <1>5
  <2> HIDE DEF part
  <2>2. part = one
    BY <1>1, <2>1, SeqEqual
  <2> QED BY <2>2 DEF part
<1>6. ASSUME NEW h \in Seq(TokenEvents), NEW i \in Nat, i \in 1..Len(h), i + 1 \in 1..Len(h),
             h[i] = a, h[i + 1] = e
      PROVE  SubSeq(h, i, i + 1) = two
  <2> DEFINE part == SubSeq(h, i, i + 1)
  <2>1. part \in Seq(TokenEvents) /\ Len(part) = 2 /\ part[1] = a /\ part[2] = e
    BY <1>6
  <2> HIDE DEF part
  <2>2. part = two
    BY <1>3, <2>1, SeqEqual
  <2> QED BY <2>2 DEF part
<1> QED
  BY <1>4, <1>5, <1>6 DEF one, other, two

(* What ageing adds, case by case.                                         *)
LEMMA AddedForms ==
  ASSUME bundle \in Bundles, NEW t \in Tokens, NEW history, NEW gameweek
  PROVE  LET a == Event("ACQUIRED", bundle.grant[t].acquired)
             e == Event("EXPIRED", bundle.grant[t].expires) IN
           /\ ~Acquires(t, history, gameweek) /\ ~Expires(t, history, gameweek) =>
                Added(t, history, gameweek) = <<>>
           /\ Acquires(t, history, gameweek) /\ ~Expires(t, history, gameweek) =>
                Added(t, history, gameweek) = <<a>>
           /\ ~Acquires(t, history, gameweek) /\ Expires(t, history, gameweek) =>
                Added(t, history, gameweek) = <<e>>
           /\ Acquires(t, history, gameweek) /\ Expires(t, history, gameweek) =>
                Added(t, history, gameweek) = <<a, e>>
<1> DEFINE a == Event("ACQUIRED", bundle.grant[t].acquired)
           e == Event("EXPIRED", bundle.grant[t].expires)
<1>1. a \in TokenEvents /\ e \in TokenEvents
  BY GrantTypes, EventType DEF Kinds
<1> HIDE DEF a, e
<1>2. /\ <<>> \o <<>> = <<>> /\ <<a>> \o <<>> = <<a>> /\ <<>> \o <<e>> = <<e>>
      /\ <<a>> \o <<e>> = <<a, e>>
  <2>1. <<>> \in Seq(TokenEvents) /\ <<a>> \in Seq(TokenEvents) /\ <<e>> \in Seq(TokenEvents)
    BY <1>1
  <2>2. <<>> \o <<>> = <<>> /\ <<a>> \o <<>> = <<a>> /\ <<>> \o <<e>> = <<e>>
    BY <2>1, ConcatEmptySeq
  <2>3. <<a>> \o <<e>> = <<a, e>>
    BY <1>1, ShortSequences
  <2> QED BY <2>2, <2>3
<1> QED
  BY <1>2 DEF Added, Acquiring, Expiring, a, e

(* ... and what ageing adds before it.                                     *)
LEMMA DueAdds ==
  ASSUME bundle \in Bundles, NEW t \in Tokens, NEW h, Story(bundle, t, h), NEW n \in 0..Len(h),
         NEW next \in Nat \ {0}, NEW m, Due(bundle, t, h, n, m, next),
         Ending(h, n) \in Waiting \cup {"NOTHING"}
  PROVE  /\ SubSeq(h, 1, m) = SubSeq(h, 1, n) \o Added(t, SubSeq(h, 1, n), next)
         /\ Ending(h, m) \in Waiting \cup {"NOTHING", "EXPIRED"}
         /\ m \in 0..Len(h) /\ h \in Seq(TokenEvents)
<1> DEFINE past == SubSeq(h, 1, n)
           acquired == bundle.grant[t].acquired
           expires == bundle.grant[t].expires
<1>1. n \in Nat /\ m \in n..Len(h) /\ m \in 0..Len(h) /\ UpToDate(bundle, t, h, m, next)
      /\ Len(h) \in Nat /\ h \in Seq(TokenEvents)
  BY DEF Due, Story
<1>2. acquired \in Nat \ {0} /\ expires \in Nat \ {0} /\ acquired <= expires
  BY GrantFacts
<1>3. \A i \in 1..Len(h) : i \in (n + 1)..m => h[i].event \in {"ACQUIRED", "COMPLETED", "EXPIRED"}
  BY StoryFacts DEF Due, UserKinds, Kinds
<1>4. \A i \in 1..Len(h) : h[i].event \in Waiting /\ i + 1 \in (n + 1)..m =>
        h[i + 1] = Event("EXPIRED", expires)
  <2> SUFFICES ASSUME NEW i \in 1..Len(h), h[i].event \in Waiting, i + 1 \in (n + 1)..m
               PROVE  h[i + 1] = Event("EXPIRED", expires)
    OBVIOUS
  <2>1. i + 1 \in 1..Len(h) /\ i < Len(h)
    BY <1>1
  <2>2. Follows(bundle, t, h[i], h[i + 1])
    BY <2>1, StoryFacts
  <2> QED BY <1>3, <2>1, <2>2, FollowsFacts
<1>5. \A i \in 1..Len(h) : h[i].event = "EXPIRED" => ~(i < Len(h))
  <2> SUFFICES ASSUME NEW i \in 1..Len(h), h[i].event = "EXPIRED", i < Len(h) PROVE FALSE
    OBVIOUS
  <2>2. Follows(bundle, t, h[i], h[i + 1])
    BY StoryFacts
  <2> QED BY <2>2, FollowsFacts
<1>6. past \in Seq(TokenEvents) /\ SubSeq(h, 1, m) = past \o SubSeq(h, n + 1, m)
  <2>1. past \in Seq(TokenEvents)
    BY <1>1
  <2>2. 1 \in 1..(Len(h) + 1) /\ n \in (1 - 1)..Len(h) /\ m \in n..Len(h)
    BY <1>1
  <2> QED BY <1>1, <2>1, <2>2, ConcatAdjacentSubSeq
<1>7. SubSeq(h, n + 1, m) = Added(t, past, next) /\ Ending(h, m) \in Waiting \cup {"NOTHING", "EXPIRED"}
  <2>1. CASE Ending(h, n) \in Waiting
    <3>1. n \in 1..Len(h) /\ h[n].event \in Waiting /\ h[1].event = "ACQUIRED"
      <4>1. n \in 1..Len(h) /\ h[n].event \in Waiting
        BY <1>1, <2>1 DEF Ending, Waiting
      <4> QED BY <4>1, StoryFacts
    <3>2. Tells(past, "ACQUIRED")
      <4>1. 1 \in DOMAIN past /\ past[1] = h[1]
        BY <1>1, <3>1
      <4> QED BY <3>1, <4>1 DEF Tells
    <3>3. ~Tells(past, "EXPIRED")
      <4> SUFFICES ASSUME NEW i \in DOMAIN past, past[i].event = "EXPIRED" PROVE FALSE
        BY DEF Tells
      <4>1. i \in 1..n /\ past[i] = h[i]
        BY <1>1
      <4>2. i \in 1..Len(h) /\ h[i].event = "EXPIRED"
        BY <1>1, <4>1
      <4>3. i = n
        BY <1>1, <1>5, <4>1, <4>2
      <4> QED BY <3>1, <4>2, <4>3 DEF Waiting
    <3>4. CASE m = n
      <4>1. next <= expires
        BY <1>1, <2>1, <3>4 DEF UpToDate
      <4>2. ~Acquires(t, past, next) /\ ~Expires(t, past, next)
        BY <1>2, <3>2, <4>1 DEF Acquires, Expires
      <4>3. SubSeq(h, n + 1, m) = <<>>
        BY <1>1, <3>4, SubSeqEmpty
      <4> QED BY <2>1, <3>4, <4>2, <4>3, AddedForms
    <3>5. CASE m # n
      <4>1. n + 1 \in (n + 1)..m /\ n + 1 \in 1..Len(h)
        BY <1>1, <3>5
      <4>2. h[n + 1] = Event("EXPIRED", expires)
        BY <1>4, <3>1, <4>1
      <4>3. m = n + 1
        BY <1>1, <1>5, <4>1, <4>2, EventFields
      <4>4. Ending(h, m) = "EXPIRED" /\ expires < next
        <5>1. Ending(h, m) = "EXPIRED" /\ h[m].gameweek = expires
          BY <1>1, <4>2, <4>3, EventFields DEF Ending
        <5> QED BY <1>1, <5>1 DEF UpToDate
      <4>5. ~Acquires(t, past, next) /\ Expires(t, past, next)
        BY <1>2, <3>2, <3>3, <4>4 DEF Acquires, Expires
      <4>6. SubSeq(h, n + 1, m) = <<h[n + 1]>>
        <5>1. h[n + 1] \in TokenEvents /\ n + 1 \in Nat
          BY <1>1, <4>1
        <5> QED BY <1>1, <4>1, <4>3, <5>1, ShortSequences
      <4> QED BY <4>2, <4>4, <4>5, <4>6, AddedForms
    <3> QED BY <3>4, <3>5
  <2>2. CASE Ending(h, n) = "NOTHING"
    <3>1. n = 0
      <4>1. n \in 1..Len(h) => h[n].event \in Kinds
        BY StoryFacts
      <4> QED BY <1>1, <2>2, <4>1 DEF Ending, Kinds
    <3>2. past = <<>>
      BY <3>1, SubSeqEmpty
    <3>3. ~Tells(past, "ACQUIRED") /\ ~Tells(past, "EXPIRED")
      BY <3>2 DEF Tells
    <3>4. CASE m = 0
      <4>1. Ending(h, m) = "NOTHING" /\ next < acquired
        BY <1>1, <3>4 DEF UpToDate, Ending
      <4>2. ~Acquires(t, past, next) /\ ~Expires(t, past, next)
        BY <1>2, <4>1 DEF Acquires, Expires
      <4>3. SubSeq(h, n + 1, m) = <<>>
        BY <3>1, <3>4, SubSeqEmpty
      <4> QED BY <4>1, <4>2, <4>3, AddedForms
    <3>5. CASE m > 0
      <4>1. 1 \in 1..Len(h) /\ h[1] = Event("ACQUIRED", acquired)
        <5>1. 1 \in 1..Len(h)
          BY <1>1, <3>5
        <5> QED BY <5>1, StoryFacts
      <4>2. h[1].event = "ACQUIRED" /\ h[1].event \in Waiting /\ h[1].gameweek = acquired
        BY <4>1, EventFields DEF Waiting
      <4>3. CASE m = 1
        <5>1. Ending(h, m) = "ACQUIRED"
          BY <4>2, <4>3 DEF Ending
        <5>2. acquired <= next /\ next <= expires
          BY <1>1, <4>2, <4>3, <5>1 DEF UpToDate, Waiting
        <5>3. Acquires(t, past, next) /\ ~Expires(t, past, next)
          BY <1>2, <3>3, <5>2 DEF Acquires, Expires
        <5>4. SubSeq(h, n + 1, m) = <<h[1]>>
          <6>1. h[1] \in TokenEvents /\ n + 1 = 1
            BY <1>1, <3>1, <4>1
          <6>2. SubSeq(h, 1, 1) = <<h[1]>>
            BY <1>1, <4>1, <6>1, ShortSequences
          <6> QED BY <4>3, <6>1, <6>2
        <5> QED BY <4>1, <5>1, <5>3, <5>4, AddedForms DEF Waiting
      <4>4. CASE m > 1
        <5>1. 1 + 1 \in (n + 1)..m /\ 2 \in 1..Len(h)
          BY <1>1, <3>1, <4>4
        <5>2. h[2] = Event("EXPIRED", expires)
          <6>1. h[1 + 1] = Event("EXPIRED", expires)
            BY <1>4, <4>1, <4>2, <5>1
          <6> QED BY <6>1
        <5>3. m = 2
          BY <1>1, <1>5, <4>4, <5>1, <5>2, EventFields
        <5>4. Ending(h, m) = "EXPIRED" /\ expires < next
          <6>1. Ending(h, m) = "EXPIRED" /\ h[m].gameweek = expires
            BY <5>2, <5>3, EventFields DEF Ending
          <6> QED BY <1>1, <6>1 DEF UpToDate
        <5>5. Acquires(t, past, next) /\ Expires(t, past, next)
          BY <1>2, <3>3, <5>4 DEF Acquires, Expires
        <5>6. SubSeq(h, n + 1, m) = <<h[1], h[2]>>
          <6>1. h[1] \in TokenEvents /\ h[2] \in TokenEvents /\ n + 1 = 1 /\ 1 + 1 = 2
            BY <1>1, <3>1, <4>1, <5>1
          <6>2. SubSeq(h, 1, 1 + 1) = <<h[1], h[2]>>
            <7>1. 1 \in Nat /\ 1 + 1 \in 1..Len(h) /\ h[1 + 1] = h[2]
              BY <5>1, <6>1
            <7> QED BY <1>1, <4>1, <6>1, <7>1, ShortSequences
          <6> QED BY <5>3, <6>1, <6>2
        <5> QED BY <4>1, <5>2, <5>4, <5>5, <5>6, AddedForms
      <4> QED BY <1>1, <3>5, <4>3, <4>4
    <3> QED BY <1>1, <3>4, <3>5
  <2> QED BY <2>1, <2>2
<1> QED
  BY <1>1, <1>6, <1>7

(* A token that is not exercised has none of the fields of a use.          *)
LEMMA UnusedImage ==
  ASSUME NEW b \in Bundles, NEW t \in Tokens, NEW h, Story(b, t, h), NEW n \in 0..Len(h),
         NEW gameweek, Ending(h, n) \in Waiting \cup {"NOTHING", "EXPIRED"}
  PROVE  LET r == Image(b, t, h, n, gameweek) IN
           /\ r \in TokenStates /\ r.selected = None /\ r.from = None /\ r.until = None
           /\ r.used = None /\ r.history = SubSeq(h, 1, n)
           /\ r.status = StatusAt(b, t, gameweek)
<1>1. UseFrom(h, n) = None /\ Ending(h, n) \notin {"SELECTED", "ACTIVATED", "COMPLETED"}
  BY DEF UseFrom, Waiting
<1> QED BY <1>1, ImageFields

(* Ageing a token gives the next one.                                      *)
LEMMA DueWaiting ==
  ASSUME bundle \in Bundles, NEW t \in Tokens, NEW h, Story(bundle, t, h), NEW n \in 0..Len(h),
         NEW g \in Nat \ {0}, NEW next \in Nat \ {0}, g < next,
         UpToDate(bundle, t, h, n, g), NEW m, Due(bundle, t, h, n, m, next),
         Ending(h, n) \in Waiting \cup {"NOTHING"}
  PROVE  Grown(bundle, t, Image(bundle, t, h, n, g), next) = Image(bundle, t, h, m, next)
<1> DEFINE s == Image(bundle, t, h, n, g)
           r == Image(bundle, t, h, m, next)
           past == SubSeq(h, 1, n)
<1>1. /\ SubSeq(h, 1, m) = past \o Added(t, past, next)
      /\ Ending(h, m) \in Waiting \cup {"NOTHING", "EXPIRED"}
      /\ m \in 0..Len(h) /\ h \in Seq(TokenEvents)
  BY DueAdds
<1>8. /\ s \in TokenStates /\ s.selected = None /\ s.from = None /\ s.until = None
      /\ s.used = None /\ s.history = past /\ s.status = StatusAt(bundle, t, g)
  <2>1. Ending(h, n) \in Waiting \cup {"NOTHING", "EXPIRED"}
    OBVIOUS
  <2> QED BY <2>1, UnusedImage
<1>9. /\ r \in TokenStates /\ r.selected = None /\ r.from = None /\ r.until = None
      /\ r.used = None /\ r.history = SubSeq(h, 1, m) /\ r.status = StatusAt(bundle, t, next)
  BY <1>1, UnusedImage
<1>10. s.status \notin {"ACTIVE", "USED", "EXPIRED"}
  <2>1. g <= bundle.grant[t].expires
    BY GrantFacts DEF UpToDate
  <2> QED BY GrantFacts, <1>8, <2>1 DEF StatusAt
<1>11. Grown(bundle, t, s, next) = Becomes(s, StatusAt(bundle, t, next), past \o Added(t, past, next))
  <2> HIDE DEF s, past
  <2>1. Grown(bundle, t, s, next) = Aged(bundle, t, s, next)
    BY <1>10 DEF Grown
  <2> QED BY <1>8, <2>1, AgedFields
<1>12. Becomes(s, StatusAt(bundle, t, next), SubSeq(h, 1, m)) = r
  <2> DEFINE st == StatusAt(bundle, t, next)
             k == SubSeq(h, 1, m)
  <2>1. k \in Seq(TokenEvents) /\ st \in Statuses
    BY <1>1 DEF StatusAt, Statuses
  <2> HIDE DEF s, r, k, st
  <2>2. LET c == Becomes(s, st, k) IN
          /\ c \in TokenStates /\ c.status = st /\ c.history = k /\ c.selected = s.selected
          /\ c.from = s.from /\ c.until = s.until /\ c.used = s.used
    BY <1>8, <2>1 DEF Becomes, TokenStates
  <2> QED BY <1>8, <1>9, <2>2, SameFields DEF k, st
<1> QED
  BY <1>1, <1>11, <1>12

(* So the clock makes of the token that a part of a history made the one   *)
(* that the next part makes.                                               *)
LEMMA DueStep ==
  ASSUME bundle \in Bundles, NEW t \in Tokens, NEW h, Story(bundle, t, h), NEW n \in 0..Len(h),
         NEW g \in Nat \ {0}, NEW next \in Nat \ {0}, g < next,
         UpToDate(bundle, t, h, n, g), NEW m, Due(bundle, t, h, n, m, next),
         Ending(h, n) # "SELECTED"
  PROVE  Grown(bundle, t, Image(bundle, t, h, n, g), next) = Image(bundle, t, h, m, next)
<1>1. Ending(h, n) \in {"ACTIVATED", "COMPLETED", "EXPIRED"} \cup (Waiting \cup {"NOTHING"})
  <2>1. n \in 1..Len(h) => h[n].event \in Kinds
    BY StoryFacts
  <2>2. Len(h) \in Nat
    BY DEF Story
  <2> QED BY <2>1, <2>2 DEF Ending, Kinds, Waiting
<1> QED
  BY <1>1, DueInUse, DueAfterEnd, DueWaiting

(* A new inventory holds the tokens that the clock alone made.             *)
LEMMA DueAtFirst ==
  ASSUME bundle \in Bundles, NEW t \in Tokens, NEW h, Story(bundle, t, h),
         NEW next \in Nat \ {0}, NEW m, Due(bundle, t, h, 0, m, next)
  PROVE  Built(bundle, next).token[t] = Image(bundle, t, h, m, next)
<1> DEFINE s == Built(bundle, next).token[t]
           r == Image(bundle, t, h, m, next)
           k == Granted(bundle, t, next)
<1>1. Len(h) \in Nat /\ 0 \in 0..Len(h) /\ Ending(h, 0) = "NOTHING"
  BY DEF Story, Ending
<1>2. /\ SubSeq(h, 1, m) = SubSeq(h, 1, 0) \o Added(t, SubSeq(h, 1, 0), next)
      /\ Ending(h, m) \in Waiting \cup {"NOTHING", "EXPIRED"}
      /\ m \in 0..Len(h) /\ h \in Seq(TokenEvents)
  BY <1>1, DueAdds
<1>3. SubSeq(h, 1, 0) = <<>>
  BY SubSeqEmpty
<1>4. Added(t, <<>>, next) = k
  BY DEF Added, Acquires, Expires, Acquiring, Expiring, Granted, Tells
<1>5. k \in Seq(TokenEvents) /\ <<>> \o k = k
  <2>1. k \in Seq(TokenEvents)
    <3> HIDE DEF k
    <3>1. <<>> \in Seq(TokenEvents) /\ next \in Nat
      OBVIOUS
    <3>2. Added(t, <<>>, next) \in Seq(TokenEvents)
      BY <3>1, AddedFacts
    <3> QED BY <3>2, <1>4
  <2> QED BY <2>1, ConcatEmptySeq
<1>6. SubSeq(h, 1, m) = k
  BY <1>2, <1>3, <1>4, <1>5
<1>7. s = [ status |-> StatusAt(bundle, t, next), selected |-> None, from |-> None,
            until |-> None, used |-> None, history |-> k ]
  BY DEF Built
<1> HIDE DEF k, s
<1>8. /\ s \in TokenStates /\ s.selected = None /\ s.from = None /\ s.until = None
      /\ s.used = None /\ s.history = k /\ s.status = StatusAt(bundle, t, next)
  <2>1. StatusAt(bundle, t, next) \in Statuses /\ None \in Nat
    BY DEF StatusAt, Statuses, None
  <2> QED BY <1>5, <1>7, <2>1 DEF TokenStates
<1>9. /\ r \in TokenStates /\ r.selected = None /\ r.from = None /\ r.until = None
      /\ r.used = None /\ r.history = k /\ r.status = StatusAt(bundle, t, next)
  BY <1>2, <1>6, UnusedImage
<1> HIDE DEF r
<1> QED
  BY <1>8, <1>9, SameFields DEF r, s

-----------------------------------------------------------------------------
(* A token is what its history makes of it.                                *)

(* A history with an event more.                                           *)
LEMMA LongerStory ==
  ASSUME NEW b, NEW t, NEW h, Story(b, t, h), NEW e \in TokenEvents,
         h = <<>> => e = Event("ACQUIRED", b.grant[t].acquired),
         Len(h) > 0 => Follows(b, t, h[Len(h)], e)
  PROVE  LET k == Append(h, e) IN
           /\ Story(b, t, k) /\ Len(k) = Len(h) + 1 /\ Len(h) \in Nat
           /\ \A i \in 1..Len(h) : k[i] = h[i]
           /\ k[Len(h) + 1] = e
<1> DEFINE k == Append(h, e)
<1>1. h \in Seq(TokenEvents) /\ Len(h) \in Nat /\ (h = <<>> <=> Len(h) = 0)
  BY DEF Story
<1>2. /\ k \in Seq(TokenEvents) /\ Len(k) = Len(h) + 1
      /\ (\A i \in 1..Len(h) : k[i] = h[i]) /\ k[Len(h) + 1] = e
  BY <1>1
<1> HIDE DEF k
<1>3. k # <<>> => k[1] = Event("ACQUIRED", b.grant[t].acquired)
  <2>1. CASE h = <<>>
    BY <1>1, <1>2, <2>1
  <2>2. CASE h # <<>>
    <3>1. h[1] = Event("ACQUIRED", b.grant[t].acquired) /\ 1 \in 1..Len(h)
      BY <1>1, <2>2 DEF Story
    <3> QED BY <1>2, <3>1
  <2> QED BY <2>1, <2>2
<1>4. ASSUME NEW i \in DOMAIN k, i > 1 PROVE Follows(b, t, k[i - 1], k[i])
  <2>1. i \in 1..(Len(h) + 1)
    BY <1>2
  <2>2. CASE i = Len(h) + 1
    <3>1. i - 1 = Len(h) /\ Len(h) \in 1..Len(h) /\ Len(h) > 0
      BY <1>1, <1>4, <2>1, <2>2
    <3>2. k[i - 1] = h[Len(h)] /\ k[i] = e
      BY <1>2, <2>2, <3>1
    <3> QED BY <3>1, <3>2
  <2>3. CASE i # Len(h) + 1
    <3>1. i \in 1..Len(h) /\ i - 1 \in 1..Len(h) /\ i \in DOMAIN h
      BY <1>1, <1>4, <2>1, <2>3
    <3>2. k[i] = h[i] /\ k[i - 1] = h[i - 1]
      BY <1>2, <3>1
    <3>3. Follows(b, t, h[i - 1], h[i])
      BY <1>4, <3>1 DEF Story
    <3> QED BY <3>2, <3>3
  <2> QED BY <2>2, <2>3
<1>5. Story(b, t, k)
  BY <1>2, <1>3, <1>4 DEF Story
<1> QED
  BY <1>1, <1>2, <1>5 DEF k

(* ... in which its beginning makes the same token.                        *)
LEMMA LongerHistory ==
  ASSUME NEW b \in Bundles, NEW t \in Tokens, NEW h, Story(b, t, h), NEW k, Story(b, t, k),
         Len(h) <= Len(k), \A i \in 1..Len(h) : k[i] = h[i], NEW gameweek
  PROVE  /\ Image(b, t, h, Len(h), gameweek) = Image(b, t, k, Len(h), gameweek)
         /\ UpToDate(b, t, h, Len(h), gameweek) <=> UpToDate(b, t, k, Len(h), gameweek)
         /\ Ending(k, Len(h)) = Ending(h, Len(h))
<1>1. /\ h \in Seq(TokenEvents) /\ k \in Seq(TokenEvents)
      /\ Len(h) \in Nat /\ Len(h) <= Len(h)
  BY DEF Story
<1>2. Len(h) > 0 => h[1].event = "ACQUIRED"
  <2>1. Len(h) > 0 => 1 \in 1..Len(h)
    BY <1>1
  <2> QED BY <2>1, StoryFacts
<1>3. Ending(k, Len(h)) = Ending(h, Len(h))
  BY <1>1 DEF Ending
<1>4. \A i \in 1..Len(h) : h[i] = k[i]
  OBVIOUS
<1> QED
  BY <1>1, <1>2, <1>3, <1>4, SameBeginning

(* The whole of a history.                                                 *)
LEMMA WholeHistory ==
  ASSUME NEW b \in Bundles, NEW t \in Tokens, NEW h, Story(b, t, h), NEW gameweek
  PROVE  Image(b, t, h, Len(h), gameweek).history = h
<1>1. h \in Seq(TokenEvents) /\ Len(h) \in 0..Len(h)
  BY DEF Story
<1>2. SubSeq(h, 1, Len(h)) = h
  BY <1>1, SubSeqFull
<1> QED
  BY <1>1, <1>2, ImageFields

Extends(k, h) == Len(h) <= Len(k) /\ \A i \in 1..Len(h) : k[i] = h[i]

(* One event that falls due.                                               *)
LEMMA GrowsByOne ==
  ASSUME NEW b, NEW t, NEW h, Story(b, t, h), NEW e \in TokenEvents,
         h = <<>> => e = Event("ACQUIRED", b.grant[t].acquired),
         Len(h) > 0 => Follows(b, t, h[Len(h)], e),
         e.event \in {"ACQUIRED", "COMPLETED", "EXPIRED"}
  PROVE  LET k == Append(h, e) IN
           /\ Story(b, t, k) /\ Extends(k, h) /\ Len(k) = Len(h) + 1 /\ Len(h) \in Nat
           /\ k[Len(k)] = e /\ Ending(k, Len(k)) = e.event
           /\ \A i \in (Len(h) + 1)..Len(k) : k[i].event \notin UserKinds
<1> DEFINE k == Append(h, e)
<1>1. /\ Story(b, t, k) /\ Len(k) = Len(h) + 1 /\ Len(h) \in Nat
      /\ \A i \in 1..Len(h) : k[i] = h[i]
      /\ k[Len(h) + 1] = e
  BY LongerStory
<1> HIDE DEF k
<1>2. Extends(k, h) /\ k[Len(k)] = e /\ Ending(k, Len(k)) = e.event
  BY <1>1 DEF Extends, Ending
<1>3. \A i \in (Len(h) + 1)..Len(k) : k[i].event \notin UserKinds
  <2>1. \A i \in (Len(h) + 1)..Len(k) : k[i] = e
    BY <1>1
  <2> QED BY <2>1 DEF UserKinds
<1> QED
  BY <1>1, <1>2, <1>3 DEF k

(* Whatever falls due by a Gameweek, there is a history with it.           *)
LEMMA Grows ==
  ASSUME NEW b \in Bundles, NEW t \in Tokens, NEW h, Story(b, t, h), NEW g \in Nat,
         NEW next \in Nat \ {0}, UpToDate(b, t, h, Len(h), g), g <= next,
         Ending(h, Len(h)) # "SELECTED"
  PROVE  \E k : Story(b, t, k) /\ Extends(k, h) /\ Due(b, t, k, Len(h), Len(k), next)
<1> DEFINE acquired == b.grant[t].acquired
           expires == b.grant[t].expires
           n == Len(h)
<1>1. /\ n \in Nat /\ (h = <<>> <=> n = 0)
      /\ n > 0 => h[n].event \in Kinds /\ h[n].gameweek \in Nat \ {0} /\ Ending(h, n) = h[n].event
  <2>1. n \in Nat /\ (h = <<>> <=> n = 0)
    BY DEF Story
  <2>2. n > 0 => n \in 1..Len(h)
    BY <2>1
  <2> QED BY <2>1, <2>2, StoryFacts DEF Ending
<1>2. acquired \in Nat \ {0} /\ expires \in Nat \ {0} /\ acquired <= expires
  BY GrantFacts
<1>3. CASE UpToDate(b, t, h, n, next)
  <2>1. Due(b, t, h, n, n, next) /\ Extends(h, h)
    BY <1>1, <1>3 DEF Due, Extends
  <2> QED BY <2>1
<1>4. CASE n > 0 /\ Ending(h, n) \in Waiting /\ ~UpToDate(b, t, h, n, next)
  <2> DEFINE e == Event("EXPIRED", expires)
             k == Append(h, e)
  <2>1. h[n].gameweek <= g /\ g <= expires /\ h[n].event \in Waiting
    BY <1>1, <1>4 DEF UpToDate, Waiting
  <2>2. expires < next
    BY <1>1, <1>2, <1>4, <2>1 DEF UpToDate, Waiting
  <2>3. e \in TokenEvents /\ e.event = "EXPIRED" /\ e.gameweek = expires
    BY <1>2, EventType, EventFields DEF Kinds
  <2>4. Follows(b, t, h[n], e)
    <3>1. h[n].gameweek <= e.gameweek
      BY <1>1, <1>2, <1>4, <2>1, <2>3
    <3> QED BY <2>1, <3>1 DEF Follows
  <2> HIDE DEF e
  <2>5. /\ Story(b, t, k) /\ Extends(k, h) /\ Len(k) = n + 1
        /\ k[Len(k)] = e /\ Ending(k, Len(k)) = "EXPIRED"
        /\ \A i \in (n + 1)..Len(k) : k[i].event \notin UserKinds
    BY <1>1, <1>4, <2>3, <2>4, GrowsByOne
  <2> HIDE DEF k
  <2>6. UpToDate(b, t, k, Len(k), next)
    BY <1>2, <2>2, <2>3, <2>5 DEF UpToDate, Waiting
  <2>7. Due(b, t, k, n, Len(k), next)
    BY <1>1, <2>5, <2>6 DEF Due
  <2> QED BY <2>5, <2>7
<1>5. CASE n > 0 /\ Ending(h, n) = "ACTIVATED" /\ ~UpToDate(b, t, h, n, next)
  <2> DEFINE until == h[n].gameweek + b.grant[t].duration - 1
             e == Event("COMPLETED", until)
             k == Append(h, e)
  <2>1. h[n].gameweek <= g /\ h[n].event = "ACTIVATED"
    BY <1>1, <1>5 DEF UpToDate
  <2>2. until \in Nat \ {0} /\ h[n].gameweek <= until
    BY <1>1, <1>5, LastOfUse
  <2>3. ~(next <= until)
    BY <1>1, <1>5, <2>1 DEF UpToDate, Waiting
  <2>4. e \in TokenEvents /\ e.event = "COMPLETED" /\ e.gameweek = until
    BY <2>2, EventType, EventFields DEF Kinds
  <2>5. Follows(b, t, h[n], e)
    BY <2>1, <2>2, <2>4 DEF Follows
  <2> HIDE DEF e, until
  <2>6. /\ Story(b, t, k) /\ Extends(k, h) /\ Len(k) = n + 1
        /\ k[Len(k)] = e /\ Ending(k, Len(k)) = "COMPLETED"
        /\ \A i \in (n + 1)..Len(k) : k[i].event \notin UserKinds
    BY <1>1, <1>5, <2>4, <2>5, GrowsByOne
  <2> HIDE DEF k
  <2>7. UpToDate(b, t, k, Len(k), next)
    BY <2>2, <2>3, <2>4, <2>6 DEF UpToDate, Waiting
  <2>8. Due(b, t, k, n, Len(k), next)
    BY <1>1, <2>6, <2>7 DEF Due
  <2> QED BY <2>6, <2>8
<1>6. CASE n = 0 /\ ~UpToDate(b, t, h, n, next)
  <2> DEFINE a == Event("ACQUIRED", acquired)
             k == Append(h, a)
             e == Event("EXPIRED", expires)
             m == Append(k, e)
  <2>1. acquired <= next
    BY <1>2, <1>6 DEF UpToDate, Ending, Waiting
  <2>2. /\ a \in TokenEvents /\ a.event = "ACQUIRED" /\ a.gameweek = acquired
        /\ e \in TokenEvents /\ e.event = "EXPIRED" /\ e.gameweek = expires
    BY <1>2, EventType, EventFields DEF Kinds
  <2>3. Follows(b, t, a, e)
    BY <1>2, <2>2 DEF Follows, Waiting
  <2> HIDE DEF e
  <2>4. /\ Story(b, t, k) /\ Extends(k, h) /\ Len(k) = 1
        /\ k[1] = a /\ Ending(k, 1) = "ACQUIRED"
        /\ \A i \in 1..1 : k[i].event \notin UserKinds
    <3>0. h = <<>> => a = Event("ACQUIRED", b.grant[t].acquired)
      OBVIOUS
    <3> HIDE DEF a
    <3>2. a \in TokenEvents /\ a.event \in {"ACQUIRED", "COMPLETED", "EXPIRED"} /\ ~(Len(h) > 0)
      BY <1>6, <2>2
    <3>1. /\ Story(b, t, k) /\ Extends(k, h) /\ Len(k) = n + 1
          /\ k[Len(k)] = a /\ Ending(k, Len(k)) = "ACQUIRED"
          /\ \A i \in (n + 1)..Len(k) : k[i].event \notin UserKinds
      BY <2>2, <3>0, <3>2, GrowsByOne
    <3> HIDE DEF k
    <3> QED BY <3>1, <1>6
  <2> HIDE DEF k, a
  <2>5. CASE next <= expires
    <3>1. UpToDate(b, t, k, Len(k), next)
      BY <1>2, <2>1, <2>2, <2>4, <2>5 DEF UpToDate, Waiting
    <3>2. Due(b, t, k, n, Len(k), next)
      BY <1>6, <2>4, <3>1 DEF Due
    <3> QED BY <2>4, <3>2
  <2>6. CASE ~(next <= expires)
    <3>1. Len(k) > 0 /\ k # <<>>
      BY <2>4
    <3>2. /\ Story(b, t, m) /\ Extends(m, k) /\ Len(m) = 2
          /\ m[2] = e /\ Ending(m, 2) = "EXPIRED"
          /\ \A i \in 2..2 : m[i].event \notin UserKinds
      <4>1. /\ Story(b, t, m) /\ Extends(m, k) /\ Len(m) = Len(k) + 1
            /\ m[Len(m)] = e /\ Ending(m, Len(m)) = "EXPIRED"
            /\ \A i \in (Len(k) + 1)..Len(m) : m[i].event \notin UserKinds
        BY <2>2, <2>3, <2>4, <3>1, GrowsByOne
      <4> HIDE DEF m
      <4> QED BY <4>1, <2>4
    <3> HIDE DEF m
    <3>3. UpToDate(b, t, m, 2, next)
      BY <1>2, <2>2, <2>6, <3>2 DEF UpToDate, Waiting
    <3>4. \A i \in 1..2 : m[i].event \notin UserKinds
      <4>1. m[1] = a
        BY <2>4, <3>2 DEF Extends
      <4> QED BY <2>2, <3>2, <4>1 DEF UserKinds
    <3>5. Due(b, t, m, n, Len(m), next) /\ Extends(m, h)
      BY <1>6, <3>2, <3>3, <3>4 DEF Due, Extends
    <3> QED BY <3>2, <3>5
  <2> QED BY <2>5, <2>6
<1>7. n > 0 /\ Ending(h, n) \in {"COMPLETED", "EXPIRED"} => UpToDate(b, t, h, n, next)
  BY <1>1 DEF UpToDate, Waiting
<1> QED
  BY <1>1, <1>3, <1>4, <1>5, <1>6, <1>7 DEF Waiting, Kinds

TokensAsTold == \A t \in Tokens : AsTold(t)

(* A token in its window waits for a command exactly if it is available,   *)
(* and for its deadline exactly if it is pending.                          *)
LEMMA StatusTells ==
  ASSUME NEW b \in Bundles, NEW t \in Tokens, NEW h, Story(b, t, h), NEW n \in 0..Len(h),
         NEW g \in Nat \ {0}, UpToDate(b, t, h, n, g)
  PROVE  LET status == Image(b, t, h, n, g).status IN
           /\ status = "PENDING_CANCELLABLE" <=> Ending(h, n) = "SELECTED"
           /\ status = "ACTIVE" <=> Ending(h, n) = "ACTIVATED"
           /\ InWindow(b, t, g) => (status = "AVAILABLE" <=> Ending(h, n) \in Waiting)
<1> DEFINE s == Image(b, t, h, n, g)
           k == Ending(h, n)
<1>1. s.status = IF k = "SELECTED" THEN "PENDING_CANCELLABLE"
                 ELSE IF k = "ACTIVATED" THEN "ACTIVE"
                 ELSE IF k = "COMPLETED" THEN "USED"
                 ELSE StatusAt(b, t, g)
  BY ImageFields
<1>2. StatusAt(b, t, g) \notin {"PENDING_CANCELLABLE", "ACTIVE", "USED"}
  BY DEF StatusAt
<1>3. n \in Nat /\ (n > 0 => n \in 1..Len(h))
  BY DEF Story
<1>4. k \in Kinds \cup {"NOTHING"} /\ (n > 0 => k = h[n].event) /\ (n = 0 => k = "NOTHING")
  BY <1>3, StoryFacts DEF Ending
<1>5. ASSUME InWindow(b, t, g)
      PROVE  StatusAt(b, t, g) = "AVAILABLE" /\ k \notin {"NOTHING", "EXPIRED"}
  <2>1. b.grant[t].acquired <= g /\ g <= b.grant[t].expires
    BY <1>5, GrantFacts DEF InWindow
  <2>2. StatusAt(b, t, g) = "AVAILABLE"
    BY <1>5, <2>1, GrantFacts DEF StatusAt
  <2>3. k # "NOTHING"
    BY <2>1, GrantFacts DEF UpToDate
  <2>4. k # "EXPIRED"
    <3> SUFFICES ASSUME k = "EXPIRED" PROVE FALSE
      OBVIOUS
    <3>1. n \in 1..Len(h) /\ h[n].event = "EXPIRED" /\ n > 1
      <4>1. n \in 1..Len(h) /\ h[n].event = "EXPIRED"
        BY <1>3, <1>4, <2>3
      <4> QED BY <4>1, StoryFacts
    <3>2. Follows(b, t, h[n - 1], h[n])
      BY <3>1, StoryFacts
    <3>3. h[n].gameweek = b.grant[t].expires
      BY <3>1, <3>2, FollowsFacts
    <3>4. h[n].gameweek < g
      BY DEF UpToDate
    <3> QED BY <2>1, <3>3, <3>4, GrantFacts
  <2> QED BY <2>2, <2>3, <2>4
<1> HIDE DEF s, k
<1> QED
  BY <1>1, <1>2, <1>4, <1>5 DEF s, k, Waiting, Kinds

(* A token with its own history.                                           *)
LEMMA TellsItself ==
  ASSUME NEW t \in Tokens, NEW b \in Bundles, NEW k, Story(b, t, k), NEW g,
         UpToDate(b, t, k, Len(k), g), NEW s, s = Image(b, t, k, Len(k), g)
  PROVE  LET h == s.history IN
           Story(b, t, h) /\ UpToDate(b, t, h, Len(h), g) /\ s = Image(b, t, h, Len(h), g)
<1>1. s.history = k
  BY WholeHistory
<1> QED
  BY <1>1

(* A new inventory is as told.                                             *)
LEMMA InitAsTold == Init => TokensAsTold
<1> SUFFICES ASSUME Init, NEW t \in Tokens PROVE AsTold(t)
  BY DEF TokensAsTold
<1>1. bundle \in Bundles
  BY DEF Init
<1>2. PICK g \in Gameweeks : inventory = Built(bundle, g)
  BY DEF Init
<1>3. g \in Nat \ {0} /\ 0 \in Nat /\ 0 <= g
  BY BoundsAssumption DEF Gameweeks
<1>4. /\ Story(bundle, t, <<>>) /\ Len(<<>>) = 0 /\ UpToDate(bundle, t, <<>>, 0, 0)
      /\ Ending(<<>>, 0) = "NOTHING"
  BY <1>1, GrantFacts DEF Story, UpToDate, Ending, Waiting
<1>5. PICK k : Story(bundle, t, k) /\ Due(bundle, t, k, 0, Len(k), g)
  <2> DEFINE h == <<>>
  <2>1. /\ Story(bundle, t, h) /\ UpToDate(bundle, t, h, Len(h), 0) /\ Ending(h, Len(h)) # "SELECTED"
        /\ Len(h) = 0
    BY <1>4
  <2> HIDE DEF h
  <2>2. \E k : Story(bundle, t, k) /\ Extends(k, h) /\ Due(bundle, t, k, Len(h), Len(k), g)
    BY <1>1, <1>3, <2>1, Grows
  <2> QED BY <2>1, <2>2
<1>6. token[t] = Image(bundle, t, k, Len(k), g) /\ inventory.gameweek = g
  <2>1. Built(bundle, g).token[t] = Image(bundle, t, k, Len(k), g)
    BY <1>1, <1>3, <1>5, DueAtFirst
  <2>2. inventory.gameweek = g
    BY <1>2 DEF Built
  <2> QED BY <1>2, <2>1, <2>2 DEF token
<1>7. UpToDate(bundle, t, k, Len(k), g)
  BY <1>5 DEF Due
<1> QED
  BY <1>1, <1>5, <1>6, <1>7, TellsItself DEF AsTold

(* A step that replaces one token by one that is as told.                  *)
LEMMA OneReplaced ==
  ASSUME TypeOK, TokensAsTold, NEW t \in Tokens, NEW s,
         inventory' = Replaced(inventory, t, s), bundle' = bundle,
         NEW k, Story(bundle, t, k), UpToDate(bundle, t, k, Len(k), inventory.gameweek),
         s = Image(bundle, t, k, Len(k), inventory.gameweek)
  PROVE  TokensAsTold'
<1>1. /\ inventory'.gameweek = inventory.gameweek
      /\ \A u \in Tokens : token'[u] = IF u = t THEN s ELSE token[u]
  BY DEF Replaced, TypeOK, token
<1>2. bundle \in Bundles
  BY DEF TypeOK
<1>3. ASSUME NEW u \in Tokens, u # t PROVE AsTold(u)'
  <2>1. AsTold(u) /\ token'[u] = token[u]
    BY <1>1, <1>3 DEF TokensAsTold
  <2> QED BY <1>1, <2>1 DEF AsTold
<1>4. AsTold(t)'
  <2> DEFINE h == s.history
  <2>1. /\ Story(bundle, t, h) /\ UpToDate(bundle, t, h, Len(h), inventory.gameweek)
        /\ s = Image(bundle, t, h, Len(h), inventory.gameweek)
    BY <1>2, TellsItself
  <2>2. token'[t] = s
    BY <1>1
  <2> QED BY <1>1, <2>1, <2>2 DEF AsTold
<1> QED
  BY <1>3, <1>4 DEF TokensAsTold

(* What is known of a token before a step.                                 *)
LEMMA ToldFacts ==
  ASSUME TypeOK, TokensAsTold, NEW t \in Tokens
  PROVE  LET h == token[t].history  now == inventory.gameweek IN
           /\ bundle \in Bundles /\ now \in Nat \ {0}
           /\ Story(bundle, t, h) /\ h \in Seq(TokenEvents) /\ Len(h) \in Nat /\ Len(h) \in 0..Len(h)
           /\ UpToDate(bundle, t, h, Len(h), now)
           /\ token[t] = Image(bundle, t, h, Len(h), now)
           /\ h = <<>> => Ending(h, Len(h)) = "NOTHING"
           /\ Ending(h, Len(h)) # "NOTHING" =>
                Len(h) \in 1..Len(h) /\ Ending(h, Len(h)) = h[Len(h)].event /\ Len(h) > 0 /\ h # <<>>
<1> DEFINE h == token[t].history
<1>1. /\ bundle \in Bundles /\ inventory.gameweek \in Nat \ {0}
  BY TokenFields DEF TypeOK
<1>2. AsTold(t)
  BY DEF TokensAsTold
<1>3. h \in Seq(TokenEvents) /\ Len(h) \in Nat
  BY <1>2 DEF AsTold, Story
<1> QED
  BY <1>1, <1>2, <1>3 DEF AsTold, Ending

(* A command adds an event to the history of its token.                    *)
LEMMA CommandTold ==
  ASSUME TypeOK, TokensAsTold, NEW t \in Tokens, NEW kind \in Kinds,
         Ending(token[t].history, Len(token[t].history)) # "NOTHING",
         Follows(bundle, t, token[t].history[Len(token[t].history)],
                 Event(kind, inventory.gameweek))
  PROVE  LET h == token[t].history  n == Len(h)  now == inventory.gameweek
             k == Append(h, Event(kind, now)) IN
           /\ Story(bundle, t, k) /\ Len(k) = n + 1 /\ n \in Nat /\ n + 1 \in 1..Len(k)
           /\ k[n + 1] = Event(kind, now)
           /\ token[t] = Image(bundle, t, k, n, now) /\ UpToDate(bundle, t, k, n, now)
           /\ Ending(k, n) = Ending(h, n) /\ k[n] = h[n]
<1> DEFINE h == token[t].history
           n == Len(h)
           now == inventory.gameweek
           e == Event(kind, now)
           k == Append(h, e)
<1>1. /\ bundle \in Bundles /\ now \in Nat \ {0}
      /\ Story(bundle, t, h) /\ n \in Nat /\ n \in 1..n /\ n > 0 /\ h # <<>>
      /\ UpToDate(bundle, t, h, n, now) /\ token[t] = Image(bundle, t, h, n, now)
  BY ToldFacts
<1>2. e \in TokenEvents /\ Follows(bundle, t, h[n], e)
  BY <1>1, EventType
<1> HIDE DEF e, h, now
<1>3. /\ Story(bundle, t, k) /\ Len(k) = n + 1
      /\ \A i \in 1..n : k[i] = h[i]
      /\ k[n + 1] = e
  BY <1>1, <1>2, LongerStory
<1> HIDE DEF k
<1>4. n <= Len(k)
  BY <1>1, <1>3
<1>5. /\ Image(bundle, t, h, n, now) = Image(bundle, t, k, n, now)
      /\ UpToDate(bundle, t, h, n, now) <=> UpToDate(bundle, t, k, n, now)
      /\ Ending(k, n) = Ending(h, n)
  BY <1>1, <1>3, <1>4, LongerHistory
<1>6. n + 1 \in 1..Len(k) /\ k[n] = h[n]
  BY <1>1, <1>3
<1> QED
  BY <1>1, <1>3, <1>5, <1>6 DEF k, e, h, now

(* A selection ...                                                         *)
LEMMA SelectAsTold ==
  ASSUME TypeOK, TokensAsTold, NEW t \in Tokens, Select(t)
  PROVE  TokensAsTold'
<1> DEFINE h == token[t].history
           n == Len(h)
           now == inventory.gameweek
           k == Append(h, Event("SELECTED", now))
           s == Chosen(token[t], "PENDING_CANCELLABLE", now, Event("SELECTED", now))
<1>1. /\ bundle \in Bundles /\ now \in Nat \ {0} /\ Story(bundle, t, h) /\ n \in 0..n
      /\ UpToDate(bundle, t, h, n, now) /\ token[t] = Image(bundle, t, h, n, now)
  BY ToldFacts
<1>2. /\ token[t].status = "AVAILABLE" /\ Usable(bundle, t, now)
      /\ InWindow(bundle, t, now) /\ bundle.grant[t].cancellable
      /\ inventory' = Replaced(inventory, t, s) /\ bundle' = bundle
  BY DEF Select, Selectable, Available, Usable, Selected, Chosen, token
<1>3. Ending(h, n) \in Waiting
  BY <1>1, <1>2, StatusTells
<1>4. /\ Ending(h, n) # "NOTHING" /\ h[n].event \in Waiting /\ h[n].gameweek <= now
  BY <1>1, <1>3, ToldFacts DEF Waiting, UpToDate
<1>5. Follows(bundle, t, h[n], Event("SELECTED", now))
  BY <1>2, <1>4, EventFields DEF Follows
<1>6. /\ Story(bundle, t, k) /\ Len(k) = n + 1 /\ n \in Nat /\ n + 1 \in 1..Len(k)
      /\ k[n + 1] = Event("SELECTED", now)
      /\ token[t] = Image(bundle, t, k, n, now)
      /\ Ending(k, n) = Ending(h, n)
  BY <1>4, <1>5, CommandTold DEF Kinds
<1>7. /\ s = Image(bundle, t, k, n + 1, now)
      /\ UpToDate(bundle, t, k, n + 1, now)
  <2> HIDE DEF k, now, n, h
  <2> QED BY <1>1, <1>3, <1>6, SelectStep
<1> HIDE DEF k, s
<1> QED
  BY <1>2, <1>6, <1>7, OneReplaced

(* ... a cancellation, by the manager or at a deadline ...                  *)
LEMMA CancellationTold ==
  ASSUME TypeOK, TokensAsTold, NEW t \in Tokens, token[t].status = "PENDING_CANCELLABLE"
  PROVE  LET now == inventory.gameweek
             s == Chosen(token[t], "AVAILABLE", None, Event("CANCELLED", now))
             k == Append(token[t].history, Event("CANCELLED", now)) IN
           /\ Story(bundle, t, k) /\ UpToDate(bundle, t, k, Len(k), now)
           /\ s = Image(bundle, t, k, Len(k), now)
           /\ Ending(k, Len(k)) = "CANCELLED"
<1> DEFINE h == token[t].history
           n == Len(h)
           now == inventory.gameweek
           k == Append(h, Event("CANCELLED", now))
           s == Chosen(token[t], "AVAILABLE", None, Event("CANCELLED", now))
<1>1. /\ bundle \in Bundles /\ now \in Nat \ {0} /\ Story(bundle, t, h) /\ n \in 0..n
      /\ UpToDate(bundle, t, h, n, now) /\ token[t] = Image(bundle, t, h, n, now)
  BY ToldFacts
<1>2. Ending(h, n) = "SELECTED"
  BY <1>1, StatusTells
<1>3. /\ Ending(h, n) # "NOTHING" /\ n \in 1..n /\ h[n].event = "SELECTED" /\ h[n].gameweek = now
  BY <1>1, <1>2, ToldFacts DEF UpToDate
<1>4. bundle.grant[t].cancellable /\ Usable(bundle, t, now)
  <2>1. n > 1 /\ Follows(bundle, t, h[n - 1], h[n])
    BY <1>1, <1>3, StoryFacts
  <2> QED BY <1>3, <2>1, FollowsFacts
<1>5. Follows(bundle, t, h[n], Event("CANCELLED", now))
  BY <1>1, <1>3, <1>4, EventFields DEF Follows
<1>6. /\ Story(bundle, t, k) /\ Len(k) = n + 1 /\ n \in Nat /\ n + 1 \in 1..Len(k)
      /\ k[n + 1] = Event("CANCELLED", now)
      /\ token[t] = Image(bundle, t, k, n, now)
      /\ Ending(k, n) = Ending(h, n)
  BY <1>3, <1>5, CommandTold DEF Kinds
<1>7. /\ s = Image(bundle, t, k, n + 1, now)
      /\ UpToDate(bundle, t, k, n + 1, now)
  <2>1. InWindow(bundle, t, now)
    BY <1>4 DEF Usable
  <2> HIDE DEF k, now, n, h
  <2> QED BY <1>1, <1>2, <1>6, <2>1, CancelStep
<1>8. Ending(k, n + 1) = "CANCELLED"
  BY <1>6, EventFields DEF Ending
<1> HIDE DEF k, s
<1> QED
  BY <1>6, <1>7, <1>8 DEF k, s

(* ... cancel_token ...                                                    *)
LEMMA CancelAsTold ==
  ASSUME TypeOK, TokensAsTold, NEW t \in Tokens, Cancel(t)
  PROVE  TokensAsTold'
<1> DEFINE now == inventory.gameweek
           k == Append(token[t].history, Event("CANCELLED", now))
           s == Chosen(token[t], "AVAILABLE", None, Event("CANCELLED", now))
<1>1. /\ token[t].status = "PENDING_CANCELLABLE"
      /\ inventory' = Replaced(inventory, t, s) /\ bundle' = bundle
  BY DEF Cancel, Cancellable, Cancelled, Chosen, token
<1>2. /\ Story(bundle, t, k) /\ UpToDate(bundle, t, k, Len(k), now)
      /\ s = Image(bundle, t, k, Len(k), now)
  BY <1>1, CancellationTold
<1> HIDE DEF k, s
<1> QED
  BY <1>1, <1>2, OneReplaced

(* ... and an activation are told in the history.                          *)
LEMMA ActivateAsTold ==
  ASSUME TypeOK, TokensAsTold, NEW t \in Tokens, Activate(t)
  PROVE  TokensAsTold'
<1> DEFINE h == token[t].history
           n == Len(h)
           now == inventory.gameweek
           k == Append(h, Event("ACTIVATED", now))
           s == Taken(token[t], now, now + bundle.grant[t].duration - 1, Event("ACTIVATED", now))
<1>1. /\ bundle \in Bundles /\ now \in Nat \ {0} /\ Story(bundle, t, h) /\ n \in 0..n
      /\ UpToDate(bundle, t, h, n, now) /\ token[t] = Image(bundle, t, h, n, now)
  BY ToldFacts
<1>2. /\ \/ token[t].status = "AVAILABLE"
         \/ token[t].status = "PENDING_CANCELLABLE" /\ bundle.grant[t].cancellable
      /\ Usable(bundle, t, now) /\ InWindow(bundle, t, now)
      /\ inventory' = Replaced(inventory, t, s) /\ bundle' = bundle
  BY DEF Activate, Activatable, Exercisable, Available, Usable, Activated, LastGameweek, Taken, token
<1>3. \/ Ending(h, n) \in Waiting
      \/ Ending(h, n) = "SELECTED" /\ bundle.grant[t].cancellable
  BY <1>1, <1>2, StatusTells
<1>4. /\ Ending(h, n) # "NOTHING" /\ h[n].event = Ending(h, n) /\ h[n].gameweek <= now
      /\ Ending(h, n) = "SELECTED" => h[n].gameweek = now
  BY <1>1, <1>3, ToldFacts DEF Waiting, UpToDate
<1>5. Follows(bundle, t, h[n], Event("ACTIVATED", now))
  BY <1>1, <1>2, <1>3, <1>4, EventFields DEF Follows
<1>6. /\ Story(bundle, t, k) /\ Len(k) = n + 1 /\ n \in Nat /\ n + 1 \in 1..Len(k)
      /\ k[n + 1] = Event("ACTIVATED", now)
      /\ token[t] = Image(bundle, t, k, n, now)
      /\ Ending(k, n) = Ending(h, n) /\ k[n] = h[n]
  BY <1>4, <1>5, CommandTold DEF Kinds
<1>7. /\ s = Image(bundle, t, k, n + 1, now)
      /\ UpToDate(bundle, t, k, n + 1, now)
  <2> HIDE DEF k, now, n, h
  <2>1. \/ Ending(k, n) \in Waiting
        \/ Ending(k, n) = "SELECTED" /\ k[n].gameweek = now
    BY <1>3, <1>4, <1>6
  <2> QED BY <1>1, <1>6, <2>1, ActivateStep
<1> HIDE DEF k, s
<1> QED
  BY <1>2, <1>6, <1>7, OneReplaced

(* As time passes, a history tells what ended.                             *)
LEMMA AdvanceAsTold ==
  ASSUME TypeOK, TokensAsTold, NEW gameweek \in Gameweeks, Advance(gameweek)
  PROVE  TokensAsTold'
<1> DEFINE now == inventory.gameweek
<1>1. /\ bundle \in Bundles /\ now \in Nat \ {0} /\ gameweek \in Nat \ {0} /\ now < gameweek
      /\ now <= gameweek /\ bundle' = bundle /\ now # gameweek
      /\ inventory' = Advanced(bundle, inventory, gameweek)
  <2>1. /\ bundle \in Bundles /\ now \in Gameweeks /\ gameweek > now
        /\ bundle' = bundle /\ inventory' = Advanced(bundle, inventory, gameweek)
    BY DEF Advance, TypeOK
  <2> QED BY <2>1, BoundsAssumption DEF Gameweeks
<1>2. /\ inventory'.gameweek = gameweek
      /\ \A t \in Tokens : token'[t] = AdvancedToken(bundle, inventory, t, gameweek)
  BY <1>1 DEF Advanced, token
<1> SUFFICES ASSUME NEW t \in Tokens PROVE AsTold(t)'
  BY DEF TokensAsTold
<1> DEFINE d == Deselected(token[t], now)
<1>3. token'[t] = Grown(bundle, t, d, gameweek)
  BY <1>2 DEF AdvancedToken, Grown, token
<1>4. PICK k : /\ Story(bundle, t, k) /\ UpToDate(bundle, t, k, Len(k), now)
               /\ d = Image(bundle, t, k, Len(k), now) /\ Ending(k, Len(k)) # "SELECTED"
  <2>1. CASE token[t].status = "PENDING_CANCELLABLE"
    <3>1. d = Chosen(token[t], "AVAILABLE", None, Event("CANCELLED", now))
      BY <2>1 DEF Deselected, Chosen
    <3> HIDE DEF d
    <3> QED BY <2>1, <3>1, CancellationTold
  <2>2. CASE token[t].status # "PENDING_CANCELLABLE"
    <3>1. d = token[t]
      BY <2>2 DEF Deselected
    <3> HIDE DEF d
    <3> DEFINE h == token[t].history
    <3>2. /\ Story(bundle, t, h) /\ UpToDate(bundle, t, h, Len(h), now)
          /\ token[t] = Image(bundle, t, h, Len(h), now) /\ Len(h) \in 0..Len(h)
      BY ToldFacts
    <3>3. Ending(h, Len(h)) # "SELECTED"
      BY <1>1, <2>2, <3>2, StatusTells
    <3> QED BY <3>1, <3>2, <3>3
  <2> QED BY <2>1, <2>2
<1> HIDE DEF d
<1>5. PICK m : /\ Story(bundle, t, m) /\ Extends(m, k)
               /\ Due(bundle, t, m, Len(k), Len(m), gameweek)
  BY <1>1, <1>4, Grows
<1>6. /\ Len(k) \in 0..Len(m) /\ d = Image(bundle, t, m, Len(k), now)
      /\ UpToDate(bundle, t, m, Len(k), now) /\ Ending(m, Len(k)) # "SELECTED"
  <2>1. Len(k) \in Nat /\ Len(m) \in Nat /\ Len(k) <= Len(m) /\ \A i \in 1..Len(k) : m[i] = k[i]
    BY <1>4, <1>5 DEF Story, Extends
  <2> QED BY <1>1, <1>4, <1>5, <2>1, LongerHistory
<1>7. token'[t] = Image(bundle, t, m, Len(m), gameweek)
  BY <1>1, <1>3, <1>5, <1>6, DueStep
<1>8. UpToDate(bundle, t, m, Len(m), gameweek)
  BY <1>5 DEF Due
<1>9. LET h == token'[t].history IN
        /\ Story(bundle, t, h) /\ UpToDate(bundle, t, h, Len(h), gameweek)
        /\ token'[t] = Image(bundle, t, h, Len(h), gameweek)
  BY <1>1, <1>5, <1>7, <1>8, TellsItself
<1> QED
  BY <1>1, <1>2, <1>9 DEF AsTold

(* Whatever the manager does, every token is what its history makes of it. *)
THEOREM HistoriesTellAll == Spec => []TokensAsTold
<1>1. ExerciseInvariant /\ TokensAsTold /\ [Next]_vars => TokensAsTold'
  <2> SUFFICES ASSUME TypeOK, TokensAsTold, [Next]_vars PROVE TokensAsTold'
    BY DEF ExerciseInvariant
  <2>1. ASSUME NEW t \in Tokens, Select(t) PROVE TokensAsTold'
    BY <2>1, SelectAsTold
  <2>2. ASSUME NEW t \in Tokens, Cancel(t) PROVE TokensAsTold'
    BY <2>2, CancelAsTold
  <2>3. ASSUME NEW t \in Tokens, Activate(t) PROVE TokensAsTold'
    BY <2>3, ActivateAsTold
  <2>4. ASSUME NEW gameweek \in Gameweeks, Advance(gameweek) PROVE TokensAsTold'
    BY <2>4, AdvanceAsTold
  <2>5. CASE UNCHANGED vars
    BY <2>5 DEF vars, TokensAsTold, AsTold, token
  <2> QED
    BY <2>1, <2>2, <2>3, <2>4, <2>5 DEF Next
<1> QED
  BY <1>1, InitAsTold, ExerciseHolds, PTL DEF Spec

-----------------------------------------------------------------------------
(* The replay.                                                             *)

UnlessEarlier(h, n, gameweek) ==
  \A i \in 1..Len(h) : i > n /\ h[i].event \in UserKinds => gameweek <= h[i].gameweek

(* If no command of an earlier Gameweek is missing, the clock continues    *)
(* the history as it is written.                                           *)
LEMMA Continues ==
  ASSUME NEW b \in Bundles, NEW t \in Tokens, NEW h, Story(b, t, h), NEW now \in Nat \ {0},
         UpToDate(b, t, h, Len(h), now), NEW n \in 0..Len(h), NEW g \in Nat,
         UpToDate(b, t, h, n, g), NEW next \in Nat \ {0}, g < next, next <= now,
         UnlessEarlier(h, n, next)
  PROVE  Ending(h, n) # "SELECTED" /\ \E m : Due(b, t, h, n, m, next)
<1> DEFINE expires == b.grant[t].expires
           acquired == b.grant[t].acquired
<1>1. n \in Nat /\ Len(h) \in Nat /\ h \in Seq(TokenEvents)
  BY DEF Story
<1>2. /\ acquired \in Nat \ {0} /\ expires \in Nat \ {0} /\ acquired <= expires
      /\ \A at : Usable(b, t, at) /\ at \in Nat => at <= expires
  <2> DEFINE end == b.grant[t].end
  <2>1. \A at : Usable(b, t, at) => at <= end
    BY DEF Usable, InWindow
  <2>2. /\ acquired \in Nat \ {0} /\ expires \in Nat \ {0} /\ acquired <= expires
        /\ end \in Nat /\ end <= expires
    <3> DEFINE start == b.grant[t].start
    <3>1. /\ acquired \in Nat \ {0} /\ expires \in Nat \ {0} /\ end \in Nat \ {0}
          /\ start \in Nat \ {0} /\ acquired <= start /\ start <= end /\ end <= expires
      BY GrantFacts
    <3> HIDE DEF end, acquired, expires, start
    <3> QED BY <3>1
  <2> HIDE DEF end, acquired, expires
  <2> QED BY <2>1, <2>2
<1>3. ASSUME n > 0 PROVE n \in 1..Len(h) /\ Ending(h, n) = h[n].event /\ h[n].event \in Kinds
                         /\ h[n].gameweek \in Nat \ {0}
  <2>1. n \in 1..Len(h) /\ Ending(h, n) = h[n].event
    BY <1>1, <1>3 DEF Ending
  <2> QED BY <2>1, StoryFacts
<1>4. ASSUME NEW i \in 1..Len(h), i < Len(h), h[i].event \in Waiting, n <= i, expires < next
      PROVE  i + 1 = Len(h) /\ h[i + 1].event = "EXPIRED" /\ h[i + 1].gameweek = expires
  <2>1. /\ i + 1 \in 1..Len(h) /\ Follows(b, t, h[i], h[i + 1])
        /\ h[i + 1].gameweek \in Nat
    BY <1>4, StoryFacts
  <2>2. ~(h[i + 1].event \in {"SELECTED", "ACTIVATED"} /\ Usable(b, t, h[i + 1].gameweek))
    <3> SUFFICES ASSUME h[i + 1].event \in {"SELECTED", "ACTIVATED"}, Usable(b, t, h[i + 1].gameweek)
                 PROVE  FALSE
      OBVIOUS
    <3>1. i + 1 > n
      BY <1>1, <1>4
    <3>2. next <= h[i + 1].gameweek
      BY <2>1, <3>1 DEF UnlessEarlier, UserKinds
    <3>3. h[i + 1].gameweek <= expires
      BY <1>2, <2>1
    <3> QED BY <1>2, <1>4, <2>1, <3>2, <3>3
  <2>3. h[i + 1].event = "EXPIRED" /\ h[i + 1].gameweek = expires
    BY <1>4, <2>1, <2>2, FollowsFacts
  <2>4. ~(i + 1 < Len(h))
    <3>1. i + 1 < Len(h) => Follows(b, t, h[i + 1], h[(i + 1) + 1])
      BY <2>1, StoryFacts
    <3> QED BY <2>3, <3>1, FollowsFacts
  <2> QED BY <1>1, <2>1, <2>3, <2>4
<1>5. ASSUME NEW i \in 1..Len(h), h[i].event \in Waiting, expires < next
      PROVE  i < Len(h)
  <2> SUFFICES ASSUME ~(i < Len(h)) PROVE FALSE
    OBVIOUS
  <2>1. Ending(h, Len(h)) \in Waiting
    BY <1>1, <1>5 DEF Ending
  <2>2. now <= expires
    BY <2>1 DEF UpToDate
  <2> QED BY <1>2, <1>5, <2>2
<1>6. CASE n > 0 /\ Ending(h, n) \in Waiting
  <2>1. CASE next <= expires
    <3>1. UpToDate(b, t, h, n, next)
      BY <1>3, <1>6, <2>1 DEF UpToDate, Waiting
    <3>2. Due(b, t, h, n, n, next)
      BY <1>1, <3>1 DEF Due
    <3> QED BY <1>6, <3>2 DEF Waiting
  <2>2. CASE ~(next <= expires)
    <3>1. expires < next /\ n \in 1..Len(h) /\ h[n].event \in Waiting /\ n <= n
      BY <1>1, <1>2, <1>3, <1>6, <2>2
    <3>2. n + 1 = Len(h) /\ h[n + 1].event = "EXPIRED" /\ h[n + 1].gameweek = expires
      BY <1>4, <1>5, <3>1
    <3>3. UpToDate(b, t, h, n + 1, next)
      BY <1>1, <1>2, <3>1, <3>2 DEF UpToDate, Ending, Waiting
    <3>4. Due(b, t, h, n, n + 1, next)
      BY <1>1, <3>2, <3>3 DEF Due, UserKinds
    <3> QED BY <1>6, <3>4 DEF Waiting
  <2> QED BY <2>1, <2>2
<1>7. CASE n > 0 /\ Ending(h, n) = "ACTIVATED"
  <2> DEFINE until == h[n].gameweek + b.grant[t].duration - 1
  <2>1. until \in Nat \ {0} /\ n \in 1..Len(h) /\ h[n].event = "ACTIVATED"
    BY <1>3, <1>7, LastOfUse
  <2>2. CASE next <= until
    <3>1. UpToDate(b, t, h, n, next)
      BY <1>3, <1>7, <2>2 DEF UpToDate, Waiting
    <3>2. Due(b, t, h, n, n, next)
      BY <1>1, <3>1 DEF Due
    <3> QED BY <1>7, <3>2
  <2>3. CASE ~(next <= until)
    <3>1. n < Len(h)
      <4> SUFFICES ASSUME ~(n < Len(h)) PROVE FALSE
        OBVIOUS
      <4>1. n = Len(h)
        BY <1>1
      <4>2. now <= until
        BY <1>7, <4>1 DEF UpToDate
      <4> HIDE DEF until
      <4> QED BY <2>1, <2>3, <4>2
    <3>2. h[n + 1].event = "COMPLETED" /\ h[n + 1].gameweek = until /\ n + 1 \in 1..Len(h)
      BY <2>1, <3>1, StoryFacts, FollowsFacts
    <3> HIDE DEF until
    <3>3. UpToDate(b, t, h, n + 1, next)
      BY <1>1, <2>1, <2>3, <3>2 DEF UpToDate, Ending, Waiting
    <3>4. Due(b, t, h, n, n + 1, next)
      BY <1>1, <3>2, <3>3 DEF Due, UserKinds
    <3> QED BY <1>7, <3>4
  <2> QED BY <2>2, <2>3
<1>8. CASE n > 0 /\ Ending(h, n) \in {"COMPLETED", "EXPIRED"}
  <2>1. UpToDate(b, t, h, n, next)
    BY <1>3, <1>8 DEF UpToDate, Waiting
  <2>2. Due(b, t, h, n, n, next)
    BY <1>1, <2>1 DEF Due
  <2> QED BY <1>8, <2>2
<1>9. CASE n > 0 /\ Ending(h, n) = "SELECTED"
  <2>1. n \in 1..Len(h) /\ h[n].event = "SELECTED" /\ h[n].gameweek = g
    BY <1>3, <1>9 DEF UpToDate
  <2>2. n < Len(h)
    <3> SUFFICES ASSUME ~(n < Len(h)) PROVE FALSE
      OBVIOUS
    <3>1. n = Len(h)
      BY <1>1
    <3>2. h[n].gameweek = now
      BY <1>9, <3>1 DEF UpToDate
    <3> QED BY <2>1, <3>2
  <2>3. /\ h[n + 1].event \in {"CANCELLED", "ACTIVATED"} /\ h[n + 1].gameweek = g
        /\ n + 1 \in 1..Len(h)
    BY <2>1, <2>2, StoryFacts, FollowsFacts
  <2>4. next <= h[n + 1].gameweek
    BY <1>1, <2>3 DEF UnlessEarlier, UserKinds
  <2> QED BY <2>3, <2>4
<1>10. CASE n = 0
  <2>0. Ending(h, n) = "NOTHING"
    BY <1>10 DEF Ending
  <2>1. CASE next < acquired
    <3>1. UpToDate(b, t, h, n, next)
      BY <2>0, <2>1 DEF UpToDate, Waiting
    <3>2. Due(b, t, h, n, n, next)
      BY <1>1, <3>1 DEF Due
    <3> QED BY <2>0, <3>2
  <2>2. CASE ~(next < acquired)
    <3>1. Len(h) > 0
      <4> SUFFICES ASSUME Len(h) = 0 PROVE FALSE
        BY <1>1
      <4>1. now < acquired
        BY DEF UpToDate, Ending
      <4> QED BY <1>2, <2>2, <4>1
    <3>2. 1 \in 1..Len(h) /\ h[1] = Event("ACQUIRED", acquired)
      <4>1. 1 \in 1..Len(h)
        BY <1>1, <3>1
      <4> QED BY <4>1, StoryFacts
    <3>3. h[1].event = "ACQUIRED" /\ h[1].event \in Waiting /\ h[1].gameweek = acquired
      BY <3>2, EventFields DEF Waiting
    <3>4. CASE next <= expires
      <4>1. UpToDate(b, t, h, 1, next)
        BY <1>2, <2>2, <3>3, <3>4 DEF UpToDate, Ending, Waiting
      <4>2. Due(b, t, h, n, 1, next)
        BY <1>1, <1>10, <3>2, <3>3, <4>1 DEF Due, UserKinds
      <4> QED BY <2>0, <4>2
    <3>5. CASE ~(next <= expires)
      <4>1. expires < next /\ n <= 1
        BY <1>2, <1>10, <3>5
      <4>2. 1 + 1 = Len(h) /\ h[1 + 1].event = "EXPIRED" /\ h[1 + 1].gameweek = expires
        <5>1. 1 < Len(h)
          BY <1>5, <3>2, <3>3, <4>1
        <5> QED BY <1>4, <3>2, <3>3, <4>1, <5>1
      <4>3. UpToDate(b, t, h, 2, next)
        BY <1>2, <4>1, <4>2 DEF UpToDate, Ending, Waiting
      <4>4. Due(b, t, h, n, 2, next)
        <5>1. \A i \in (n + 1)..2 : i = 1 \/ i = 2
          BY <1>10
        <5>2. 2 \in n..Len(h) /\ h[2].event = "EXPIRED"
          <6>1. 1 + 1 = 2
            OBVIOUS
          <6>2. Len(h) = 2 /\ h[2].event = "EXPIRED"
            BY <4>2, <6>1
          <6> QED BY <1>10, <6>2
        <5> QED BY <3>3, <4>3, <5>1, <5>2 DEF Due, UserKinds
      <4> QED BY <2>0, <4>4
    <3> QED BY <3>4, <3>5
  <2> QED BY <2>1, <2>2
<1> QED
  BY <1>1, <1>3, <1>6, <1>7, <1>8, <1>9, <1>10 DEF Waiting, Kinds

History(t) == token[t].history

(* What the proofs assume of the inventory: all of it is invariant.        *)
ReplayFacts ==
  ExerciseInvariant /\ OccupancyWithinLimit /\ HistoryInOrder /\ TokensAsTold

SingleSelections ==
  \A t, u \in Tokens, g \in Gameweeks : SelectedIn(t, g) /\ SelectedIn(u, g) => t = u

Command(t, i) ==
  [ gameweek |-> History(t)[i].gameweek, token |-> t, index |-> i,
    event |-> History(t)[i].event ]

(* The commands of a history, and their order.                             *)
LEMMA CommandFacts ==
  ASSUME ReplayFacts, NEW c
  PROVE  c \in Commands(inventory) <=>
           \E t \in Tokens : \E i \in 1..Len(History(t)) :
             History(t)[i].event \in UserKinds /\ c = Command(t, i)
<1>1. \A t \in Tokens : DOMAIN History(t) = 1..Len(History(t))
  <2> SUFFICES ASSUME NEW t \in Tokens PROVE DOMAIN History(t) = 1..Len(History(t))
    OBVIOUS
  <2>1. History(t) \in Seq(TokenEvents)
    BY ToldFacts DEF ReplayFacts, ExerciseInvariant, History
  <2> QED BY <2>1
<1> QED
  BY <1>1 DEF Commands, Command, History, token

(* What a command says, and when it was given.                             *)
LEMMA CommandFields ==
  ASSUME ReplayFacts, NEW c \in Commands(inventory)
  PROVE  /\ c.token \in Tokens /\ c.token \in Nat /\ c.index \in 1..Len(History(c.token))
         /\ c.index \in Nat
         /\ c.gameweek \in Gameweeks /\ c.gameweek \in Nat \ {0} /\ c.gameweek <= inventory.gameweek
         /\ c.event \in UserKinds
         /\ c = Command(c.token, c.index)
         /\ History(c.token)[c.index] = Event(c.event, c.gameweek)
<1>1. PICK t \in Tokens : \E i \in 1..Len(History(t)) :
        History(t)[i].event \in UserKinds /\ c = Command(t, i)
  BY CommandFacts
<1>7. PICK i \in 1..Len(History(t)) : History(t)[i].event \in UserKinds /\ c = Command(t, i)
  BY <1>1
<1> DEFINE h == History(t)
           now == inventory.gameweek
<1>2. /\ c.token = t /\ c.index = i /\ c.gameweek = h[i].gameweek /\ c.event = h[i].event
  BY <1>7 DEF Command
<1>3. /\ Story(bundle, t, h) /\ h \in Seq(TokenEvents) /\ Len(h) \in Nat
      /\ UpToDate(bundle, t, h, Len(h), now) /\ now \in Nat \ {0} /\ now \in Gameweeks
      /\ bundle \in Bundles
  BY ToldFacts, TokenFields DEF ReplayFacts, ExerciseInvariant, History
<1>4. h[i].gameweek \in Nat \ {0} /\ h[i] = Event(h[i].event, h[i].gameweek)
  BY <1>3, StoryFacts
<1>5. h[i].gameweek <= now
  <2>1. Len(h) \in 1..Len(h) /\ i \in DOMAIN h /\ Len(h) \in DOMAIN h
    BY <1>3
  <2>2. h[Len(h)].gameweek <= now
    <3>1. h[Len(h)].event \in Kinds /\ Ending(h, Len(h)) = h[Len(h)].event
      BY <1>3, <2>1, StoryFacts DEF Ending
    <3> QED BY <1>3, <3>1 DEF UpToDate, Kinds
  <2>3. i < Len(h) => h[i].gameweek <= h[Len(h)].gameweek
    BY <2>1 DEF ReplayFacts, HistoryInOrder, History
  <2>4. h[Len(h)].gameweek \in Nat
    BY <1>3, <2>1, StoryFacts
  <2> QED BY <1>3, <1>4, <2>1, <2>2, <2>3, <2>4
<1>6. h[i].gameweek \in Gameweeks /\ t \in Nat
  BY <1>3, <1>4, <1>5, BoundsAssumption DEF Gameweeks
<1> QED
  BY <1>2, <1>3, <1>4, <1>5, <1>6, <1>7

(* The image of a finite set is finite.                                    *)
LEMMA FiniteImage ==
  ASSUME NEW S, IsFiniteSet(S), NEW f, f = [x \in S |-> f[x]]
  PROVE  IsFiniteSet({f[x] : x \in S})
<1> DEFINE T == {f[x] : x \in S}
<1>1. f \in Surjection(S, T)
  BY DEF Surjection
<1> HIDE DEF T
<1>2. IsFiniteSet(T)
  BY <1>1, FS_Surjection
<1> QED BY <1>2 DEF T

(* A set of finite sets with a member has one none of whose reductions by  *)
(* one element belongs to it: the proofs apply it to their counterexamples.*)
LEMMA Smallest ==
  ASSUME NEW U, IsFiniteSet(U), NEW Bad, Bad \subseteq SUBSET U, Bad # {}
  PROVE  \E S \in Bad : IsFiniteSet(S) /\ \A x \in S : S \ {x} \notin Bad
<1>1. Bad \subseteq FiniteSubsetsOf(U)
  BY FS_Subset DEF FiniteSubsetsOf
<1>2. IsWellFoundedOn(StrictSubsetOrdering(U), FiniteSubsetsOf(U))
  BY FS_StrictSubsetOrderingWellFounded
<1>3. PICK S \in Bad : \A T \in Bad : ~(<<T, S>> \in StrictSubsetOrdering(U))
  BY <1>1, <1>2, WFMin
<1>4. \A x \in S : S \ {x} \notin Bad
  <2> SUFFICES ASSUME NEW x \in S, S \ {x} \in Bad PROVE FALSE
    OBVIOUS
  <2>1. <<S \ {x}, S>> \in StrictSubsetOrdering(U)
    BY DEF StrictSubsetOrdering
  <2> QED BY <1>3, <2>1
<1> QED BY <1>4, FS_Subset

-----------------------------------------------------------------------------
(* The commands of any inventory, in their order, and the fold over them.  *)

(* What has the shape of an inventory, whether the functions produced it   *)
(* or not.                                                                 *)
Inventories == [gameweek : Gameweeks, token : [Tokens -> TokenStates]]

(* The functions do produce such.                                         *)
LEMMA InventoryType == ASSUME ReplayFacts PROVE inventory \in Inventories
BY DEF ReplayFacts, ExerciseInvariant, TypeOK, Inventories

(* A command has a place, and the place tells the rest of it.              *)
LEMMA CommandTypes ==
  ASSUME NEW inv \in Inventories, NEW c \in Commands(inv)
  PROVE  /\ c.token \in Tokens /\ c.token \in Nat /\ c.index \in Nat
         /\ c.gameweek \in Nat \ {0} /\ c.event \in UserKinds
         /\ c = [ gameweek |-> inv.token[c.token].history[c.index].gameweek,
                  token |-> c.token, index |-> c.index,
                  event |-> inv.token[c.token].history[c.index].event ]
<1>1. PICK t \in Tokens : c \in
        {[gameweek |-> inv.token[t].history[i].gameweek, token |-> t, index |-> i,
          event |-> inv.token[t].history[i].event] :
           i \in {i \in DOMAIN inv.token[t].history : inv.token[t].history[i].event \in UserKinds}}
  BY DEF Commands
<1> DEFINE h == inv.token[t].history
<1>2. PICK i \in DOMAIN h :
        h[i].event \in UserKinds
        /\ c = [gameweek |-> h[i].gameweek, token |-> t, index |-> i, event |-> h[i].event]
  BY <1>1
<1>3. h \in Seq(TokenEvents)
  BY DEF Inventories, TokenStates
<1> HIDE DEF h
<1>4. i \in Nat /\ h[i].gameweek \in Nat \ {0}
  BY <1>3, EventOf
<1>5. t \in Nat
  BY BoundsAssumption
<1> QED BY <1>2, <1>4, <1>5 DEF h

(* There are finitely many.                                                *)
LEMMA CommandsFinite == ASSUME NEW inv \in Inventories PROVE IsFiniteSet(Commands(inv))
<1> DEFINE Places(t) == {i \in DOMAIN inv.token[t].history : inv.token[t].history[i].event \in UserKinds}
           Of(t) == {[gameweek |-> inv.token[t].history[i].gameweek, token |-> t, index |-> i,
                     event |-> inv.token[t].history[i].event] : i \in Places(t)}
<1>1. Commands(inv) = UNION {Of(t) : t \in Tokens}
  BY DEF Commands
<1>2. ASSUME NEW t \in Tokens PROVE IsFiniteSet(Of(t))
  <2>1. inv.token[t].history \in Seq(TokenEvents)
    BY DEF Inventories, TokenStates
  <2>2. IsFiniteSet(DOMAIN inv.token[t].history)
    <3> DEFINE h == inv.token[t].history
    <3>1. DOMAIN h = 1..Len(h) /\ Len(h) \in Nat
      BY <2>1
    <3> HIDE DEF h
    <3>2. IsFiniteSet(1..Len(h))
      <4>1. 1 \in Int /\ Len(h) \in Int
        BY <3>1
      <4> QED BY <4>1, FS_Interval, Zenon
    <3>3. IsFiniteSet(DOMAIN h)
      BY <3>1, <3>2, Zenon
    <3> QED BY <3>3 DEF h
  <2>3. IsFiniteSet(Places(t))
    BY <2>2, FS_Subset
  <2> HIDE DEF Places
  <2> DEFINE f == [i \in Places(t) |->
                   [gameweek |-> inv.token[t].history[i].gameweek, token |-> t, index |-> i,
                    event |-> inv.token[t].history[i].event]]
  <2>4. f = [i \in Places(t) |-> f[i]] /\ Of(t) = {f[i] : i \in Places(t)}
    OBVIOUS
  <2> HIDE DEF f, Of
  <2> QED BY <2>3, <2>4, FiniteImage
<1> HIDE DEF Of
<1>3. IsFiniteSet({Of(t) : t \in Tokens})
  <2> DEFINE f == [t \in Tokens |-> Of(t)]
  <2>1. f = [t \in Tokens |-> f[t]] /\ {Of(t) : t \in Tokens} = {f[t] : t \in Tokens}
    OBVIOUS
  <2>2. IsFiniteSet(Tokens)
    BY BoundsAssumption
  <2> HIDE DEF f
  <2>3. IsFiniteSet({f[t] : t \in Tokens})
    BY <2>1, <2>2, FiniteImage
  <2> QED BY <2>1, <2>3
<1>4. \A S \in {Of(t) : t \in Tokens} : IsFiniteSet(S)
  BY <1>2
<1>5. IsFiniteSet(UNION {Of(t) : t \in Tokens})
  BY <1>3, <1>4, FS_UNION
<1> QED BY <1>1, <1>5

(* No two commands have the same place in the order.                       *)
LEMMA BeforeOrders ==
  ASSUME NEW inv \in Inventories, NEW c \in Commands(inv), NEW d \in Commands(inv)
  PROVE  /\ c # d => Before(c, d) \/ Before(d, c)
         /\ ~(Before(c, d) /\ Before(d, c)) /\ ~Before(c, c)
         /\ Before(c, d) => c.gameweek <= d.gameweek
         /\ \A e \in Commands(inv) : Before(c, d) /\ Before(d, e) => Before(c, e)
<1>1. \A e \in Commands(inv) :
        /\ e.gameweek \in Nat /\ e.token \in Nat /\ e.index \in Nat
  BY CommandTypes
<1>2. c # d => c.token # d.token \/ c.index # d.index
  <2>1. ASSUME c.token = d.token, c.index = d.index PROVE c = d
    BY <2>1, CommandTypes
  <2> QED BY <2>1
<1>3. \A e \in Commands(inv) : Before(c, d) /\ Before(d, e) => Before(c, e)
  BY <1>1 DEF Before
<1> QED
  BY <1>1, <1>2, <1>3 DEF Before

(* Some commands that are a set have a latest.                             *)
LEMMA LatestIsLatest ==
  ASSUME NEW inv \in Inventories, NEW S, S \subseteq Commands(inv), S # {}
  PROVE  Latest(S) \in S /\ \A d \in S \ {Latest(S)} : Before(d, Latest(S))
<1> DEFINE C == Commands(inv)
           IsLatest(c, T) == c \in T /\ \A d \in T \ {c} : Before(d, c)
           Bad == {T \in SUBSET C : T # {} /\ ~ \E c : IsLatest(c, T)}
<1>1. Bad = {}
  <2> SUFFICES ASSUME Bad # {} PROVE FALSE
    OBVIOUS
  <2>1. IsFiniteSet(C) /\ Bad \subseteq SUBSET C
    BY CommandsFinite
  <2>2. PICK T \in Bad : \A x \in T : T \ {x} \notin Bad
    <3> HIDE DEF Bad, C
    <3> QED BY <2>1, Smallest
  <2>3. T \in SUBSET C /\ T # {} /\ ~ \E c : IsLatest(c, T)
    BY <2>2
  <2>4. PICK x \in T : TRUE
    BY <2>3
  <2>5. CASE T \ {x} = {}
    <3>1. IsLatest(x, T)
      BY <2>4, <2>5
    <3> QED BY <2>3, <3>1
  <2>6. CASE T \ {x} # {}
    <3>1. \E c : IsLatest(c, T \ {x})
      BY <2>2, <2>3, <2>4, <2>6
    <3>2. PICK c : IsLatest(c, T \ {x})
      BY <3>1
    <3>3. c \in C /\ x \in C /\ c # x /\ c \in T /\ \A d \in T \ {x} : d # c => Before(d, c) /\ d \in C
      BY <2>3, <2>4, <3>2
    <3> HIDE DEF C
    <3>4. CASE Before(x, c)
      <4>1. IsLatest(c, T)
        BY <3>3, <3>4
      <4> QED BY <2>3, <4>1
    <3>5. CASE Before(c, x)
      <4>1. \A d \in T \ {x} : Before(d, x)
        BY <3>3, <3>5, BeforeOrders DEF C
      <4>2. IsLatest(x, T)
        BY <2>4, <4>1
      <4> QED BY <2>3, <4>2
    <3> QED BY <3>3, <3>4, <3>5, BeforeOrders DEF C
  <2> QED BY <2>5, <2>6
<1>2. \E c : IsLatest(c, S)
  BY <1>1
<1>3. \E c \in S : \A d \in S \ {c} : Before(d, c)
  BY <1>2
<1> QED
  BY <1>3 DEF Latest

IsReplay(b, i, S) ==
  i = [s \in SUBSET S |->
         IF s = {} THEN Built(b, 1) ELSE Replay(b, i[s \ {Latest(s)}], Latest(s))]

(* A replay of commands is the value at their set of the function by which *)
(* the fold is defined.                                                    *)
LEMMA ReplayDefined == ASSUME NEW b, NEW S PROVE AllReplayed(b, S) = (CHOOSE i : IsReplay(b, i, S))[S]
BY DEF AllReplayed, MapThenFoldSet, IsReplay

(* Two such functions agree wherever both are defined.                     *)
LEMMA ReplayUnique ==
  ASSUME NEW inv \in Inventories, NEW b, NEW S, S \subseteq Commands(inv), NEW T, NEW i, NEW j,
         IsReplay(b, i, S), IsReplay(b, j, T), NEW s, s \subseteq S, s \subseteq T
  PROVE  i[s] = j[s]
<1> DEFINE Bad == {r \in SUBSET s : i[r] # j[r]}
<1> SUFFICES ASSUME Bad # {} PROVE FALSE
  OBVIOUS
<1>1. IsFiniteSet(s) /\ Bad \subseteq SUBSET s
  <2>1. s \subseteq Commands(inv) /\ IsFiniteSet(Commands(inv))
    BY CommandsFinite
  <2> QED BY <2>1, FS_Subset
<1>2. PICK r \in Bad : \A x \in r : r \ {x} \notin Bad
  <2> HIDE DEF Bad
  <2> QED BY <1>1, Smallest
<1>3. /\ i[r] = IF r = {} THEN Built(b, 1) ELSE Replay(b, i[r \ {Latest(r)}], Latest(r))
      /\ j[r] = IF r = {} THEN Built(b, 1) ELSE Replay(b, j[r \ {Latest(r)}], Latest(r))
  <2>1. r \in SUBSET S /\ r \in SUBSET T
    OBVIOUS
  <2> QED BY <2>1 DEF IsReplay
<1>4. r # {} /\ r \subseteq Commands(inv)
  BY <1>3
<1>5. Latest(r) \in r
  BY <1>4, LatestIsLatest
<1>6. i[r \ {Latest(r)}] = j[r \ {Latest(r)}]
  BY <1>2, <1>5
<1> QED BY <1>3, <1>4, <1>6

(* There is such a function over every set of commands.                    *)
LEMMA ReplayExists ==
  ASSUME NEW inv \in Inventories, NEW b, NEW U, U \subseteq Commands(inv)
  PROVE  \E i : IsReplay(b, i, U)
<1> DEFINE Bad == {S \in SUBSET U : ~ \E i : IsReplay(b, i, S)}
           base == Built(b, 1)
<1> SUFFICES ASSUME Bad # {} PROVE FALSE
  OBVIOUS
<1>1. PICK S \in Bad : IsFiniteSet(S) /\ \A x \in S : S \ {x} \notin Bad
  <2>1. Bad \subseteq SUBSET U
    OBVIOUS
  <2>2. IsFiniteSet(U)
    BY CommandsFinite, FS_Subset
  <2> HIDE DEF Bad
  <2> QED BY <2>1, <2>2, Smallest
<1>2. S \in SUBSET U /\ ~ (\E i : IsReplay(b, i, S)) /\ S \subseteq Commands(inv)
  BY <1>1
<1>3. \A x \in S : \E i : IsReplay(b, i, S \ {x})
  BY <1>1, <1>2
<1> HIDE DEF Bad, base
<1> DEFINE J(x) == CHOOSE i : IsReplay(b, i, S \ {x})
           k == [s \in SUBSET S |->
                   IF s = S THEN IF s = {} THEN base
                                 ELSE Replay(b, J(Latest(s))[s \ {Latest(s)}], Latest(s))
                   ELSE J(CHOOSE x \in S : x \notin s)[s]]
<1>4. \A x \in S : IsReplay(b, J(x), S \ {x})
  BY <1>3
<1> HIDE DEF J
<1>5. ASSUME NEW s \in SUBSET S, s # S, NEW x \in S, x \notin s
      PROVE  k[s] = J(x)[s]
  <2> DEFINE y == CHOOSE y \in S : y \notin s
  <2>1. y \in S /\ y \notin s
    BY <1>5
  <2>2. k[s] = J(y)[s]
    BY <1>5
  <2> HIDE DEF y, k
  <2>3. IsReplay(b, J(x), S \ {x}) /\ IsReplay(b, J(y), S \ {y})
        /\ S \ {y} \subseteq Commands(inv)
    BY <1>2, <1>4, <1>5, <2>1
  <2>4. s \subseteq S \ {x} /\ s \subseteq S \ {y}
    BY <1>5, <2>1
  <2>5. J(y)[s] = J(x)[s]
    BY <2>3, <2>4, ReplayUnique
  <2> QED BY <2>2, <2>5
<1>6. ASSUME NEW s \in SUBSET S
      PROVE  k[s] = IF s = {} THEN base ELSE Replay(b, k[s \ {Latest(s)}], Latest(s))
  <2> DEFINE c == Latest(s)
  <2>0. s # {} => c \in s
    <3>1. s \subseteq Commands(inv)
      BY <1>2
    <3> QED BY <3>1, LatestIsLatest
  <2>1. s # {} => c \in s /\ s \ {c} \in SUBSET S /\ s \ {c} # S /\ c \in S /\ c \notin s \ {c}
    <3> HIDE DEF c, k
    <3> QED BY <2>0
  <2>2. s # {} => k[s \ {c}] = J(c)[s \ {c}]
    <3> HIDE DEF c, k
    <3> QED BY <2>1, <1>5
  <2>3. CASE s = S
    <3>1. k[s] = IF s = {} THEN base ELSE Replay(b, J(c)[s \ {c}], c)
      BY <2>3
    <3> HIDE DEF k, c
    <3>2. CASE s = {}
      BY <3>1, <3>2
    <3>3. CASE s # {}
      BY <3>1, <3>3, <2>2 DEF c
    <3> QED BY <3>2, <3>3
  <2>4. CASE s # S
    <3>1. PICK x \in S : x \notin s
      BY <2>4
    <3>2. k[s] = J(x)[s]
      <4> HIDE DEF k
      <4> QED BY <2>4, <3>1, <1>5
    <3>3. J(x)[s] = IF s = {} THEN base ELSE Replay(b, J(x)[s \ {c}], c)
      <4>1. s \in SUBSET (S \ {x}) /\ IsReplay(b, J(x), S \ {x})
        BY <3>1, <1>4
      <4> HIDE DEF k
      <4> QED BY <4>1 DEF IsReplay, base
    <3>4. s # {} => k[s \ {c}] = J(x)[s \ {c}]
      <4> HIDE DEF k, c
      <4>1. s # {} => s \ {c} \in SUBSET S /\ s \ {c} # S /\ x \notin s \ {c}
        BY <2>1, <3>1
      <4> QED BY <4>1, <3>1, <1>5
    <3> HIDE DEF k, c
    <3>5. CASE s = {}
      BY <3>2, <3>3, <3>5
    <3>6. CASE s # {}
      BY <3>2, <3>3, <3>4, <3>6 DEF c
    <3> QED BY <3>5, <3>6
  <2> QED BY <2>3, <2>4
<1>7. k = [s \in SUBSET S |-> k[s]]
  OBVIOUS
<1> HIDE DEF k
<1>8. IsReplay(b, k, S)
  BY <1>6, <1>7 DEF IsReplay, base
<1> QED BY <1>2, <1>8

(* No commands leave the inventory of Gameweek 1; some are the latest      *)
(* after the rest.                                                         *)
LEMMA ReplayStep ==
  ASSUME NEW inv \in Inventories, NEW b, NEW S, S \subseteq Commands(inv)
  PROVE  AllReplayed(b, S) =
           IF S = {} THEN Built(b, 1)
           ELSE Replay(b, AllReplayed(b, S \ {Latest(S)}), Latest(S))
<1> DEFINE c == Latest(S)
           i == CHOOSE i : IsReplay(b, i, S)
           j == CHOOSE j : IsReplay(b, j, S \ {c})
<1>1. S \ {c} \subseteq Commands(inv)
  OBVIOUS
<1>2. IsReplay(b, i, S) /\ IsReplay(b, j, S \ {c})
  BY <1>1, ReplayExists
<1>3. AllReplayed(b, S) = i[S] /\ AllReplayed(b, S \ {c}) = j[S \ {c}]
  BY ReplayDefined
<1> HIDE DEF i, j, c
<1>4. i[S \ {c}] = j[S \ {c}]
  BY <1>1, <1>2, ReplayUnique
<1>5. i[S] = IF S = {} THEN Built(b, 1) ELSE Replay(b, i[S \ {c}], c)
  <2>1. S \in SUBSET S
    OBVIOUS
  <2> QED BY <2>1, <1>2 DEF IsReplay, c
<1> QED BY <1>3, <1>4, <1>5 DEF c

-----------------------------------------------------------------------------
(* An inventory on the way: each token is what a part of its history made  *)
(* of it, and of the commands in that part exactly those in S are done.    *)

Stands(st, S, t, n) ==
  /\ n \in 0..Len(History(t))
  /\ st.token[t] = Image(bundle, t, History(t), n, st.gameweek)
  /\ UpToDate(bundle, t, History(t), n, st.gameweek)
  /\ \A i \in 1..Len(History(t)) :
       History(t)[i].event \in UserKinds => (i <= n <=> Command(t, i) \in S)

Standing(st, S) ==
  /\ st = [gameweek |-> st.gameweek, token |-> [t \in Tokens |-> st.token[t]]]
  /\ st.gameweek \in Nat \ {0} /\ st.gameweek <= inventory.gameweek
  /\ \A t \in Tokens : \E n : Stands(st, S, t, n)

(* ... as of the last of them.                                             *)
Retold(st, S) ==
  Standing(st, S) /\ (st.gameweek = 1 \/ \E c \in S : c.gameweek = st.gameweek)

(* What the final inventory says of one history.                           *)
LEMMA HistoryFacts ==
  ASSUME ReplayFacts, NEW t \in Tokens
  PROVE  /\ bundle \in Bundles /\ inventory.gameweek \in Nat \ {0}
         /\ Story(bundle, t, History(t)) /\ Len(History(t)) \in Nat
         /\ UpToDate(bundle, t, History(t), Len(History(t)), inventory.gameweek)
         /\ token[t] = Image(bundle, t, History(t), Len(History(t)), inventory.gameweek)
         /\ \A i, j \in 1..Len(History(t)) : i < j =>
              /\ History(t)[i].gameweek <= History(t)[j].gameweek
              /\ History(t)[i].event \notin {"COMPLETED", "EXPIRED"}
              /\ History(t)[i].event = "ACTIVATED" => History(t)[j].event = "COMPLETED"
<1>1. /\ bundle \in Bundles /\ inventory.gameweek \in Nat \ {0}
      /\ Story(bundle, t, History(t)) /\ Len(History(t)) \in Nat
      /\ UpToDate(bundle, t, History(t), Len(History(t)), inventory.gameweek)
      /\ token[t] = Image(bundle, t, History(t), Len(History(t)), inventory.gameweek)
      /\ History(t) \in Seq(TokenEvents)
  BY ToldFacts DEF ReplayFacts, ExerciseInvariant, History
<1>2. DOMAIN History(t) = 1..Len(History(t))
  BY <1>1
<1>3. \A i, j \in DOMAIN History(t) : i < j =>
              /\ History(t)[i].gameweek <= History(t)[j].gameweek
              /\ History(t)[i].event \notin {"COMPLETED", "EXPIRED"}
              /\ History(t)[i].event = "ACTIVATED" => History(t)[j].event = "COMPLETED"
  BY DEF ReplayFacts, HistoryInOrder, History
<1> QED BY <1>1, <1>2, <1>3

(* Nothing that a history tells is still to come.                          *)
LEMMA AllPast ==
  ASSUME ReplayFacts, NEW t \in Tokens, NEW i \in 1..Len(History(t))
  PROVE  History(t)[i].gameweek \in Nat \ {0} /\ History(t)[i].gameweek <= inventory.gameweek
<1> DEFINE h == History(t)
           now == inventory.gameweek
<1>1. /\ bundle \in Bundles /\ now \in Nat \ {0} /\ Story(bundle, t, h) /\ Len(h) \in Nat
      /\ UpToDate(bundle, t, h, Len(h), now)
      /\ \A j, k \in 1..Len(h) : j < k => h[j].gameweek <= h[k].gameweek
  BY HistoryFacts
<1> HIDE DEF h, now
<1>2. i \in 1..Len(h) /\ Len(h) \in 1..Len(h) /\ Len(h) # 0
  BY <1>1 DEF h
<1>3. h[i].gameweek \in Nat \ {0} /\ h[Len(h)].gameweek \in Nat
  BY <1>1, <1>2, StoryFacts
<1>4. h[Len(h)].event \in Kinds /\ Ending(h, Len(h)) = h[Len(h)].event
  BY <1>1, <1>2, StoryFacts DEF Ending
<1>5. h[Len(h)].gameweek <= now
  BY <1>1, <1>4 DEF UpToDate, Kinds
<1>6. i = Len(h) \/ i < Len(h)
  BY <1>1, <1>2
<1> QED
  BY <1>1, <1>2, <1>3, <1>5, <1>6 DEF h, now

(* advance_inventory leaves an inventory on the way, if no command is left *)
(* behind.                                                                 *)
LEMMA Reached ==
  ASSUME ReplayFacts, NEW st, NEW S, Standing(st, S), NEW next \in Nat \ {0},
         st.gameweek <= next, next <= inventory.gameweek,
         \A c \in Commands(inventory) : c.gameweek < next => c \in S
  PROVE  Advanced(bundle, st, next).gameweek = next /\ Standing(Advanced(bundle, st, next), S)
<1> DEFINE inv == Advanced(bundle, st, next)
           now == inventory.gameweek
<1>1. CASE next = st.gameweek
  BY <1>1 DEF Advanced
<1>2. CASE next # st.gameweek
  <2>1. inv = [gameweek |-> next, token |-> [t \in Tokens |-> AdvancedToken(bundle, st, t, next)]]
    BY <1>2 DEF Advanced
  <2>2. inv.gameweek = next /\ \A t \in Tokens : inv.token[t] = AdvancedToken(bundle, st, t, next)
    BY <2>1
  <2>3. inv = [gameweek |-> inv.gameweek, token |-> [t \in Tokens |-> inv.token[t]]]
    BY <2>1
  <2>4. st.gameweek \in Nat \ {0} /\ st.gameweek < next
    BY <1>2 DEF Standing
  <2> HIDE DEF inv
  <2>5. ASSUME NEW t \in Tokens PROVE \E n : Stands(inv, S, t, n)
    <3> DEFINE h == History(t)
    <3>1. PICK n : Stands(st, S, t, n)
      BY DEF Standing
    <3>2. /\ bundle \in Bundles /\ now \in Nat \ {0} /\ Story(bundle, t, h) /\ Len(h) \in Nat
          /\ UpToDate(bundle, t, h, Len(h), now)
      BY HistoryFacts
    <3>3. /\ n \in 0..Len(h) /\ st.token[t] = Image(bundle, t, h, n, st.gameweek)
          /\ UpToDate(bundle, t, h, n, st.gameweek)
          /\ \A i \in 1..Len(h) : h[i].event \in UserKinds => (i <= n <=> Command(t, i) \in S)
      BY <3>1 DEF Stands
    <3>4. UnlessEarlier(h, n, next)
      <4> SUFFICES ASSUME NEW i \in 1..Len(h), i > n, h[i].event \in UserKinds
                   PROVE  next <= h[i].gameweek
        BY DEF UnlessEarlier
      <4>1. Command(t, i) \notin S
        BY <3>2, <3>3
      <4>2. Command(t, i) \in Commands(inventory) /\ Command(t, i).gameweek = h[i].gameweek
        BY CommandFacts DEF Command
      <4>3. h[i].gameweek \in Nat
        BY AllPast
      <4> HIDE DEF h
      <4> QED BY <4>1, <4>2, <4>3
    <3> HIDE DEF h, now
    <3>5. Ending(h, n) # "SELECTED" /\ \E m : Due(bundle, t, h, n, m, next)
      <4>1. st.gameweek \in Nat /\ next <= now
        BY <2>4 DEF now
      <4> QED BY ONLY <3>2, <3>3, <3>4, <2>4, <4>1, t \in Tokens, next \in Nat \ {0}, Continues
    <3>6. PICK m : Due(bundle, t, h, n, m, next)
      BY <3>5
    <3>7. st.token[t].status # "PENDING_CANCELLABLE"
      BY <3>2, <3>3, <3>5, <2>4, StatusTells
    <3>8. AdvancedToken(bundle, st, t, next) = Grown(bundle, t, st.token[t], next)
      BY <3>7 DEF AdvancedToken, Deselected, Grown
    <3>9. Grown(bundle, t, st.token[t], next) = Image(bundle, t, h, m, next)
      BY <3>2, <3>3, <3>5, <3>6, <2>4, DueStep
    <3>10. /\ m \in n..Len(h) /\ UpToDate(bundle, t, h, m, next)
           /\ \A i \in (n + 1)..m : h[i].event \notin UserKinds
      BY <3>6 DEF Due
    <3>11. \A i \in 1..Len(h) : h[i].event \in UserKinds => (i <= m <=> Command(t, i) \in S)
      <4>1. \A i \in 1..Len(h) : h[i].event \in UserKinds => (i <= m <=> i <= n)
        BY <3>2, <3>3, <3>10
      <4> QED BY <3>3, <4>1
    <3>12. m \in 0..Len(h)
      BY <3>2, <3>3, <3>10
    <3>13. Stands(inv, S, t, m)
      BY <2>2, <3>8, <3>9, <3>10, <3>11, <3>12 DEF Stands, h
    <3> QED BY <3>13
  <2>6. inv.gameweek \in Nat \ {0} /\ inv.gameweek <= inventory.gameweek
    BY <2>2
  <2>7. Standing(inv, S)
    BY <2>3, <2>5, <2>6 DEF Standing
  <2> QED BY <2>2, <2>7 DEF inv
<1> QED BY <1>1, <1>2

(* The verifier starts with what build_chip_inventory makes for Gameweek 1.*)
LEMMA Begun == ASSUME ReplayFacts PROVE Retold(Built(bundle, 1), {})
<1> DEFINE st == Built(bundle, 1)
           now == inventory.gameweek
<1>1. st.gameweek = 1 /\ st = [gameweek |-> st.gameweek, token |-> [t \in Tokens |-> st.token[t]]]
  BY DEF Built
<1>2. now \in Nat \ {0}
  BY BoundsAssumption DEF ReplayFacts, ExerciseInvariant, TypeOK, Gameweeks
<1> HIDE DEF st
<1>3. ASSUME NEW t \in Tokens PROVE \E n : Stands(st, {}, t, n)
  <2> DEFINE h == History(t)
  <2>1. /\ bundle \in Bundles /\ now \in Nat \ {0} /\ Story(bundle, t, h) /\ Len(h) \in Nat
        /\ UpToDate(bundle, t, h, Len(h), now)
    BY HistoryFacts
  <2>2. 0 \in 0..Len(h) /\ UpToDate(bundle, t, h, 0, 0)
    <3>1. 0 < bundle.grant[t].acquired
      BY <2>1, GrantFacts
    <3> QED BY <2>1, <3>1 DEF UpToDate, Ending, Waiting
  <2>3. UnlessEarlier(h, 0, 1)
    <3>1. \A i \in 1..Len(h) : h[i].gameweek \in Nat \ {0}
      BY AllPast
    <3> HIDE DEF h
    <3> QED BY <3>1 DEF UnlessEarlier
  <2> HIDE DEF h, now
  <2>4. \E m : Due(bundle, t, h, 0, m, 1)
    <3>1. 1 \in Nat \ {0} /\ 0 \in Nat /\ 0 < 1 /\ 1 <= now
      BY <2>1
    <3> QED BY ONLY <2>1, <2>2, <2>3, <3>1, t \in Tokens, Continues
  <2>5. PICK m : Due(bundle, t, h, 0, m, 1)
    BY <2>4
  <2>6. st.token[t] = Image(bundle, t, h, m, 1)
    <3>1. 1 \in Nat \ {0}
      OBVIOUS
    <3> QED BY <2>1, <2>5, <3>1, DueAtFirst DEF st
  <2>7. m \in 0..Len(h) /\ UpToDate(bundle, t, h, m, 1) /\ \A i \in 1..m : h[i].event \notin UserKinds
    BY <2>5 DEF Due
  <2>8. \A i \in 1..Len(h) : h[i].event \in UserKinds => ~(i <= m)
    BY <2>1, <2>7
  <2>9. Stands(st, {}, t, m)
    BY <1>1, <2>6, <2>7, <2>8 DEF Stands, h
  <2> QED BY <2>9
<1>4. st.gameweek \in Nat \ {0} /\ st.gameweek <= inventory.gameweek
  BY <1>1, <1>2
<1>5. Standing(st, {})
  BY <1>1, <1>3, <1>4 DEF Standing
<1> QED BY <1>1, <1>5 DEF Retold, st

-----------------------------------------------------------------------------
(* One command more.                                                       *)

(* A use that a history tells is in the final inventory.                   *)
LEMMA UseLasts ==
  ASSUME ReplayFacts, NEW t \in Tokens, NEW n \in 1..Len(History(t)),
         History(t)[n].event = "ACTIVATED"
  PROVE  LET f == History(t)[n].gameweek IN
           /\ f \in Nat \ {0} /\ Exercised(t) /\ token[t].from = f
           /\ token[t].until = f + bundle.grant[t].duration - 1
           /\ token[t].until \in Nat /\ f <= token[t].until
<1> DEFINE h == History(t)
           now == inventory.gameweek
           f == h[n].gameweek
<1>1. /\ bundle \in Bundles /\ now \in Nat \ {0} /\ Story(bundle, t, h) /\ Len(h) \in Nat
      /\ token[t] = Image(bundle, t, h, Len(h), now)
      /\ \A i, j \in 1..Len(h) : i < j =>
           /\ h[i].event \notin {"COMPLETED", "EXPIRED"}
           /\ h[i].event = "ACTIVATED" => h[j].event = "COMPLETED"
  BY HistoryFacts
<1>2. f \in Nat \ {0} /\ h[n].event = "ACTIVATED" /\ n \in 1..Len(h)
  BY AllPast
<1> HIDE DEF h, now
<1>3. UseFrom(h, Len(h)) = f
  <2>1. CASE n = Len(h)
    BY <1>1, <1>2, <2>1 DEF UseFrom, Ending
  <2>2. CASE n # Len(h)
    <3>1. n + 1 \in 1..Len(h) /\ Len(h) \in 1..Len(h) /\ n < n + 1 /\ n < Len(h)
      BY <1>1, <1>2, <2>2
    <3>2. h[n + 1].event = "COMPLETED" /\ h[Len(h)].event = "COMPLETED"
      BY <1>1, <1>2, <3>1
    <3>3. ~(n + 1 < Len(h))
      BY <1>1, <3>1, <3>2
    <3>4. Len(h) = n + 1 /\ Len(h) - 1 = n
      BY <1>1, <1>2, <3>1, <3>3
    <3> QED BY <3>1, <3>2, <3>4, <1>1 DEF UseFrom, Ending
  <2> QED BY <2>1, <2>2
<1>4. /\ token[t].from = UseFrom(h, Len(h))
      /\ token[t].until = IF UseFrom(h, Len(h)) = None THEN None
                          ELSE UseFrom(h, Len(h)) + bundle.grant[t].duration - 1
  BY <1>1 DEF Image
<1>5. f + bundle.grant[t].duration - 1 \in Nat \ {0} /\ f <= f + bundle.grant[t].duration - 1
  BY <1>1, <1>2, LastOfUse
<1>6. f # None
  BY <1>2 DEF None
<1> QED
  BY <1>2, <1>3, <1>4, <1>5, <1>6 DEF Exercised, h

(* What the next command does to its token is in the token's history, and  *)
(* it does nothing to the others.                                          *)
LEMMA CommandDone ==
  ASSUME ReplayFacts, NEW inv, NEW S, Standing(inv, S), NEW y \in Commands(inventory),
         Stands(inv, S, y.token, y.index - 1), inv.gameweek = y.gameweek, NEW s,
         s = Image(bundle, y.token, History(y.token), y.index, y.gameweek),
         UpToDate(bundle, y.token, History(y.token), y.index, y.gameweek)
  PROVE  /\ Standing(Replaced(inv, y.token, s), S \cup {y})
         /\ Replaced(inv, y.token, s).gameweek = y.gameweek
<1> DEFINE u == y.token
           i == y.index
           st == Replaced(inv, u, s)
<1>1. /\ u \in Tokens /\ i \in 1..Len(History(u)) /\ i \in Nat /\ y = Command(u, i)
      /\ Len(History(u)) \in Nat
  BY CommandFields, HistoryFacts
<1>2. inv = [gameweek |-> inv.gameweek, token |-> [t \in Tokens |-> inv.token[t]]]
      /\ inv.gameweek \in Nat \ {0} /\ inv.gameweek <= inventory.gameweek
  BY DEF Standing
<1>3. st = [gameweek |-> inv.gameweek, token |-> [t \in Tokens |-> IF t = u THEN s ELSE inv.token[t]]]
  BY <1>1, <1>2 DEF Replaced
<1>4. st.gameweek = inv.gameweek /\ \A t \in Tokens : st.token[t] = IF t = u THEN s ELSE inv.token[t]
  BY <1>3
<1>5. st = [gameweek |-> st.gameweek, token |-> [t \in Tokens |-> st.token[t]]]
  BY <1>3
<1> HIDE DEF st
<1>6. ASSUME NEW t \in Tokens, t # u PROVE \E n : Stands(st, S \cup {y}, t, n)
  <2>1. PICK n : Stands(inv, S, t, n)
    BY DEF Standing
  <2>2. \A j : Command(t, j) # y
    BY <1>1, <1>6 DEF Command
  <2>3. st.token[t] = inv.token[t]
    BY <1>4, <1>6
  <2>4. Stands(st, S \cup {y}, t, n)
    BY <1>4, <2>1, <2>2, <2>3 DEF Stands
  <2> QED BY <2>4
<1>7. Stands(st, S \cup {y}, u, i)
  <2>1. i \in 0..Len(History(u))
    BY <1>1
  <2>2. st.token[u] = Image(bundle, u, History(u), i, st.gameweek)
        /\ UpToDate(bundle, u, History(u), i, st.gameweek)
    BY <1>1, <1>4
  <2>3. ASSUME NEW j \in 1..Len(History(u)), History(u)[j].event \in UserKinds
        PROVE  j <= i <=> Command(u, j) \in S \cup {y}
    <3>1. j <= i - 1 <=> Command(u, j) \in S
      BY <2>3 DEF Stands
    <3>2. Command(u, j) = y <=> j = i
      BY <1>1 DEF Command
    <3>3. j <= i <=> j <= i - 1 \/ j = i
      BY <1>1, <2>3
    <3> QED BY <3>1, <3>2, <3>3
  <2> QED BY <2>1, <2>2, <2>3 DEF Stands
<1>8. Standing(st, S \cup {y})
  <2>1. st.gameweek \in Nat \ {0} /\ st.gameweek <= inventory.gameweek
    BY <1>2, <1>4
  <2>2. \A t \in Tokens : \E n : Stands(st, S \cup {y}, t, n)
    BY <1>6, <1>7
  <2> QED BY <1>5, <2>1, <2>2 DEF Standing
<1> QED BY <1>4, <1>8 DEF st

(* Where the next command finds its token: after the event before it.      *)
LEMMA NextOfItsToken ==
  ASSUME ReplayFacts, NEW inv, NEW S, Standing(inv, S), NEW y \in Commands(inventory), y \notin S,
         inv.gameweek = y.gameweek,
         \A c \in Commands(inventory) : Before(c, y) => c \in S
  PROVE  /\ Stands(inv, S, y.token, y.index - 1) /\ y.index - 1 \in 1..Len(History(y.token))
         /\ Follows(bundle, y.token, History(y.token)[y.index - 1], History(y.token)[y.index])
<1> DEFINE u == y.token
           i == y.index
           h == History(u)
           g == y.gameweek
<1>1. /\ u \in Tokens /\ i \in 1..Len(h) /\ i \in Nat /\ y = Command(u, i) /\ g \in Nat
      /\ h[i] = Event(y.event, g) /\ y.event \in UserKinds /\ u \in Nat
  BY CommandFields
<1>2. /\ bundle \in Bundles /\ Story(bundle, u, h) /\ Len(h) \in Nat
      /\ \A j, k \in 1..Len(h) : j < k =>
           h[j].gameweek <= h[k].gameweek /\ h[j].event \notin {"COMPLETED", "EXPIRED"}
  BY <1>1, HistoryFacts
<1>3. PICK n : Stands(inv, S, u, n)
  BY <1>1 DEF Standing
<1>4. /\ n \in 0..Len(h) /\ UpToDate(bundle, u, h, n, g)
      /\ \A j \in 1..Len(h) : h[j].event \in UserKinds => (j <= n <=> Command(u, j) \in S)
  BY <1>3 DEF Stands
<1>5. \A j \in 1..Len(h) : /\ h[j].event \in UserKinds => Command(u, j) \in Commands(inventory)
                           /\ h[j].gameweek \in Nat \ {0}
                           /\ Command(u, j).gameweek = h[j].gameweek /\ Command(u, j).token = u
                           /\ Command(u, j).index = j
  BY <1>1, CommandFacts, AllPast DEF Command
<1>6. h[i].event = y.event /\ h[i].gameweek = g
  BY <1>1, EventFields
<1> HIDE DEF h, g
<1>7. i > 1
  <2>1. h[i].event # "ACQUIRED"
    BY <1>1, <1>6 DEF UserKinds
  <2>2. i # 1
    BY <1>1, <1>2, <2>1, StoryFacts
  <2> QED BY <1>1, <2>2
<1>8. ~(i <= n)
  BY <1>1, <1>4, <1>6
<1>9. ~(n + 1 < i)
  <2> SUFFICES ASSUME n + 1 < i PROVE FALSE
    OBVIOUS
  <2> DEFINE j == n + 1
  <2>1. j \in 1..Len(h) /\ j < i /\ ~(j <= n) /\ n \in Nat
    BY <1>1, <1>2, <1>4
  <2> HIDE DEF j
  <2>2. h[j].gameweek <= g /\ h[j].event \notin {"COMPLETED", "EXPIRED"}
    BY <1>1, <1>2, <1>6, <2>1
  <2>3. CASE h[j].event \in UserKinds
    <3>1. Before(Command(u, j), y)
      <4>1. /\ Command(u, j).gameweek = h[j].gameweek /\ Command(u, j).token = u
            /\ Command(u, j).index = j /\ h[j].gameweek \in Nat
        BY <1>5, <2>1
      <4> QED BY <4>1, <1>1, <2>1, <2>2 DEF Before, g
    <3>2. Command(u, j) \in S
      BY <1>5, <2>1, <2>3, <3>1
    <3> QED BY <1>4, <2>1, <2>3, <3>2
  <2>4. CASE h[j].event \notin UserKinds
    <3>1. h[j].event \in Kinds
      BY <1>1, <1>2, <2>1, StoryFacts
    <3>2. h[j].event = "ACQUIRED"
      BY <2>2, <2>4, <3>1 DEF Kinds, UserKinds
    <3>3. j = 1 /\ h[1] = Event("ACQUIRED", bundle.grant[u].acquired)
      BY <1>1, <1>2, <2>1, <3>2, StoryFacts
    <3>4. n = 0
      BY <2>1, <3>3 DEF j
    <3>5. g < bundle.grant[u].acquired
      BY <1>4, <3>4 DEF UpToDate, Ending
    <3>6. h[j].gameweek = bundle.grant[u].acquired
      BY <3>3, EventFields
    <3>7. bundle.grant[u].acquired \in Nat
      BY <1>1, <1>2, GrantFacts
    <3> QED BY <1>1, <2>2, <3>5, <3>6, <3>7 DEF g
  <2> QED BY <2>3, <2>4
<1>10. n = i - 1 /\ i - 1 \in 1..Len(h)
  BY <1>1, <1>2, <1>4, <1>7, <1>8, <1>9
<1>11. Follows(bundle, u, h[i - 1], h[i])
  BY <1>1, <1>2, <1>7, StoryFacts
<1> QED BY <1>3, <1>10, <1>11 DEF h

(* The next command, on an inventory that time has brought to its Gameweek.*)
IsNext(inv, S, y) ==
  /\ Standing(inv, S) /\ y \in Commands(inventory) /\ inv.gameweek = y.gameweek
  /\ Stands(inv, S, y.token, y.index - 1) /\ y.index - 1 \in 1..Len(History(y.token))
  /\ Follows(bundle, y.token, History(y.token)[y.index - 1], History(y.token)[y.index])

(* What the lemmas about the three commands have in common.                *)
LEMMA NextFacts ==
  ASSUME ReplayFacts, NEW inv, NEW S, NEW y, IsNext(inv, S, y)
  PROVE  LET u == y.token  h == History(u)  n == y.index - 1  g == y.gameweek IN
           /\ u \in Tokens /\ g \in Gameweeks /\ g \in Nat \ {0} /\ inv.gameweek = g
           /\ bundle \in Bundles /\ Story(bundle, u, h) /\ Len(h) \in Nat
           /\ n \in Nat /\ n \in 0..Len(h) /\ n \in 1..Len(h) /\ n + 1 \in 1..Len(h)
           /\ n + 1 = y.index
           /\ h[n + 1] = Event(y.event, g) /\ h[n + 1].event = y.event /\ h[n + 1].gameweek = g
           /\ Ending(h, n) = h[n].event /\ h[n].event \in Kinds
           /\ inv.token[u] = Image(bundle, u, h, n, g) /\ UpToDate(bundle, u, h, n, g)
           /\ Follows(bundle, u, h[n], h[n + 1])
<1> DEFINE u == y.token
           h == History(u)
           n == y.index - 1
           g == y.gameweek
<1>1. /\ u \in Tokens /\ g \in Gameweeks /\ g \in Nat \ {0} /\ y.index \in 1..Len(h) /\ y.index \in Nat
      /\ h[y.index] = Event(y.event, g)
  BY CommandFields DEF IsNext
<1>2. bundle \in Bundles /\ Story(bundle, u, h) /\ Len(h) \in Nat
  BY <1>1, HistoryFacts
<1>3. /\ inv.gameweek = g /\ Stands(inv, S, u, n) /\ n \in 1..Len(h)
      /\ Follows(bundle, u, h[n], h[y.index])
  BY DEF IsNext
<1>4. inv.token[u] = Image(bundle, u, h, n, g) /\ UpToDate(bundle, u, h, n, g)
  BY <1>3 DEF Stands
<1>5. n \in Nat /\ n \in 0..Len(h) /\ n + 1 = y.index
  BY <1>1, <1>2, <1>3
<1>6. Ending(h, n) = h[n].event
  BY <1>3 DEF Ending
<1>7. h[n].event \in Kinds
  BY <1>1, <1>2, <1>3, StoryFacts
<1>8. h[y.index].event = y.event /\ h[y.index].gameweek = g
  BY <1>1, EventFields
<1> HIDE DEF u, h, n, g
<1> QED BY <1>1, <1>2, <1>3, <1>4, <1>5, <1>6, <1>7, <1>8 DEF u, h, n, g

(* Two selections of one Gameweek are of one token, and a pending token    *)
(* was selected in its Gameweek: the verifier may select again.            *)
LEMMA SelectAgain ==
  ASSUME ReplayFacts, SingleSelections, NEW inv, NEW S, NEW y, IsNext(inv, S, y),
         y.event = "SELECTED"
  PROVE  /\ Selectable(bundle, inv, y.token)
         /\ Standing(Selected(inv, y.token), S \cup {y})
         /\ Selected(inv, y.token).gameweek = y.gameweek
<1> DEFINE u == y.token
           h == History(u)
           n == y.index - 1
           g == y.gameweek
           s == Image(bundle, u, h, n, g)
<1>1. /\ u \in Tokens /\ g \in Gameweeks /\ g \in Nat \ {0} /\ inv.gameweek = g
      /\ bundle \in Bundles /\ Story(bundle, u, h) /\ Len(h) \in Nat
      /\ n \in Nat /\ n \in 0..Len(h) /\ n \in 1..Len(h) /\ n + 1 \in 1..Len(h)
      /\ n + 1 = y.index
      /\ h[n + 1] = Event("SELECTED", g) /\ h[n + 1].event = "SELECTED" /\ h[n + 1].gameweek = g
      /\ Ending(h, n) = h[n].event /\ h[n].event \in Kinds
      /\ inv.token[u] = s /\ UpToDate(bundle, u, h, n, g)
      /\ Follows(bundle, u, h[n], h[n + 1])
  BY NextFacts
<1>2. Standing(inv, S) /\ y \in Commands(inventory) /\ Stands(inv, S, u, n)
  BY DEF IsNext
<1> HIDE DEF u, h, n, g, s
<1>3. Ending(h, n) \in Waiting /\ bundle.grant[u].cancellable /\ Usable(bundle, u, g)
  <2>1. h[n].event \in Waiting /\ bundle.grant[u].cancellable /\ Usable(bundle, u, h[n + 1].gameweek)
    BY <1>1, EventFields DEF Follows
  <2> QED BY <1>1, <2>1
<1>4. Available(bundle, inv, u)
  <2>1. s.status = "AVAILABLE"
    BY <1>1, <1>3, StatusTells DEF Usable, s
  <2> QED BY <1>1, <1>3, <2>1 DEF Available, Usable
<1>5. Having(inv, "PENDING_CANCELLABLE") = {}
  <2> SUFFICES ASSUME NEW v \in Tokens, inv.token[v].status = "PENDING_CANCELLABLE" PROVE FALSE
    BY DEF Having
  <2>1. v # u
    BY <1>4 DEF Available
  <2>2. PICK m : Stands(inv, S, v, m)
    BY <1>2 DEF Standing
  <2>3. /\ m \in 0..Len(History(v)) /\ UpToDate(bundle, v, History(v), m, g)
        /\ inv.token[v] = Image(bundle, v, History(v), m, g)
    BY <1>1, <2>2 DEF Stands
  <2>4. Story(bundle, v, History(v)) /\ Len(History(v)) \in Nat
    BY HistoryFacts
  <2>5. Ending(History(v), m) = "SELECTED"
    BY <1>1, <2>3, <2>4, StatusTells
  <2>6. m # 0 /\ History(v)[m].event = "SELECTED" /\ History(v)[m].gameweek = g
    BY <2>3, <2>5 DEF UpToDate, Ending
  <2>7. m \in 1..Len(History(v))
    BY <2>3, <2>4, <2>6
  <2>8. History(v)[m] = Event("SELECTED", g) /\ m \in DOMAIN History(v)
    <3>1. /\ History(v)[m] = Event(History(v)[m].event, History(v)[m].gameweek)
          /\ m \in DOMAIN History(v)
      BY <1>1, <2>4, <2>7, StoryFacts
    <3> QED BY <2>6, <3>1
  <2>9. SelectedIn(v, g)
    BY <2>8 DEF SelectedIn, History
  <2>10. SelectedIn(u, g)
    <3>1. n + 1 \in DOMAIN h
      BY <1>1, StoryFacts
    <3> QED BY <1>1, <3>1 DEF SelectedIn, History, h
  <2> QED BY <1>1, <2>1, <2>9, <2>10 DEF SingleSelections
<1>6. Selectable(bundle, inv, u)
  BY <1>3, <1>4, <1>5 DEF Selectable
<1>7. Selected(inv, u) = Replaced(inv, u, Chosen(s, "PENDING_CANCELLABLE", g, Event("SELECTED", g)))
  BY <1>1 DEF Selected, Chosen
<1>8. /\ Chosen(s, "PENDING_CANCELLABLE", g, Event("SELECTED", g)) = Image(bundle, u, h, n + 1, g)
      /\ UpToDate(bundle, u, h, n + 1, g)
  BY <1>1, <1>3, SelectStep DEF s
<1> DEFINE r == Image(bundle, u, h, n + 1, g)
<1>9. r = Image(bundle, y.token, History(y.token), y.index, y.gameweek)
      /\ UpToDate(bundle, y.token, History(y.token), y.index, y.gameweek)
  BY <1>1, <1>8 DEF u, h, g
<1>10. Selected(inv, u) = Replaced(inv, y.token, r)
  BY <1>7, <1>8 DEF u
<1>11. Stands(inv, S, y.token, y.index - 1) /\ inv.gameweek = y.gameweek
  BY <1>1, <1>2 DEF u, n, g
<1> HIDE DEF r
<1>12. /\ Standing(Replaced(inv, y.token, r), S \cup {y})
       /\ Replaced(inv, y.token, r).gameweek = y.gameweek
  BY ONLY ReplayFacts, <1>2, <1>9, <1>11, CommandDone
<1> QED
  BY <1>6, <1>10, <1>12 DEF u

(* A cancelled token was pending.                                          *)
LEMMA CancelAgain ==
  ASSUME ReplayFacts, NEW inv, NEW S, NEW y, IsNext(inv, S, y), y.event = "CANCELLED"
  PROVE  /\ Cancellable(inv, y.token)
         /\ Standing(Cancelled(inv, y.token), S \cup {y})
         /\ Cancelled(inv, y.token).gameweek = y.gameweek
<1> DEFINE u == y.token
           h == History(u)
           n == y.index - 1
           g == y.gameweek
           s == Image(bundle, u, h, n, g)
<1>1. /\ u \in Tokens /\ g \in Nat \ {0} /\ inv.gameweek = g
      /\ bundle \in Bundles /\ Story(bundle, u, h) /\ Len(h) \in Nat
      /\ n \in Nat /\ n \in 0..Len(h) /\ n \in 1..Len(h) /\ n + 1 \in 1..Len(h)
      /\ n + 1 = y.index
      /\ h[n + 1] = Event("CANCELLED", g) /\ h[n + 1].event = "CANCELLED" /\ h[n + 1].gameweek = g
      /\ Ending(h, n) = h[n].event /\ h[n].event \in Kinds
      /\ inv.token[u] = s /\ UpToDate(bundle, u, h, n, g)
      /\ Follows(bundle, u, h[n], h[n + 1])
  BY NextFacts
<1>2. Standing(inv, S) /\ y \in Commands(inventory) /\ Stands(inv, S, u, n)
  BY DEF IsNext
<1> HIDE DEF u, h, n, g, s
<1>3. Ending(h, n) = "SELECTED" /\ InWindow(bundle, u, g)
  <2>1. h[n].event = "SELECTED" /\ Usable(bundle, u, h[n].gameweek) /\ h[n + 1].gameweek = h[n].gameweek
    BY <1>1, EventFields DEF Follows
  <2> QED BY <1>1, <2>1 DEF Usable
<1>4. Cancellable(inv, u)
  <2>1. s.status = "PENDING_CANCELLABLE"
    BY <1>1, <1>3, StatusTells DEF s
  <2> QED BY <1>1, <2>1 DEF Cancellable
<1>5. Cancelled(inv, u) = Replaced(inv, u, Chosen(s, "AVAILABLE", None, Event("CANCELLED", g)))
  BY <1>1 DEF Cancelled, Chosen
<1>6. /\ Chosen(s, "AVAILABLE", None, Event("CANCELLED", g)) = Image(bundle, u, h, n + 1, g)
      /\ UpToDate(bundle, u, h, n + 1, g)
  BY <1>1, <1>3, CancelStep DEF s
<1> DEFINE r == Image(bundle, u, h, n + 1, g)
<1>9. r = Image(bundle, y.token, History(y.token), y.index, y.gameweek)
      /\ UpToDate(bundle, y.token, History(y.token), y.index, y.gameweek)
  BY <1>1, <1>6 DEF u, h, g
<1>10. Cancelled(inv, u) = Replaced(inv, y.token, r)
  BY <1>5, <1>6 DEF u
<1>11. Stands(inv, S, y.token, y.index - 1) /\ inv.gameweek = y.gameweek
  BY <1>1, <1>2 DEF u, n, g
<1> HIDE DEF r
<1>12. /\ Standing(Replaced(inv, y.token, r), S \cup {y})
       /\ Replaced(inv, y.token, r).gameweek = y.gameweek
  BY ONLY ReplayFacts, <1>2, <1>9, <1>11, CommandDone
<1> QED
  BY <1>4, <1>10, <1>12 DEF u

(* Whoever is active in the Gameweek of an activation is in force there in *)
(* the final inventory, and so is the activated token: the limit, the      *)
(* groups and the gaps of the final inventory let the verifier activate.   *)
LEMMA ActiveInForce ==
  ASSUME ReplayFacts, NEW inv, NEW S, Standing(inv, S), NEW g \in Nat \ {0}, inv.gameweek = g,
         NEW v \in Having(inv, "ACTIVE")
  PROVE  v \in InForce(g)
<1> DEFINE h == History(v)
<1>1. v \in Tokens /\ inv.token[v].status = "ACTIVE"
  BY DEF Having
<1>2. PICK m : Stands(inv, S, v, m)
  BY <1>1 DEF Standing
<1>3. /\ m \in 0..Len(h) /\ UpToDate(bundle, v, h, m, g)
      /\ inv.token[v] = Image(bundle, v, h, m, g)
  BY <1>2 DEF Stands
<1>4. Story(bundle, v, h) /\ Len(h) \in Nat /\ bundle \in Bundles
  BY <1>1, HistoryFacts
<1> HIDE DEF h
<1>5. Ending(h, m) = "ACTIVATED"
  BY <1>1, <1>3, <1>4, StatusTells
<1>6. m # 0 /\ h[m].event = "ACTIVATED"
  BY <1>5 DEF Ending
<1>7. m \in 1..Len(h)
  BY <1>3, <1>4, <1>6
<1>8. h[m].gameweek <= g /\ g <= h[m].gameweek + bundle.grant[v].duration - 1
  BY <1>3, <1>5 DEF UpToDate
<1>9. /\ Exercised(v) /\ token[v].from = h[m].gameweek
      /\ token[v].until = h[m].gameweek + bundle.grant[v].duration - 1
  BY <1>1, <1>6, <1>7, UseLasts DEF h
<1> QED
  BY <1>1, <1>8, <1>9 DEF InForce

(* A use that is completed by then ended as it does in the final inventory.*)
LEMMA CompletedBefore ==
  ASSUME ReplayFacts, NEW inv, NEW S, Standing(inv, S), NEW g \in Nat \ {0}, inv.gameweek = g,
         NEW v \in Tokens, inv.token[v].used # None
  PROVE  /\ Exercised(v) /\ inv.token[v].used = token[v].until
         /\ token[v].until < g /\ token[v].from < g
<1> DEFINE h == History(v)
<1>1. PICK m : Stands(inv, S, v, m)
  BY DEF Standing
<1>2. /\ m \in 0..Len(h) /\ UpToDate(bundle, v, h, m, g)
      /\ inv.token[v] = Image(bundle, v, h, m, g)
  BY <1>1 DEF Stands
<1>3. Story(bundle, v, h) /\ Len(h) \in Nat /\ bundle \in Bundles
  BY HistoryFacts
<1> HIDE DEF h
<1>4. Ending(h, m) = "COMPLETED" /\ inv.token[v].used = h[m].gameweek
  BY <1>2 DEF Image
<1>5. m # 0 /\ h[m].event = "COMPLETED"
  BY <1>4 DEF Ending
<1>6. m \in 1..Len(h)
  BY <1>2, <1>3, <1>5
<1>7. m > 1 /\ Follows(bundle, v, h[m - 1], h[m]) /\ m - 1 \in 1..Len(h)
  <2>1. m # 1
    BY <1>3, <1>5, <1>6, StoryFacts
  <2>2. m > 1
    BY <1>6, <1>3, <2>1
  <2> QED BY <1>3, <1>6, <2>2, StoryFacts
<1>8. /\ h[m - 1].event = "ACTIVATED"
      /\ h[m].gameweek = h[m - 1].gameweek + bundle.grant[v].duration - 1
  BY <1>5, <1>7, EventFields DEF Follows
<1>9. h[m].gameweek < g
  BY <1>2, <1>4 DEF UpToDate
<1>10. /\ Exercised(v) /\ token[v].from = h[m - 1].gameweek
       /\ token[v].until = h[m - 1].gameweek + bundle.grant[v].duration - 1
       /\ token[v].until \in Nat /\ token[v].from \in Nat /\ token[v].from <= token[v].until
  BY <1>7, <1>8, UseLasts DEF h
<1> QED
  BY <1>4, <1>8, <1>9, <1>10

(* The verifier may activate again.                                        *)
LEMMA ActivateAgain ==
  ASSUME ReplayFacts, NEW inv, NEW S, NEW y, IsNext(inv, S, y), y.event = "ACTIVATED"
  PROVE  /\ Activatable(bundle, inv, y.token)
         /\ Standing(Activated(bundle, inv, y.token), S \cup {y})
         /\ Activated(bundle, inv, y.token).gameweek = y.gameweek
<1> DEFINE u == y.token
           h == History(u)
           n == y.index - 1
           g == y.gameweek
           s == Image(bundle, u, h, n, g)
<1>1. /\ u \in Tokens /\ g \in Gameweeks /\ g \in Nat \ {0} /\ inv.gameweek = g
      /\ bundle \in Bundles /\ Story(bundle, u, h) /\ Len(h) \in Nat
      /\ n \in Nat /\ n \in 0..Len(h) /\ n \in 1..Len(h) /\ n + 1 \in 1..Len(h)
      /\ n + 1 = y.index
      /\ h[n + 1] = Event("ACTIVATED", g) /\ h[n + 1].event = "ACTIVATED" /\ h[n + 1].gameweek = g
      /\ Ending(h, n) = h[n].event /\ h[n].event \in Kinds
      /\ inv.token[u] = s /\ UpToDate(bundle, u, h, n, g)
      /\ Follows(bundle, u, h[n], h[n + 1])
  BY NextFacts
<1>2. Standing(inv, S) /\ y \in Commands(inventory) /\ Stands(inv, S, u, n)
  BY DEF IsNext
<1>20. u \in Tokens /\ n + 1 \in 1..Len(History(u)) /\ History(u)[n + 1].event = "ACTIVATED"
       /\ History(u)[n + 1].gameweek = g
  BY <1>1
<1> HIDE DEF u, h, n, g, s
<1>3. /\ Usable(bundle, u, g)
      /\ \/ Ending(h, n) \in Waiting
         \/ Ending(h, n) = "SELECTED" /\ h[n].gameweek = g /\ bundle.grant[u].cancellable
  <2>1. \/ h[n].event \in Waiting /\ Usable(bundle, u, h[n + 1].gameweek)
        \/ /\ h[n].event = "SELECTED" /\ h[n + 1].gameweek = h[n].gameweek
           /\ bundle.grant[u].cancellable /\ Usable(bundle, u, h[n].gameweek)
    BY <1>1, EventFields DEF Follows
  <2> QED BY <1>1, <2>1
<1>4. Exercisable(bundle, inv, u) /\ s.status # "ACTIVE"
  <2>1. CASE Ending(h, n) \in Waiting
    <3>1. s.status = "AVAILABLE"
      BY <1>1, <1>3, <2>1, StatusTells DEF Usable, s
    <3> QED BY <1>1, <1>3, <3>1 DEF Exercisable, Available, Usable
  <2>2. CASE Ending(h, n) = "SELECTED"
    <3>1. s.status = "PENDING_CANCELLABLE" /\ s.selected = h[n].gameweek
      BY <2>2 DEF Image, s
    <3>2. h[n].gameweek = g /\ bundle.grant[u].cancellable
      BY <1>3, <2>2 DEF Waiting
    <3> QED BY <1>1, <1>3, <3>1, <3>2 DEF Exercisable, Usable
  <2> QED BY <1>3, <2>1, <2>2
<1>5. /\ Exercised(u) /\ token[u].from = g /\ g <= token[u].until
      /\ u \in InForce(g)
  BY <1>1, <1>20, UseLasts DEF InForce
<1>6. Overlaps(bundle, inv, u) \subseteq InForce(g) \ {u}
  <2>1. \A v \in Overlaps(bundle, inv, u) : v \in Having(inv, "ACTIVE")
    BY DEF Overlaps
  <2>2. u \notin Having(inv, "ACTIVE")
    BY <1>1, <1>4 DEF Having
  <2>3. \A v \in Having(inv, "ACTIVE") : v \in InForce(g)
    BY <1>1, <1>2, ActiveInForce
  <2> QED BY <2>1, <2>2, <2>3
<1>7. Cardinality(Overlaps(bundle, inv, u)) < bundle.limit
  <2>1. IsFiniteSet(InForce(g)) /\ InForce(g) \subseteq Tokens
    <3>1. InForce(g) \subseteq Tokens /\ IsFiniteSet(Tokens)
      BY BoundsAssumption DEF InForce
    <3> QED BY <3>1, FS_Subset
  <2>2. Cardinality(InForce(g) \ {u}) = Cardinality(InForce(g)) - 1
    BY <1>5, <2>1, FS_RemoveElement
  <2>3. IsFiniteSet(InForce(g) \ {u})
    BY <2>1, FS_Subset
  <2>4. Cardinality(Overlaps(bundle, inv, u)) <= Cardinality(InForce(g) \ {u})
        /\ IsFiniteSet(Overlaps(bundle, inv, u))
    BY <1>6, <2>3, FS_Subset
  <2>5. Cardinality(InForce(g)) <= bundle.limit
    BY <1>1 DEF ReplayFacts, OccupancyWithinLimit
  <2>6. /\ Cardinality(InForce(g)) \in Nat /\ Cardinality(Overlaps(bundle, inv, u)) \in Nat
        /\ bundle.limit \in Nat
    BY <1>1, <2>1, <2>4, FS_CardinalityType, BundlesAssumption DEF Legal
  <2> QED BY <2>2, <2>4, <2>5, <2>6
<1>8. \A v \in Overlaps(bundle, inv, u) : bundle.grant[v].group # bundle.grant[u].group
  <2> SUFFICES ASSUME NEW v \in Overlaps(bundle, inv, u),
                      bundle.grant[v].group = bundle.grant[u].group
               PROVE  FALSE
    OBVIOUS
  <2>1. v \in InForce(g) /\ v # u
    BY <1>6
  <2>2. v \in Tokens /\ Exercised(v) /\ token[v].from <= g /\ g <= token[v].until
    BY <2>1 DEF InForce
  <2>3. token[v].until < token[u].from \/ token[u].until < token[v].from
    BY <1>1, <1>5, <2>1, <2>2 DEF ReplayFacts, ExerciseInvariant, GroupsNeverOverlap
  <2>4. /\ token[v].until \in Nat /\ token[u].until \in Nat
        /\ token[v].from \in Nat /\ token[u].from \in Nat
    BY <1>1, <2>2, TokenFields DEF ReplayFacts, ExerciseInvariant
  <2> QED BY <1>1, <1>5, <2>2, <2>3, <2>4
<1>9. RespectsGap(bundle, inv, u)
  <2> SUFFICES ASSUME NEW v \in Tokens, bundle.grant[v].chip = bundle.grant[u].chip,
                      inv.token[v].used # None
               PROVE  inv.gameweek - inv.token[v].used > bundle.grant[u].gap
    BY DEF RespectsGap
  <2>1. Exercised(v) /\ inv.token[v].used = token[v].until /\ token[v].from < g
    BY <1>1, <1>2, CompletedBefore
  <2>2. token[u].from - token[v].until > bundle.grant[u].gap
    BY <1>1, <1>5, <2>1 DEF ReplayFacts, ExerciseInvariant, GapsKept
  <2> QED BY <1>1, <1>5, <2>1, <2>2
<1>10. Activatable(bundle, inv, u)
  BY <1>4, <1>7, <1>8, <1>9 DEF Activatable
<1>11. Activated(bundle, inv, u) =
         Replaced(inv, u, Taken(s, g, g + bundle.grant[u].duration - 1, Event("ACTIVATED", g)))
  BY <1>1 DEF Activated, Taken, LastGameweek
<1>12. /\ Taken(s, g, g + bundle.grant[u].duration - 1, Event("ACTIVATED", g))
            = Image(bundle, u, h, n + 1, g)
       /\ UpToDate(bundle, u, h, n + 1, g)
  <2>1. \/ Ending(h, n) \in Waiting
        \/ Ending(h, n) = "SELECTED" /\ h[n].gameweek = g
    BY <1>3
  <2> QED BY <1>1, <2>1, ActivateStep DEF s
<1> DEFINE r == Image(bundle, u, h, n + 1, g)
<1>13. r = Image(bundle, y.token, History(y.token), y.index, y.gameweek)
       /\ UpToDate(bundle, y.token, History(y.token), y.index, y.gameweek)
  BY <1>1, <1>12 DEF u, h, g
<1>14. Activated(bundle, inv, u) = Replaced(inv, y.token, r)
  BY <1>11, <1>12 DEF u
<1>15. Stands(inv, S, y.token, y.index - 1) /\ inv.gameweek = y.gameweek
  BY <1>1, <1>2 DEF u, n, g
<1> HIDE DEF r
<1>16. /\ Standing(Replaced(inv, y.token, r), S \cup {y})
       /\ Replaced(inv, y.token, r).gameweek = y.gameweek
  BY ONLY ReplayFacts, <1>2, <1>13, <1>15, CommandDone
<1> QED
  BY <1>10, <1>14, <1>16 DEF u

-----------------------------------------------------------------------------
(* The whole replay.                                                       *)

(* One command more, whatever it is.                                       *)
LEMMA ReplayAgain ==
  ASSUME ReplayFacts, SingleSelections, NEW st, NEW S, Standing(st, S),
         NEW y \in Commands(inventory), y \notin S, st.gameweek <= y.gameweek,
         \A c \in Commands(inventory) : Before(c, y) => c \in S
  PROVE  Retold(Replay(bundle, st, y), S \cup {y})
<1> DEFINE g == y.gameweek
           u == y.token
           inv == Advanced(bundle, st, g)
<1>1. g \in Nat \ {0} /\ g <= inventory.gameweek /\ y.event \in UserKinds
  BY CommandFields
<1>2. \A c \in Commands(inventory) : c.gameweek < g => c \in S
  BY DEF Before
<1>3. inv.gameweek = g /\ Standing(inv, S)
  BY <1>1, <1>2, Reached
<1> HIDE DEF inv
<1>4. IsNext(inv, S, y)
  BY <1>3, NextOfItsToken DEF IsNext
<1>5. st # Rejected /\ ~(g < st.gameweek)
  <2>1. st.gameweek \in Nat \ {0} /\ Rejected.gameweek = 0
    BY DEF Standing, Rejected
  <2> QED BY <1>1, <2>1
<1>6. Replay(bundle, st, y) =
        CASE y.event = "SELECTED" /\ Selectable(bundle, inv, u) -> Selected(inv, u)
          [] y.event = "CANCELLED" /\ Cancellable(inv, u) -> Cancelled(inv, u)
          [] y.event = "ACTIVATED" /\ Activatable(bundle, inv, u) -> Activated(bundle, inv, u)
          [] OTHER -> Rejected
  BY <1>5 DEF Replay, inv
<1>7. CASE y.event = "SELECTED"
  <2>1. Replay(bundle, st, y) = Selected(inv, u)
    BY <1>4, <1>6, <1>7, SelectAgain
  <2>2. Standing(Selected(inv, u), S \cup {y}) /\ Selected(inv, u).gameweek = g
    BY <1>4, <1>7, SelectAgain
  <2> QED BY <2>1, <2>2 DEF Retold
<1>8. CASE y.event = "CANCELLED"
  <2>1. Replay(bundle, st, y) = Cancelled(inv, u)
    BY <1>4, <1>6, <1>8, CancelAgain
  <2>2. Standing(Cancelled(inv, u), S \cup {y}) /\ Cancelled(inv, u).gameweek = g
    BY <1>4, <1>8, CancelAgain
  <2> QED BY <2>1, <2>2 DEF Retold
<1>9. CASE y.event = "ACTIVATED"
  <2>1. Replay(bundle, st, y) = Activated(bundle, inv, u)
    BY <1>4, <1>6, <1>9, ActivateAgain
  <2>2. Standing(Activated(bundle, inv, u), S \cup {y}) /\ Activated(bundle, inv, u).gameweek = g
    BY <1>4, <1>9, ActivateAgain
  <2> QED BY <2>1, <2>2 DEF Retold
<1> QED BY <1>1, <1>7, <1>8, <1>9 DEF UserKinds

(* The commands up to some point.                                          *)
Beginning(S) ==
  /\ S \subseteq Commands(inventory)
  /\ \A c \in Commands(inventory), d \in S : Before(c, d) => c \in S

(* Whatever beginning of the commands the verifier has replayed, it has an *)
(* inventory in which each token is what its part of them made of it.      *)
LEMMA AllRetold ==
  ASSUME ReplayFacts, SingleSelections, NEW S, Beginning(S)
  PROVE  Retold(AllReplayed(bundle, S), S)
<1> DEFINE C == Commands(inventory)
           Bad == {T \in SUBSET C : Beginning(T) /\ ~Retold(AllReplayed(bundle, T), T)}
<1> SUFFICES ASSUME Bad # {} PROVE FALSE
  BY DEF Beginning
<1>1. PICK T \in Bad : \A x \in T : T \ {x} \notin Bad
  <2>1. IsFiniteSet(C) /\ Bad \subseteq SUBSET C
    BY InventoryType, CommandsFinite
  <2> HIDE DEF Bad, C
  <2> QED BY <2>1, Smallest
<1>2. T \subseteq C /\ Beginning(T) /\ ~Retold(AllReplayed(bundle, T), T)
  BY <1>1
<1>3. CASE T = {}
  <2>1. AllReplayed(bundle, T) = Built(bundle, 1)
    BY <1>2, <1>3, InventoryType, ReplayStep
  <2> QED BY <1>2, <1>3, <2>1, Begun
<1>4. CASE T # {}
  <2> DEFINE y == Latest(T)
             rest == T \ {y}
             st == AllReplayed(bundle, rest)
  <2>1. y \in T /\ \A d \in rest : Before(d, y)
    BY <1>2, <1>4, InventoryType, LatestIsLatest
  <2> HIDE DEF y
  <2>2. y \in C /\ y \notin rest /\ rest \subseteq C /\ rest \cup {y} = T
    BY <1>2, <2>1
  <2>3. ASSUME NEW c \in C, NEW d \in rest, Before(c, d) PROVE c \in rest
    <3>1. c \in T
      BY <1>2, <2>3 DEF Beginning
    <3>2. Before(d, y) /\ d \in C
      BY <2>1, <2>2
    <3>3. c # y
      BY <2>2, <2>3, <3>2, InventoryType, BeforeOrders
    <3> QED BY <3>1, <3>3
  <2>4. Beginning(rest)
    BY <2>2, <2>3 DEF Beginning
  <2>5. Retold(st, rest)
    BY <1>1, <2>1, <2>2, <2>4
  <2>6. \A c \in C : Before(c, y) => c \in rest
    <3>1. \A c \in C : Before(c, y) => c \in T
      BY <1>2, <2>1 DEF Beginning
    <3>2. ~Before(y, y)
      BY <2>2, InventoryType, BeforeOrders
    <3> QED BY <3>1, <3>2
  <2>7. AllReplayed(bundle, T) = Replay(bundle, st, y)
    BY <1>2, <1>4, InventoryType, ReplayStep DEF y
  <2> HIDE DEF st, rest
  <2>8. st.gameweek <= y.gameweek
    <3>1. y.gameweek \in Nat \ {0}
      BY <2>2, CommandFields
    <3>2. CASE st.gameweek = 1
      BY <3>1, <3>2
    <3>3. ASSUME NEW c \in rest, c.gameweek = st.gameweek PROVE st.gameweek <= y.gameweek
      <4>1. Before(c, y) /\ c \in C
        BY <2>1, <2>2, <3>3
      <4> QED BY <2>2, <3>3, <4>1, InventoryType, BeforeOrders
    <3> QED BY <2>5, <3>2, <3>3 DEF Retold
  <2>9. Standing(st, rest)
    BY <2>5 DEF Retold
  <2>10. Retold(Replay(bundle, st, y), rest \cup {y})
    BY <2>2, <2>6, <2>8, <2>9, ReplayAgain
  <2> QED BY <1>2, <2>2, <2>7, <2>10
<1> QED BY <1>3, <1>4

(* With all commands done nothing of a history is left to come.            *)
LEMMA NothingLeft ==
  ASSUME ReplayFacts, NEW inv, Standing(inv, Commands(inventory)),
         inv.gameweek = inventory.gameweek, NEW t \in Tokens
  PROVE  inv.token[t] = token[t]
<1> DEFINE h == History(t)
           now == inventory.gameweek
<1>1. /\ bundle \in Bundles /\ now \in Nat \ {0} /\ Story(bundle, t, h) /\ Len(h) \in Nat
      /\ UpToDate(bundle, t, h, Len(h), now) /\ token[t] = Image(bundle, t, h, Len(h), now)
      /\ \A i, j \in 1..Len(h) : i < j => h[i].event \notin {"COMPLETED", "EXPIRED"}
  BY HistoryFacts
<1>2. PICK n : Stands(inv, Commands(inventory), t, n)
  BY DEF Standing
<1>3. /\ n \in 0..Len(h) /\ UpToDate(bundle, t, h, n, now)
      /\ inv.token[t] = Image(bundle, t, h, n, now)
      /\ \A i \in 1..Len(h) : h[i].event \in UserKinds =>
                                (i <= n <=> Command(t, i) \in Commands(inventory))
  BY <1>2 DEF Stands
<1>4. \A i \in 1..Len(h) : h[i].event \in UserKinds => i <= n
  BY <1>3, CommandFacts
<1>5. \A i \in 1..Len(h) : h[i].gameweek \in Nat \ {0} /\ h[i].gameweek <= now
  BY AllPast
<1> HIDE DEF h, now
<1>6. n = Len(h)
  <2> SUFFICES ASSUME n # Len(h) PROVE FALSE
    OBVIOUS
  <2> DEFINE j == n + 1
  <2>1. j \in 1..Len(h) /\ ~(j <= n) /\ n \in Nat /\ Len(h) \in 1..Len(h)
    BY <1>1, <1>3
  <2>2. h[j].event \notin UserKinds /\ h[j].event \in Kinds
    <3> HIDE DEF j
    <3> QED BY <1>1, <1>4, <2>1, StoryFacts
  <2>3. CASE h[j].event = "ACQUIRED"
    <3>1. j = 1 /\ h[1] = Event("ACQUIRED", bundle.grant[t].acquired)
      <4> HIDE DEF j
      <4> QED BY <1>1, <2>1, <2>3, StoryFacts
    <3>2. n = 0 /\ h[j].gameweek = bundle.grant[t].acquired
      BY <2>1, <3>1, EventFields
    <3>3. now < bundle.grant[t].acquired
      BY <1>3, <3>2 DEF UpToDate, Ending
    <3>4. bundle.grant[t].acquired \in Nat
      BY <1>1, GrantFacts
    <3> QED BY <1>1, <1>5, <2>1, <3>2, <3>3, <3>4
  <2>4. CASE h[j].event \in {"COMPLETED", "EXPIRED"}
    <3>1. Len(h) = j
      <4>1. ~(j < Len(h))
        BY <1>1, <2>1, <2>4
      <4> QED BY <1>1, <2>1, <4>1
    <3>2. h[j].gameweek < now
      <4>1. Ending(h, j) = h[j].event
        BY <2>1 DEF Ending
      <4> QED BY <1>1, <2>4, <3>1, <4>1 DEF UpToDate
    <3>3. n \in 1..Len(h) /\ n # 0 /\ Follows(bundle, t, h[n], h[j])
      <4>1. j # 1
        <5> HIDE DEF j
        <5> QED BY <1>1, <2>1, <2>4, StoryFacts
      <4>2. j > 1 /\ j - 1 = n
        BY <2>1, <4>1
      <4>3. j > 1 => Follows(bundle, t, h[j - 1], h[j]) /\ j - 1 \in 1..Len(h)
        <5> HIDE DEF j
        <5> QED BY <1>1, <2>1, StoryFacts
      <4> HIDE DEF j
      <4> QED BY <2>1, <4>2, <4>3
    <3>4. Ending(h, n) = h[n].event
      BY <3>3 DEF Ending
    <3> HIDE DEF j
    <3>5. CASE h[j].event = "COMPLETED"
      <4>1. /\ h[n].event = "ACTIVATED"
            /\ h[j].gameweek = h[n].gameweek + bundle.grant[t].duration - 1
        BY <3>3, <3>5, EventFields DEF Follows
      <4>2. now <= h[j].gameweek
        BY <1>3, <3>4, <4>1 DEF UpToDate
      <4>3. h[j].gameweek \in Nat
        BY <1>5, <2>1
      <4> QED BY <1>1, <3>2, <4>2, <4>3
    <3>6. CASE h[j].event = "EXPIRED"
      <4>1. h[n].event \in Waiting /\ h[j].gameweek = bundle.grant[t].expires
        BY <3>3, <3>6, EventFields DEF Follows
      <4>2. now <= h[j].gameweek
        BY <1>3, <3>4, <4>1 DEF UpToDate
      <4>3. h[j].gameweek \in Nat
        BY <1>5, <2>1
      <4> QED BY <1>1, <3>2, <4>2, <4>3
    <3> QED BY <2>4, <3>5, <3>6
  <2> QED BY <2>2, <2>3, <2>4 DEF Kinds, UserKinds
<1> QED BY <1>1, <1>3, <1>6

(* The replay of all commands, and the time since, leave the inventory.    *)
LEMMA ReplayEnds ==
  ASSUME ReplayFacts, SingleSelections
  PROVE  Valid(bundle, inventory)
<1> DEFINE C == Commands(inventory)
           last == AllReplayed(bundle, C)
           now == inventory.gameweek
           inv == Advanced(bundle, last, now)
<1>1. Beginning(C)
  BY DEF Beginning
<1>2. Standing(last, C)
  BY <1>1, AllRetold DEF Retold
<1>3. /\ inventory = [gameweek |-> now, token |-> [t \in Tokens |-> token[t]]]
      /\ now \in Nat \ {0}
  BY BoundsAssumption DEF ReplayFacts, ExerciseInvariant, TypeOK, Gameweeks, token
<1> HIDE DEF last
<1>4. last.gameweek \in Nat \ {0} /\ last.gameweek <= now
  BY <1>2 DEF Standing
<1>5. inv.gameweek = now /\ Standing(inv, C)
  <2>1. \A c \in C : c.gameweek < now => c \in C
    OBVIOUS
  <2>2. now <= now
    BY <1>3
  <2> HIDE DEF C, now
  <2> QED BY <1>2, <1>3, <1>4, <2>1, <2>2, Reached DEF C, now
<1> HIDE DEF inv
<1>6. inv = [gameweek |-> inv.gameweek, token |-> [t \in Tokens |-> inv.token[t]]]
  BY <1>5 DEF Standing
<1>7. \A t \in Tokens : inv.token[t] = token[t]
  BY <1>5, NothingLeft
<1>8. inv = inventory
  BY <1>3, <1>5, <1>6, <1>7
<1>9. last # Rejected /\ ~(now < last.gameweek)
  <2>1. Rejected.gameweek = 0
    BY DEF Rejected
  <2> QED BY <1>3, <1>4, <2>1
<1>10. Replayed(bundle, inventory) = inv
  BY <1>9 DEF Replayed, last, inv
<1> QED BY <1>8, <1>10 DEF Valid

(* The verifier accepts every inventory that the functions produced, if no *)
(* two tokens were ever selected in one Gameweek.                          *)
THEOREM SingleSelectionsAreValid == Spec => []SingleSelectionsValidate
<1>1. ReplayFacts => SingleSelectionsValidate
  BY ReplayEnds DEF SingleSelectionsValidate, SingleSelections
<1>2. Spec => []ExerciseInvariant
  BY ExerciseHolds
<1>3. Spec => []OccupancyWithinLimit
  BY LimitHolds
<1>4. Spec => []HistoryInOrder
  BY HistoriesInOrder
<1>5. Spec => []TokensAsTold
  BY HistoriesTellAll
<1> QED
  BY <1>1, <1>2, <1>3, <1>4, <1>5, PTL DEF ReplayFacts

-----------------------------------------------------------------------------
(* What the verifier accepts was produced by the functions.                *)

(* One call turns an inventory into another one.                           *)
Calls(b, before, after) ==
  \/ \E t \in Tokens :
       \/ Selectable(b, before, t) /\ after = Selected(before, t)
       \/ Cancellable(before, t) /\ after = Cancelled(before, t)
       \/ Activatable(b, before, t) /\ after = Activated(b, before, t)
  \/ \E gameweek \in Gameweeks :
       gameweek > before.gameweek /\ after = Advanced(b, before, gameweek)

(* n calls, from build_chip_inventory at some Gameweek to an inventory.    *)
Produces(b, n, run, inv) ==
  /\ \E gameweek \in Gameweeks : run[0] = Built(b, gameweek)
  /\ \A i \in 1..n : Calls(b, run[i - 1], run[i])
  /\ run[n] = inv

Produced(b, inv) == \E n \in Nat : \E run : Produces(b, n, run, inv)

(* One call more.                                                          *)
LEMMA CallProduces ==
  ASSUME NEW b, NEW before, NEW after, Produced(b, before), Calls(b, before, after)
  PROVE  Produced(b, after)
<1>1. PICK n \in Nat : \E run : Produces(b, n, run, before)
  BY DEF Produced
<1>2. PICK run : Produces(b, n, run, before)
  BY <1>1
<1>3. /\ \E gameweek \in Gameweeks : run[0] = Built(b, gameweek)
      /\ \A i \in 1..n : Calls(b, run[i - 1], run[i])
      /\ run[n] = before
  BY <1>2 DEF Produces
<1> DEFINE longer == [i \in 0..(n + 1) |-> IF i = n + 1 THEN after ELSE run[i]]
<1>4. longer[n + 1] = after /\ \A i \in 0..n : longer[i] = run[i]
  OBVIOUS
<1> HIDE DEF longer
<1>5. \E gameweek \in Gameweeks : longer[0] = Built(b, gameweek)
  <2>1. longer[0] = run[0]
    BY <1>4
  <2> QED BY <1>3, <2>1
<1>6. ASSUME NEW i \in 1..(n + 1) PROVE Calls(b, longer[i - 1], longer[i])
  <2>1. CASE i = n + 1
    <3>1. longer[i] = after /\ i - 1 = n /\ longer[n] = before
      BY <1>3, <1>4, <2>1
    <3> QED BY <3>1
  <2>2. CASE i # n + 1
    <3>1. i \in 1..n /\ i - 1 \in 0..n /\ i \in 0..n
      BY <2>2
    <3>2. longer[i] = run[i] /\ longer[i - 1] = run[i - 1]
      BY <1>4, <3>1
    <3> QED BY <1>3, <3>1, <3>2
  <2> QED BY <2>1, <2>2
<1>7. Produces(b, n + 1, longer, after)
  BY <1>4, <1>5, <1>6 DEF Produces
<1>8. n + 1 \in Nat
  OBVIOUS
<1> QED BY <1>7, <1>8 DEF Produced

(* What the loop of the verifier holds: nothing any more, or something     *)
(* that calls produced, as long as the season lasts.                       *)
Honest(b, st) ==
  \/ st = Rejected
  \/ /\ st = [gameweek |-> st.gameweek, token |-> st.token]
     /\ st.gameweek \in Nat \ {0}
     /\ st.gameweek \in Gameweeks => Produced(b, st)

(* To advance is one call, or none.                                        *)
LEMMA AdvanceProduces ==
  ASSUME NEW b, NEW st, Honest(b, st), st # Rejected, NEW g \in Nat \ {0}, ~(g < st.gameweek)
  PROVE  LET inv == Advanced(b, st, g) IN
           /\ inv.gameweek = g /\ inv = [gameweek |-> g, token |-> inv.token]
           /\ g \in Gameweeks => Produced(b, inv)
<1> DEFINE inv == Advanced(b, st, g)
<1>1. /\ st = [gameweek |-> st.gameweek, token |-> st.token]
      /\ st.gameweek \in Nat \ {0}
      /\ st.gameweek \in Gameweeks => Produced(b, st)
  BY DEF Honest
<1>2. CASE g = st.gameweek
  <2>1. inv = st
    BY <1>2 DEF Advanced
  <2> QED BY <1>1, <1>2, <2>1
<1>3. CASE g # st.gameweek
  <2>1. inv = [gameweek |-> g, token |-> [t \in Tokens |-> AdvancedToken(b, st, t, g)]]
    BY <1>3 DEF Advanced
  <2>2. inv.gameweek = g /\ inv = [gameweek |-> g, token |-> inv.token]
    BY <2>1
  <2> HIDE DEF inv
  <2>3. ASSUME g \in Gameweeks PROVE Produced(b, inv)
    <3>1. st.gameweek \in Gameweeks /\ g > st.gameweek
      BY <1>1, <1>3, <2>3, BoundsAssumption DEF Gameweeks
    <3>2. Calls(b, st, inv)
      BY <2>3, <3>1 DEF Calls, inv
    <3> QED BY <1>1, <3>1, <3>2, CallProduces
  <2> QED BY <2>2, <2>3 DEF inv
<1> QED BY <1>2, <1>3

(* One command is one more call, or none.                                  *)
LEMMA ReplayProduces ==
  ASSUME NEW b, NEW st, Honest(b, st), NEW inv \in Inventories, NEW y \in Commands(inv)
  PROVE  Honest(b, Replay(b, st, y))
<1> DEFINE g == y.gameweek
           t == y.token
           x == Advanced(b, st, g)
           r == Replay(b, st, y)
<1>1. g \in Nat \ {0} /\ t \in Tokens /\ y.event \in UserKinds
  BY CommandTypes
<1>2. CASE r = Rejected
  BY <1>2 DEF Honest
<1>3. CASE r # Rejected
  <2>1. st # Rejected /\ ~(g < st.gameweek)
    BY <1>3 DEF Replay
  <2>2. /\ x.gameweek = g /\ x = [gameweek |-> g, token |-> x.token]
        /\ g \in Gameweeks => Produced(b, x)
    BY <1>1, <2>1, AdvanceProduces
  <2>3. r = CASE y.event = "SELECTED" /\ Selectable(b, x, t) -> Selected(x, t)
              [] y.event = "CANCELLED" /\ Cancellable(x, t) -> Cancelled(x, t)
              [] y.event = "ACTIVATED" /\ Activatable(b, x, t) -> Activated(b, x, t)
              [] OTHER -> Rejected
    BY <2>1 DEF Replay
  <2> HIDE DEF x, r
  <2>4. \/ Selectable(b, x, t) /\ r = Selected(x, t)
        \/ Cancellable(x, t) /\ r = Cancelled(x, t)
        \/ Activatable(b, x, t) /\ r = Activated(b, x, t)
    BY <1>3, <2>3
  <2>5. Calls(b, x, r)
    BY <1>1, <2>4 DEF Calls
  <2>6. \E s : r = Replaced(x, t, s)
    BY <2>4 DEF Selected, Cancelled, Activated
  <2>7. r.gameweek = g /\ r = [gameweek |-> r.gameweek, token |-> r.token]
    <3>1. PICK s : r = [x EXCEPT !.token[t] = s]
      BY <2>6 DEF Replaced
    <3>2. r = [gameweek |-> g, token |-> [x.token EXCEPT ![t] = s]]
      BY <2>2, <3>1
    <3> QED BY <3>2
  <2>8. g \in Gameweeks => Produced(b, r)
    BY <2>2, <2>5, CallProduces
  <2> QED BY <1>1, <2>7, <2>8 DEF Honest, r
<1> QED BY <1>2, <1>3

(* All commands.                                                           *)
LEMMA ReplaysProduce ==
  ASSUME NEW b, NEW inv \in Inventories, NEW S, S \subseteq Commands(inv)
  PROVE  Honest(b, AllReplayed(b, S))
<1> DEFINE C == Commands(inv)
           Bad == {T \in SUBSET C : ~Honest(b, AllReplayed(b, T))}
<1> SUFFICES ASSUME Bad # {} PROVE FALSE
  OBVIOUS
<1>1. PICK T \in Bad : \A x \in T : T \ {x} \notin Bad
  <2>1. IsFiniteSet(C) /\ Bad \subseteq SUBSET C
    BY CommandsFinite
  <2> HIDE DEF Bad, C
  <2> QED BY <2>1, Smallest
<1>2. T \subseteq C /\ ~Honest(b, AllReplayed(b, T))
  BY <1>1
<1>3. CASE T = {}
  <2> DEFINE st == Built(b, 1)
  <2>1. AllReplayed(b, T) = st
    BY <1>2, <1>3, ReplayStep
  <2>2. st.gameweek = 1 /\ st = [gameweek |-> st.gameweek, token |-> st.token]
    BY DEF Built
  <2>3. 1 \in Gameweeks
    BY BoundsAssumption DEF Gameweeks
  <2>4. Produced(b, st)
    <3> DEFINE run == [i \in {0} |-> st]
    <3>1. run[0] = st
      OBVIOUS
    <3> HIDE DEF run
    <3>2. \E gameweek \in Gameweeks : run[0] = Built(b, gameweek)
      BY <2>3, <3>1
    <3> HIDE DEF st
    <3>3. Produces(b, 0, run, st)
      BY <3>1, <3>2 DEF Produces
    <3> QED BY <3>3 DEF Produced
  <2> HIDE DEF st
  <2> QED BY <1>2, <2>1, <2>2, <2>4 DEF Honest
<1>4. CASE T # {}
  <2> DEFINE y == Latest(T)
             rest == T \ {y}
  <2>1. y \in T
    BY <1>2, <1>4, LatestIsLatest
  <2>2. AllReplayed(b, T) = Replay(b, AllReplayed(b, rest), y)
    BY <1>2, <1>4, ReplayStep
  <2> HIDE DEF y
  <2>3. Honest(b, AllReplayed(b, rest)) /\ y \in C
    BY <1>1, <1>2, <2>1
  <2> QED BY <1>2, <2>2, <2>3, ReplayProduces
<1> QED BY <1>3, <1>4

(* The verifier accepts nothing but what calls of the functions produce,   *)
(* whatever is put before it: "reject forged state" (validate_chip_        *)
(* inventory).                                                             *)
THEOREM ForgedInventoriesAreRejected ==
  \A b, inv : inv \in Inventories /\ Valid(b, inv) => Produced(b, inv)
<1> SUFFICES ASSUME NEW b, NEW inv, inv \in Inventories, Valid(b, inv) PROVE Produced(b, inv)
  OBVIOUS
<1> DEFINE last == AllReplayed(b, Commands(inv))
           g == inv.gameweek
<1>1. g \in Gameweeks /\ g \in Nat \ {0}
  BY BoundsAssumption DEF Inventories, Gameweeks
<1>2. Honest(b, last)
  BY ReplaysProduce
<1>3. inv # Rejected
  BY <1>1 DEF Rejected
<1>4. last # Rejected /\ ~(g < last.gameweek) /\ inv = Advanced(b, last, g)
  BY <1>3 DEF Valid, Replayed
<1> HIDE DEF last
<1> QED BY <1>1, <1>2, <1>4, AdvanceProduces

(* Everything the specification reaches is produced so.                    *)
THEOREM ReachedIsProduced == Spec => []Produced(bundle, inventory)
<1>1. Init => Produced(bundle, inventory)
  <2> SUFFICES ASSUME Init PROVE Produced(bundle, inventory)
    OBVIOUS
  <2> DEFINE run == [i \in {0} |-> inventory]
  <2>1. run[0] = inventory /\ \E gameweek \in Gameweeks : run[0] = Built(bundle, gameweek)
    BY DEF Init
  <2> HIDE DEF run
  <2>2. \A i \in 1..0 : Calls(bundle, run[i - 1], run[i])
    OBVIOUS
  <2>3. Produces(bundle, 0, run, inventory)
    BY <2>1, <2>2 DEF Produces
  <2> QED BY <2>3 DEF Produced
<1>2. Produced(bundle, inventory) /\ [Next]_vars => Produced(bundle, inventory)'
  <2> SUFFICES ASSUME Produced(bundle, inventory), [Next]_vars
               PROVE  Produced(bundle', inventory')
    BY DEF Produced, Produces, Calls
  <2>1. CASE Next
    <3>1. Calls(bundle, inventory, inventory') /\ bundle' = bundle
      BY <2>1 DEF Next, Select, Cancel, Activate, Advance, Calls
    <3> QED BY <3>1, CallProduces
  <2>2. CASE UNCHANGED vars
    BY <2>2 DEF vars
  <2> QED BY <2>1, <2>2
<1> QED BY <1>1, <1>2, PTL DEF Spec

=============================================================================
