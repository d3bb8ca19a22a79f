------------------------ MODULE FplPairHistory_proofs ------------------------
(***************************************************************************)
(* Proofs about the histories of pairs, and about what pairs leave in the  *)
(* canonical tables, for every set of pairs, workers, sources and keys and *)
(* every bound.                                                            *)
(*                                                                         *)
(* The argument: a history that climbs (Climbing) still climbs after any   *)
(* event the guard accepts, so each transaction has one of five effects on *)
(* a stored pair (Effect), and a worker between two transactions knows a   *)
(* rank its pair has come to, which no other worker can undo (Requires,    *)
(* RanksKept).  What is known is what the next transaction needs to find   *)
(* its append accepted or its pair ended (Sound).  From that follow the    *)
(* legality of histories, the meaning of bundles and issues, the canonical *)
(* tables, what a return means, and the abstract lifecycle.                *)
(***************************************************************************)
EXTENDS FplPairIngestion_proofs, SequenceTheorems

-----------------------------------------------------------------------------
(* One history.                                                            *)

(* A terminal stage has been recorded.                                     *)
Ended(s) == \E i \in DOMAIN s : s[i].stage \in Terminal

(* What LegalHistory demands of one history.                               *)
LegalEvents(s) ==
  /\ \A i \in DOMAIN s : i < Len(s) => s[i].stage \notin Terminal
  /\ \A i, j \in DOMAIN s : i < j =>
       /\ s[i].at <= s[j].at
       /\ s[i].stage = s[j].stage => s[i].stage = "FAILED_RETRYABLE"
  /\ \A i \in DOMAIN s : i > 1 /\ s[i].stage \notin Escapes =>
       <<LastGood(SubSeq(s, 1, i - 1)), s[i].stage>> \in Successor

(* A history has a last good event, that is the highest it has reached     *)
(* unless it has ended, and it has climbed every rung below from PARSED on.*)
HasTop(s) == \E i \in Good(s) : \A j \in Good(s) : j <= i

TopIsHighest(s) == Ended(s) \/ \A i \in DOMAIN s : Rank(s[i].stage) <= Rank(LastGood(s))

Rungs ==
  { <<"PARSED", "VALIDATED">>, <<"VALIDATED", "MAPPED">>, <<"MAPPED", "PROMOTED">>,
    <<"PROMOTED", "QUALITY_PASSED">>, <<"QUALITY_PASSED", "USABLE">> }

Closed(s) == \A rung \in Rungs : HasStage(s, rung[2]) => HasStage(s, rung[1])

Climbing(s) ==
  /\ s \in Seq(Events) /\ s # <<>>
  /\ LegalEvents(s) /\ HasTop(s) /\ TopIsHighest(s) /\ Closed(s)

(* The index CHOOSE finds in LastGood.                                     *)
LEMMA TopIndex ==
  ASSUME NEW s \in Seq(Events), HasTop(s)
  PROVE  \E i \in Good(s) : /\ LastGood(s) = s[i].stage
                            /\ \A j \in Good(s) : j <= i
<1> DEFINE i == CHOOSE i \in Good(s) : \A j \in Good(s) : j <= i
<1>1. i \in Good(s) /\ \A j \in Good(s) : j <= i
  BY DEF HasTop
<1>2. LastGood(s) = s[i].stage
  BY DEF LastGood
<1> QED
  BY <1>1, <1>2

(* Two indices that are both the last good one are the same.               *)
LEMMA TopIs ==
  ASSUME NEW s \in Seq(Events), NEW i \in Good(s), \A j \in Good(s) : j <= i
  PROVE  HasTop(s) /\ LastGood(s) = s[i].stage
<1>1. HasTop(s)
  BY DEF HasTop
<1>2. PICK k \in Good(s) : LastGood(s) = s[k].stage /\ \A j \in Good(s) : j <= k
  BY <1>1, TopIndex
<1>3. i <= k /\ k <= i /\ i \in Nat /\ k \in Nat
  BY <1>2 DEF Good
<1> QED
  BY <1>1, <1>2, <1>3

(* The last good stage is a stage of the history, not a retryable failure. *)
LEMMA TopFacts ==
  ASSUME NEW s \in Seq(Events), HasTop(s)
  PROVE  /\ HasStage(s, LastGood(s))
         /\ LastGood(s) \in Stages
         /\ LastGood(s) # "FAILED_RETRYABLE"
<1>1. PICK i \in Good(s) : LastGood(s) = s[i].stage
  BY TopIndex
<1>2. i \in DOMAIN s /\ s[i].stage # "FAILED_RETRYABLE" /\ s[i] \in Events
  BY <1>1 DEF Good
<1>3. s[i].stage \in Stages
  BY <1>2 DEF Events
<1> QED
  BY <1>1, <1>2, <1>3 DEF HasStage

(* Stages that end a history are its last and its last good one.           *)
LEMMA EndedFacts ==
  ASSUME NEW s, Climbing(s), Ended(s)
  PROVE  /\ Current(s) \in Terminal
         /\ LastGood(s) = Current(s)
         /\ \A stage \in Terminal : HasStage(s, stage) <=> stage = Current(s)
<1>1. s \in Seq(Events) /\ Len(s) \in Nat \ {0} /\ DOMAIN s = 1..Len(s)
  BY DEF Climbing
<1>2. \A i \in DOMAIN s : i < Len(s) => s[i].stage \notin Terminal
  BY DEF Climbing, LegalEvents
<1>3. PICK i \in DOMAIN s : s[i].stage \in Terminal
  BY DEF Ended
<1>4. i = Len(s)
  BY <1>1, <1>2, <1>3
<1>5. Current(s) \in Terminal
  BY <1>3, <1>4 DEF Current
<1>6. Len(s) \in Good(s) /\ \A j \in Good(s) : j <= Len(s)
  BY <1>1, <1>5 DEF Good, Current, Terminal
<1>7. LastGood(s) = Current(s)
  BY <1>1, <1>6, TopIs DEF Current
<1>8. \A stage \in Terminal : HasStage(s, stage) <=> stage = Current(s)
  BY <1>1, <1>2 DEF HasStage, Current
<1> QED
  BY <1>5, <1>7, <1>8

(* While a history has not ended its last good stage is a rung.            *)
LEMMA OpenFacts ==
  ASSUME NEW s, Climbing(s), ~Ended(s)
  PROVE  /\ LastGood(s) \in Stages \ (Escapes \cup {"USABLE"})
         /\ \A stage \in Terminal : ~HasStage(s, stage)
<1>1. s \in Seq(Events) /\ HasTop(s)
  BY DEF Climbing
<1>2. \A stage \in Terminal : ~HasStage(s, stage)
  BY DEF Ended, HasStage
<1> QED
  BY <1>1, <1>2, TopFacts DEF Terminal, Escapes, Stages

(* What an appended event adds.                                            *)
LEMMA AppendFacts ==
  ASSUME NEW s \in Seq(Events), s # <<>>, NEW e \in Events
  PROVE  LET t == Append(s, e) IN
           /\ t \in Seq(Events) /\ t # <<>>
           /\ Len(t) = Len(s) + 1 /\ DOMAIN t = 1..(Len(s) + 1) /\ DOMAIN s = 1..Len(s)
           /\ t[Len(s) + 1] = e
           /\ \A i \in 1..Len(s) : t[i] = s[i] /\ SubSeq(t, 1, i) = SubSeq(s, 1, i)
           /\ SubSeq(t, 1, Len(s)) = s
           /\ \A x : HasStage(t, x) <=> HasStage(s, x) \/ x = e.stage
           /\ Current(t) = e.stage
<1> DEFINE t == Append(s, e)
<1>1. /\ t \in Seq(Events) /\ t # <<>> /\ Len(s) \in Nat \ {0}
      /\ Len(t) = Len(s) + 1 /\ DOMAIN t = 1..(Len(s) + 1) /\ DOMAIN s = 1..Len(s)
      /\ t[Len(s) + 1] = e
      /\ \A i \in 1..Len(s) : t[i] = s[i]
  OBVIOUS
<1>2. ASSUME NEW i \in 1..Len(s)
      PROVE  SubSeq(t, 1, i) = SubSeq(s, 1, i)
  <2>1. /\ SubSeq(t, 1, i) = [j \in 1..i |-> t[j]]
        /\ SubSeq(s, 1, i) = [j \in 1..i |-> s[j]]
    BY <1>1, SubSeqProperties
  <2> QED
    BY <1>1, <2>1
<1>3. SubSeq(t, 1, Len(s)) = s
  BY <1>1
<1> HIDE DEF t
<1>4. \A x : HasStage(t, x) <=> HasStage(s, x) \/ x = e.stage
  BY <1>1 DEF HasStage
<1>5. Current(t) = e.stage
  BY <1>1 DEF Current
<1> QED
  BY <1>1, <1>2, <1>3, <1>4, <1>5 DEF t

(* The ranks of the stages.                                                *)
LEMMA RankFacts ==
  /\ \A stage \in Stages : Rank(stage) \in -1..8
  /\ \A stage \in Escapes : Rank(stage) = -1
  /\ \A stage \in Stages \ Escapes : Rank(stage) >= 1
  /\ \A step \in Successor : Rank(step[2]) = Rank(step[1]) + 1
BY DEF Rank, Stages, Escapes, Successor

(* The event Recording appends.                                            *)
NewEvent(s, stage, at) == [stage |-> stage, at |-> Later(at, s[Len(s)].at), seen |-> clock]

(* The history t is s with one event of a stage the guard allows.          *)
Rise(s, stage, t) ==
  /\ Climbing(t) /\ Current(t) = stage
  /\ \A x : HasStage(t, x) <=> HasStage(s, x) \/ x = stage
  /\ LastGood(t) = IF stage = "FAILED_RETRYABLE" THEN LastGood(s) ELSE stage
  /\ Ended(t) <=> stage \in Terminal

(* guard_processing_event admits only events that keep a history climbing. *)
LEMMA AppendClimbs ==
  ASSUME TypeOK, NEW s, Climbing(s), NEW stage \in Stages, NEW at \in 0..MaxInstant,
         GuardAllows(s, stage), ~Recorded(s, stage)
  PROVE  Rise(s, stage, Append(s, NewEvent(s, stage, at)))
<1> DEFINE e == NewEvent(s, stage, at)
           t == Append(s, e)
           n == Len(s)
<1>1. s \in Seq(Events) /\ s # <<>> /\ n \in Nat \ {0}
  BY DEF Climbing
<1>2. s[n] \in Events /\ s[n].at \in 0..MaxInstant
  <2>1. s[n] \in Events
    BY <1>1
  <2> QED
    BY <2>1 DEF Events
<1>3. e \in Events /\ e.stage = stage /\ e.at >= s[n].at
  BY <1>2 DEF TypeOK, Events, NewEvent, Later
<1> HIDE DEF e
<1>4. /\ t \in Seq(Events) /\ t # <<>>
      /\ Len(t) = n + 1 /\ DOMAIN t = 1..(n + 1) /\ DOMAIN s = 1..n
      /\ t[n + 1] = e
      /\ \A i \in 1..n : t[i] = s[i] /\ SubSeq(t, 1, i) = SubSeq(s, 1, i)
      /\ SubSeq(t, 1, n) = s
      /\ \A x : HasStage(t, x) <=> HasStage(s, x) \/ x = stage
      /\ Current(t) = stage
  BY <1>1, <1>3, AppendFacts
<1> HIDE DEF t
<1>5. ~Ended(s) /\ \A i \in DOMAIN s : s[i].stage \notin Terminal
  BY DEF GuardAllows, Ended
<1>6. Ended(t) <=> stage \in Terminal
  BY <1>1, <1>3, <1>4, <1>5 DEF Ended
<1>7. HasTop(s) /\ \A i \in DOMAIN s : Rank(s[i].stage) <= Rank(LastGood(s))
  BY <1>5 DEF Climbing, TopIsHighest
<1>8. HasTop(t) /\ LastGood(t) = IF stage = "FAILED_RETRYABLE" THEN LastGood(s) ELSE stage
  <2>1. CASE stage = "FAILED_RETRYABLE"
    <3>1. PICK i \in Good(s) : LastGood(s) = s[i].stage /\ \A j \in Good(s) : j <= i
      BY <1>1, <1>7, TopIndex
    <3>2. Good(t) = Good(s)
      BY <2>1, <1>1, <1>3, <1>4 DEF Good
    <3>3. t[i] = s[i]
      BY <3>1, <1>4 DEF Good
    <3> QED
      BY <2>1, <3>1, <3>2, <3>3, <1>4, TopIs
  <2>2. CASE stage # "FAILED_RETRYABLE"
    <3>1. n + 1 \in Good(t) /\ \A j \in Good(t) : j <= n + 1
      BY <2>2, <1>1, <1>3, <1>4 DEF Good
    <3> QED
      BY <2>2, <3>1, <1>3, <1>4, TopIs
  <2> QED
    BY <2>1, <2>2
<1>9. stage \in Escapes \/ <<LastGood(s), stage>> \in Successor
  BY DEF GuardAllows
<1>10. LegalEvents(t)
  <2>1. LegalEvents(s)
    BY DEF Climbing
  <2>2. \A i \in DOMAIN t : i < Len(t) => t[i].stage \notin Terminal
    BY <1>1, <1>4, <1>5
  <2>3. ASSUME NEW i \in DOMAIN t, NEW j \in DOMAIN t, i < j
        PROVE  /\ t[i].at <= t[j].at
               /\ t[i].stage = t[j].stage => t[i].stage = "FAILED_RETRYABLE"
    <3>1. i \in 1..n /\ t[i] = s[i]
      BY <2>3, <1>1, <1>4
    <3>2. CASE j \in 1..n
      BY <2>3, <3>1, <3>2, <2>1, <1>4 DEF LegalEvents
    <3>3. CASE j = n + 1
      <4>1. s[i].at <= s[n].at
        <5>1. s[i] \in Events /\ s[i].at \in 0..MaxInstant
          <6>1. s[i] \in Events
            BY <3>1, <1>1
          <6> QED
            BY <6>1 DEF Events
        <5> QED
          BY <5>1, <3>1, <1>1, <1>2, <1>4, <2>1 DEF LegalEvents
      <4>2. s[i].at \in Nat /\ e.at \in Nat
        <5>1. s[i] \in Events
          BY <3>1, <1>1
        <5> QED
          BY <5>1, <1>3 DEF Events
      <4>3. s[i].stage = stage => stage = "FAILED_RETRYABLE"
        BY <3>1, <1>4 DEF Recorded, HasStage
      <4> QED
        BY <3>1, <3>3, <4>1, <4>2, <4>3, <1>2, <1>3, <1>4
    <3> QED
      BY <3>2, <3>3, <1>4, <1>1
  <2>4. ASSUME NEW i \in DOMAIN t, i > 1, t[i].stage \notin Escapes
        PROVE  <<LastGood(SubSeq(t, 1, i - 1)), t[i].stage>> \in Successor
    <3>1. CASE i \in 1..n
      <4>1. i - 1 \in 1..n /\ SubSeq(t, 1, i - 1) = SubSeq(s, 1, i - 1) /\ t[i] = s[i]
        BY <2>4, <3>1, <1>1, <1>4
      <4> QED
        BY <2>4, <3>1, <4>1, <2>1, <1>4 DEF LegalEvents
    <3>2. CASE i = n + 1
      <4>1. i - 1 = n /\ t[i].stage = stage
        BY <3>2, <1>1, <1>3, <1>4
      <4>2. <<LastGood(s), stage>> \in Successor
        BY <4>1, <2>4, <1>9
      <4> QED
        BY <4>1, <4>2, <1>4
    <3> QED
      BY <3>1, <3>2, <1>1, <1>4
  <2> QED
    BY <2>2, <2>3, <2>4 DEF LegalEvents
<1>11. TopIsHighest(t)
  <2>1. CASE stage \in Terminal
    BY <2>1, <1>6 DEF TopIsHighest
  <2>2. CASE stage = "FAILED_RETRYABLE"
    <3>1. Rank(LastGood(s)) \in Int /\ Rank(LastGood(s)) >= 1 /\ Rank(stage) = -1
      <4>1. LastGood(s) \in Stages \ Escapes
        BY <1>5, OpenFacts
      <4>2. Rank(LastGood(s)) \in -1..8 /\ Rank(LastGood(s)) >= 1
        BY <4>1, RankFacts
      <4>3. Rank(stage) = -1
        BY <2>2 DEF Rank
      <4> QED
        BY <4>2, <4>3
    <3> QED
      BY <2>2, <3>1, <1>1, <1>3, <1>4, <1>7, <1>8 DEF TopIsHighest
  <2>3. CASE stage \notin Terminal /\ stage # "FAILED_RETRYABLE"
    <3>1. <<LastGood(s), stage>> \in Successor
      BY <2>3, <1>9 DEF Escapes, Terminal
    <3>2. Rank(stage) = Rank(LastGood(s)) + 1
      BY <3>1, RankFacts
    <3>3. Rank(LastGood(s)) \in Int
      BY <1>5, OpenFacts, RankFacts
    <3>4. \A i \in 1..n : Rank(s[i].stage) \in Int
      <4>1. \A i \in 1..n : s[i] \in Events
        BY <1>1
      <4>2. \A i \in 1..n : s[i].stage \in Stages
        BY <4>1 DEF Events
      <4> QED
        BY <4>2, RankFacts
    <3> QED
      BY <2>3, <3>2, <3>3, <3>4, <1>1, <1>3, <1>4, <1>7, <1>8 DEF TopIsHighest
  <2> QED
    BY <2>1, <2>2, <2>3
<1>12. Closed(t)
  <2>1. Closed(s) /\ HasStage(s, LastGood(s))
    BY <1>1, <1>7, TopFacts DEF Climbing
  <2> SUFFICES ASSUME NEW rung \in Rungs, HasStage(t, rung[2]) PROVE HasStage(t, rung[1])
    BY DEF Closed
  <2>2. CASE HasStage(s, rung[2])
    BY <2>1, <2>2, <1>4 DEF Closed
  <2>3. CASE rung[2] = stage
    <3>1. LastGood(s) = rung[1]
      BY <2>3, <1>9 DEF Rungs, Successor, Escapes
    <3> QED
      BY <3>1, <2>1, <1>4
  <2> QED
    BY <2>2, <2>3, <1>4
<1> QED
  BY <1>4, <1>6, <1>8, <1>10, <1>11, <1>12 DEF Rise, Climbing, t, e

(* A rung is recorded for a history that is below it, or it had ended.     *)
LEMMA LiftedRises ==
  ASSUME TypeOK, NEW s, Climbing(s), NEW stage \in Stages \ Escapes, NEW at \in 0..MaxInstant,
         Rank(LastGood(s)) < Rank(stage),
         Reached(s, stage) \/ Accepts(s, stage)
  PROVE  \/ Ended(s) /\ Lifted(s, stage, at) = s
         \/ /\ ~Ended(s)
            /\ <<LastGood(s), stage>> \in Successor
            /\ Rise(s, stage, Lifted(s, stage, at))
<1>1. s \in Seq(Events) /\ Len(s) \in DOMAIN s /\ DOMAIN s = 1..Len(s)
  BY DEF Climbing
<1>2. ~Ended(s) => \A i \in DOMAIN s : Rank(s[i].stage) <= Rank(LastGood(s))
  BY DEF Climbing, TopIsHighest
<1>3. Rank(LastGood(s)) \in Int /\ Rank(stage) \in Int
  BY TopFacts, RankFacts DEF Climbing
<1>4. \A i \in DOMAIN s : Rank(s[i].stage) \in Int
  <2>1. \A i \in DOMAIN s : s[i] \in Events
    BY <1>1
  <2>2. \A i \in DOMAIN s : s[i].stage \in Stages
    BY <2>1 DEF Events
  <2> QED
    BY <2>2, RankFacts
<1>5. CASE Reached(s, stage)
  <2>1. Ended(s)
    BY <1>1, <1>2, <1>3, <1>4, <1>5 DEF Reached, Current
  <2> QED
    BY <1>5, <2>1 DEF Lifted
<1>6. CASE ~Reached(s, stage) /\ Recorded(s, stage)
  <2>1. Ended(s)
    BY <1>1, <1>2, <1>3, <1>4, <1>6 DEF Recorded, HasStage
  <2> QED
    BY <1>6, <2>1 DEF Lifted, Recording
<1>7. CASE ~Reached(s, stage) /\ ~Recorded(s, stage)
  <2>1. GuardAllows(s, stage)
    BY <1>7 DEF Accepts
  <2>2. ~Ended(s) /\ <<LastGood(s), stage>> \in Successor
    BY <2>1 DEF GuardAllows, Ended
  <2>3. Lifted(s, stage, at) = Append(s, NewEvent(s, stage, at))
    BY <1>7 DEF Lifted, Recording, NewEvent
  <2> QED
    BY <2>1, <2>2, <2>3, <1>7, AppendClimbs
<1> QED
  BY <1>5, <1>6, <1>7

(* An escape is admitted exactly while the history has not ended.          *)
LEMMA EscapeRises ==
  ASSUME TypeOK, NEW s, Climbing(s), NEW stage \in Escapes, NEW at \in 0..MaxInstant
  PROVE  /\ GuardAllows(s, stage) <=> ~Ended(s)
         /\ ~Ended(s) => Rise(s, stage, Recording(s, stage, at))
         /\ Accepts(s, stage) <=> ~Ended(s) \/ Recorded(s, stage)
<1>1. GuardAllows(s, stage) <=> ~Ended(s)
  BY DEF GuardAllows, Ended
<1>2. ~Ended(s) => ~Recorded(s, stage)
  BY OpenFacts DEF Recorded, Escapes, Terminal
<1>3. ~Ended(s) => Rise(s, stage, Recording(s, stage, at))
  <2> SUFFICES ASSUME ~Ended(s) PROVE Rise(s, stage, Recording(s, stage, at))
    OBVIOUS
  <2>1. Recording(s, stage, at) = Append(s, NewEvent(s, stage, at))
    BY <1>2 DEF Recording, NewEvent
  <2> QED
    BY <2>1, <1>1, <1>2, AppendClimbs DEF Stages
<1> QED
  BY <1>1, <1>3 DEF Accepts

-----------------------------------------------------------------------------
(* The invariant.                                                          *)

(* What every stored pair looks like between two transactions: its history *)
(* climbs, rests on no stage that is written together with its successor,  *)
(* and leaves the ladder where its rights profile says.                    *)
Stored(p) ==
  LET s == History(p) IN
    /\ Climbing(s)
    /\ LastGood(s) \notin {"RECEIVED", "QUALITY_PASSED"}
    /\ Manual(p) =>
         /\ LastGood(s) \in {"RAW_DISCARDED", "QUARANTINED", "REJECTED", "FAILED_PERMANENT"}
         /\ HasStage(s, "PARSED") => HasStage(s, "REJECTED")
    /\ ~Manual(p) => LastGood(s) \notin {"RAW_DISCARDED", "REJECTED", "FAILED_PERMANENT"}

PairsStored == \A p \in Pairs : Started(p) => Stored(p)

(* A pair has come to a rank or has ended: neither is ever undone.         *)
At(p, rank) == Ended(History(p)) \/ Rank(LastGood(History(p))) >= rank

(* What a worker that is about to do pc has seen of its pair.              *)
Requires(pc, p, bodies) ==
  /\ pc = "envelope" => bodies
  /\ pc \in {"manual", "exhausted"} => Manual(p)
  /\ pc \in {"parse", "validate", "map", "promote", "finish"} => ~Manual(p)
  /\ pc = "parse" => bodies \/ At(p, 3)
  /\ pc = "validate" => At(p, 3)
  /\ pc = "map" => At(p, 4)
  /\ pc = "promote" => At(p, 5)
  /\ pc = "finish" => At(p, 6)

WorkerKnows(w) ==
  LET m == worker[w] IN
    /\ m.pc # "idle" => source[m.pair].captured <= m.opAt
    /\ Requires(m.pc, m.pair, m.bodies)

WorkersKnow == \A w \in Workers : WorkerKnows(w)

UsableBy(s, cutoff) == \E i \in DOMAIN s : s[i].stage = "USABLE" /\ s[i].at < cutoff

(* Why an issue was raised, and why a bundle was published.                *)
IssuesExplained ==
  \A p \in Pairs :
    LET s == History(p) IN
      /\ "QUARANTINE" \in issues[p] <=> HasStage(s, "QUARANTINED")
      /\ p \in bundle <=> UsableBy(s, source[p].cutoff)
      /\ "POST_CUTOFF" \in issues[p] <=> HasStage(s, "USABLE") /\ p \notin bundle

HistoryInvariant == PairInvariant /\ PairsStored /\ WorkersKnow /\ IssuesExplained

(* What promoted and mapped pairs have left in the canonical tables.       *)
PlansKept ==
  \A p \in Pairs : HasStage(History(p), "MAPPED") => plan[p] # NoPair /\ PlanHolds(p)

ClaimsKept ==
  /\ \A c, d \in claims : c.at = d.at => c.reading = d.reading
  /\ \A p \in Pairs : HasStage(History(p), "PROMOTED") => Claim(p) \in claims

FactKept == FactFollowsPromoted /\ (fact.by = NoPair => fact.gameweek = 0)

CanonicalInvariant == HistoryInvariant /\ PlansKept /\ ClaimsKept /\ FactKept

-----------------------------------------------------------------------------
(* One transaction and the histories.                                      *)

(* Both members of a pair are as its first.                                *)
LEMMA Members ==
  ASSUME PairInvariant, NEW p \in Pairs
  PROVE  /\ log[p] = [r \in Resources |-> History(p)]
         /\ \A r \in Resources : log[p][r] = History(p)
         /\ ~Diverged(p)
         /\ Started(p) <=> History(p) # <<>>
<1>1. log[p] = [r \in Resources |-> log[p][r]] /\ log[p]["bootstrap"] = log[p]["fixtures"]
  BY DEF PairInvariant, TypeOK, MembersAgree
<1>2. \A r \in Resources : log[p][r] = History(p)
  BY <1>1 DEF Resources, History
<1> QED
  BY <1>1, <1>2 DEF Diverged, Started, Resources, History

(* Both members of p become the history t.                                 *)
Moves(p, t) == log' = [log EXCEPT ![p] = [r \in Resources |-> t]]

(* ... while the histories of the other pairs stay as they are.            *)
LEMMA MovesFacts ==
  ASSUME PairInvariant, NEW p \in Pairs, NEW t, Moves(p, t)
  PROVE  /\ History(p)' = t
         /\ \A q \in Pairs \ {p} : History(q)' = History(q) /\ Started(q)' = Started(q)
BY DEF PairInvariant, TypeOK, Moves, History, Started, Resources

(* The open history of p becomes t, which has in addition the given stages *)
(* and the given top.                                                      *)
Becomes(p, t, stages, top) ==
  /\ ~Ended(History(p)) /\ Moves(p, t) /\ Climbing(t)
  /\ \A x : HasStage(t, x) <=> HasStage(History(p), x) \/ x \in stages
  /\ LastGood(t) = top
  /\ Ended(t) <=> top \in Terminal

(* A rank once reached is kept, and so is the end.                         *)
LEMMA BecomesAt ==
  ASSUME PairInvariant, NEW p \in Pairs, NEW t, NEW stages, NEW top, Becomes(p, t, stages, top),
         Rank(LastGood(History(p))) <= Rank(top) \/ top \in Terminal,
         Climbing(History(p)), top \in Stages,
         NEW q \in Pairs, NEW rank \in Nat, At(q, rank)
  PROVE  At(q, rank)'
<1>1. Rank(LastGood(History(p))) \in Int /\ Rank(top) \in Int
  BY TopFacts, RankFacts DEF Climbing
<1>2. CASE q = p
  <2>1. History(q)' = t
    BY <1>2, MovesFacts DEF Becomes
  <2> QED
    BY <1>1, <1>2, <2>1 DEF At, Becomes
<1>3. CASE q # p
  <2>1. History(q)' = History(q)
    BY <1>3, MovesFacts DEF Becomes
  <2> QED
    BY <2>1 DEF At
<1> QED
  BY <1>2, <1>3

(* A pair stays stored as its history grows.                               *)
LEMMA BecomesStored ==
  ASSUME PairInvariant, PairsStored, NEW p \in Pairs, Started(p), UNCHANGED source,
         NEW t, NEW stages, NEW top, Becomes(p, t, stages, top),
         top \notin {"RECEIVED", "QUALITY_PASSED"},
         Manual(p) =>
           /\ top \in {"RAW_DISCARDED", "QUARANTINED", "REJECTED", "FAILED_PERMANENT"}
           /\ "PARSED" \in stages => "REJECTED" \in stages,
         ~Manual(p) => top \notin {"RAW_DISCARDED", "REJECTED", "FAILED_PERMANENT"}
  PROVE  PairsStored'
<1> SUFFICES ASSUME NEW q \in Pairs, Started(q)' PROVE Stored(q)'
  BY DEF PairsStored
<1>1. Manual(q)' <=> Manual(q)
  BY DEF Manual
<1>2. CASE q = p
  <2>1. History(q)' = t /\ Stored(p)
    BY <1>2, MovesFacts DEF Becomes, PairsStored
  <2> QED
    BY <1>1, <1>2, <2>1 DEF Stored, Becomes
<1>3. CASE q # p
  <2>1. History(q)' = History(q) /\ Stored(q)
    BY <1>3, MovesFacts DEF Becomes, PairsStored
  <2> QED
    BY <1>1, <2>1 DEF Stored
<1> QED
  BY <1>2, <1>3

(* The issues and bundles of the other pairs keep their reasons.           *)
LEMMA BecomesExplained ==
  ASSUME PairInvariant, PairsStored, IssuesExplained, NEW p \in Pairs, Started(p), UNCHANGED source,
         NEW t, NEW stages, NEW top, Becomes(p, t, stages, top),
         \A q \in Pairs \ {p} : issues'[q] = issues[q] /\ (q \in bundle' <=> q \in bundle),
         "QUARANTINE" \in issues'[p] <=> "QUARANTINED" \in stages,
         p \in bundle' <=> UsableBy(t, source[p].cutoff),
         "POST_CUTOFF" \in issues'[p] <=> "USABLE" \in stages /\ p \notin bundle'
  PROVE  IssuesExplained'
<1> SUFFICES ASSUME NEW q \in Pairs
             PROVE  /\ "QUARANTINE" \in issues'[q] <=> HasStage(History(q)', "QUARANTINED")
                    /\ q \in bundle' <=> UsableBy(History(q)', source[q].cutoff)
                    /\ "POST_CUTOFF" \in issues'[q] <=>
                         HasStage(History(q)', "USABLE") /\ q \notin bundle'
  BY DEF IssuesExplained, HasStage, UsableBy
<1>1. CASE q = p
  <2>1. History(q)' = t /\ Climbing(History(p))
    BY <1>1, MovesFacts DEF Becomes, PairsStored, Stored
  <2>2. ~HasStage(History(p), "QUARANTINED") /\ ~HasStage(History(p), "USABLE")
    BY <2>1, OpenFacts DEF Becomes, Terminal
  <2> QED
    BY <1>1, <2>1, <2>2 DEF Becomes
<1>2. CASE q # p
  <2>1. History(q)' = History(q)
    BY <1>2, MovesFacts DEF Becomes
  <2> QED
    BY <1>2, <2>1 DEF IssuesExplained
<1> QED
  BY <1>1, <1>2

(* A history without USABLE publishes nothing.                             *)
LEMMA NotUsable ==
  ASSUME NEW s, ~HasStage(s, "USABLE"), NEW cutoff
  PROVE  ~UsableBy(s, cutoff)
BY DEF HasStage, UsableBy

(* ... so a step that records neither USABLE nor QUARANTINED needs no      *)
(* issue and no bundle.                                                    *)
LEMMA BecomesUnpublished ==
  ASSUME PairInvariant, PairsStored, IssuesExplained, NEW p \in Pairs, Started(p), UNCHANGED source,
         NEW t, NEW stages, NEW top, Becomes(p, t, stages, top),
         "USABLE" \notin stages, "QUARANTINED" \notin stages,
         UNCHANGED <<issues, bundle>>
  PROVE  IssuesExplained'
<1>1. Climbing(History(p))
  BY DEF PairsStored, Stored
<1>2. ~HasStage(History(p), "QUARANTINED") /\ ~HasStage(History(p), "USABLE")
  BY <1>1, OpenFacts DEF Becomes, Terminal
<1>3. ~HasStage(t, "USABLE")
  BY <1>2 DEF Becomes
<1>4. /\ "QUARANTINE" \notin issues[p] /\ "POST_CUTOFF" \notin issues[p]
      /\ p \notin bundle
  BY <1>2, NotUsable DEF IssuesExplained
<1> QED
  BY <1>3, <1>4, NotUsable, BecomesExplained

(* A step that leaves the histories, the issues and the bundles alone.     *)
LEMMA UnmovedKeeps ==
  ASSUME PairsStored, IssuesExplained, UNCHANGED <<log, source, issues, bundle>>
  PROVE  /\ PairsStored' /\ IssuesExplained'
         /\ \A q, rank : At(q, rank)' <=> At(q, rank)
<1>1. PairsStored'
  BY DEF PairsStored, Stored, Started, History, Manual
<1>2. IssuesExplained'
  BY DEF IssuesExplained, History
<1>3. \A q, rank : At(q, rank)' <=> At(q, rank)
  BY DEF At, History
<1> QED
  BY <1>1, <1>2, <1>3

(* What the other workers know stays true.                                 *)
LEMMA OthersKnow ==
  ASSUME PairInvariant, WorkersKnow, NEW w \in Workers, NEW m,
         worker' = [worker EXCEPT ![w] = m], UNCHANGED source,
         \A q \in Pairs, rank \in Nat : Started(q) /\ At(q, rank) => At(q, rank)',
         WorkerKnows(w)'
  PROVE  WorkersKnow'
<1> SUFFICES ASSUME NEW v \in Workers, v # w PROVE WorkerKnows(v)'
  BY DEF WorkersKnow
<1>1. worker'[v] = worker[v] /\ WorkerKnows(v)
  BY DEF PairInvariant, TypeOK, WorkersKnow
<1>2. CASE worker[v].pc = "idle"
  BY <1>1, <1>2 DEF WorkerKnows, Requires
<1>3. CASE worker[v].pc = "envelope"
  BY <1>1, <1>3 DEF WorkerKnows, Requires
<1>4. CASE worker[v].pc \notin {"idle", "envelope"}
  <2>1. PICK p \in Pairs : p = worker[v].pair /\ Started(p)
    BY <1>4, HeldPair
  <2>2. /\ At(p, 3) => At(p, 3)'
        /\ At(p, 4) => At(p, 4)'
        /\ At(p, 5) => At(p, 5)'
        /\ At(p, 6) => At(p, 6)'
    BY <2>1
  <2>3. Manual(p)' <=> Manual(p)
    BY DEF Manual
  <2>4. Requires(worker[v].pc, p, worker[v].bodies)
    BY <1>1, <2>1 DEF WorkerKnows
  <2>5. Requires(worker[v].pc, p, worker[v].bodies)'
    BY <1>1, <1>4, <2>2, <2>3, <2>4 DEF Requires
  <2> QED
    BY <1>1, <1>4, <2>1, <2>5 DEF WorkerKnows
<1> QED
  BY <1>2, <1>3, <1>4

-----------------------------------------------------------------------------
(* What one transaction of a stored pair may do to its history, its issues *)
(* and its bundle.                                                         *)

(* The climbs that are a transaction of their own, with what the worker    *)
(* does next.                                                              *)
Lifts ==
  { <<"STORED", "PARSED", "validate">>, <<"PARSED", "VALIDATED", "map">>,
    <<"VALIDATED", "MAPPED", "promote">>, <<"MAPPED", "PROMOTED", "finish">> }

Lifting(p, t) ==
  /\ ~Manual(p) /\ UNCHANGED <<issues, bundle>>
  /\ \E lift \in Lifts : LastGood(History(p)) = lift[1] /\ Becomes(p, t, {lift[2]}, lift[2])

Finishing(p, t) ==
  /\ ~Manual(p) /\ LastGood(History(p)) = "PROMOTED"
  /\ Becomes(p, t, {"QUALITY_PASSED", "USABLE"}, "USABLE")
  /\ LET inTime == UsableBy(t, source[p].cutoff) IN
       /\ bundle' = IF inTime THEN bundle \cup {p} ELSE bundle
       /\ issues' = IF inTime THEN issues ELSE [issues EXCEPT ![p] = @ \cup {"POST_CUTOFF"}]

Quarantining(p, t) ==
  /\ Becomes(p, t, {"QUARANTINED"}, "QUARANTINED")
  /\ issues' = [issues EXCEPT ![p] = @ \cup {"QUARANTINE"}]
  /\ UNCHANGED bundle

Failing(p, t) ==
  /\ Becomes(p, t, {"FAILED_RETRYABLE"}, LastGood(History(p)))
  /\ UNCHANGED <<issues, bundle>>

Rejecting(p, t) ==
  /\ Manual(p) /\ LastGood(History(p)) = "RAW_DISCARDED"
  /\ \/ Becomes(p, t, {"PARSED", "VALIDATED", "REJECTED"}, "REJECTED")
     \/ Becomes(p, t, {"FAILED_PERMANENT"}, "FAILED_PERMANENT")
  /\ UNCHANGED <<issues, bundle>>

Effect(p) ==
  \/ UNCHANGED <<log, issues, bundle>>
  \/ \E t : Lifting(p, t) \/ Finishing(p, t) \/ Quarantining(p, t) \/ Failing(p, t) \/ Rejecting(p, t)

RanksKept == \A q \in Pairs, rank \in Nat : Started(q) /\ At(q, rank) => At(q, rank)'

(* Whatever a transaction does, pairs stay stored, ranks are kept, and     *)
(* issues and bundles keep their reasons.                                  *)
LEMMA EffectKeeps ==
  ASSUME HistoryInvariant, NEW p \in Pairs, Started(p), UNCHANGED source, Effect(p)
  PROVE  PairsStored' /\ IssuesExplained' /\ RanksKept
<1>1. PairInvariant /\ PairsStored /\ IssuesExplained
  BY DEF HistoryInvariant
<1>2. Stored(p) /\ Climbing(History(p)) /\ History(p) \in Seq(Events) /\ HasTop(History(p))
  BY <1>1 DEF PairsStored, Stored, Climbing
<1>3. /\ LastGood(History(p)) \in Stages
      /\ LastGood(History(p)) # "FAILED_RETRYABLE"
      /\ LastGood(History(p)) \notin {"RECEIVED", "QUALITY_PASSED"}
      /\ Rank(LastGood(History(p))) \in Int
  BY <1>2, TopFacts, RankFacts DEF Stored
<1>4. issues \in [Pairs -> SUBSET {"QUARANTINE", "POST_CUTOFF"}] /\ bundle \subseteq Pairs
  BY <1>1 DEF PairInvariant, TypeOK
<1>5. CASE UNCHANGED <<log, issues, bundle>>
  BY <1>1, <1>5, UnmovedKeeps DEF RanksKept
<1>6. ASSUME NEW t, Lifting(p, t) PROVE PairsStored' /\ IssuesExplained' /\ RanksKept
  <2>1. PICK lift \in Lifts : LastGood(History(p)) = lift[1] /\ Becomes(p, t, {lift[2]}, lift[2])
    BY <1>6 DEF Lifting
  <2>2. /\ lift[2] \in {"PARSED", "VALIDATED", "MAPPED", "PROMOTED"}
        /\ Rank(lift[1]) <= Rank(lift[2])
    BY DEF Lifts, Rank
  <2>3. ~Manual(p) /\ UNCHANGED <<issues, bundle>>
    BY <1>6 DEF Lifting
  <2>4. RanksKept
    BY <1>1, <1>2, <2>1, <2>2, BecomesAt DEF RanksKept, Stages
  <2>5. PairsStored'
    BY <1>1, <2>1, <2>2, <2>3, BecomesStored
  <2>6. IssuesExplained'
    BY <1>1, <2>1, <2>2, <2>3, BecomesUnpublished
  <2> QED
    BY <2>4, <2>5, <2>6
<1>7. ASSUME NEW t, Finishing(p, t) PROVE PairsStored' /\ IssuesExplained' /\ RanksKept
  <2> DEFINE inTime == UsableBy(t, source[p].cutoff)
  <2>1. /\ ~Manual(p)
        /\ Becomes(p, t, {"QUALITY_PASSED", "USABLE"}, "USABLE")
        /\ bundle' = IF inTime THEN bundle \cup {p} ELSE bundle
        /\ issues' = IF inTime THEN issues ELSE [issues EXCEPT ![p] = @ \cup {"POST_CUTOFF"}]
    BY <1>7 DEF Finishing
  <2>2. ~HasStage(History(p), "QUARANTINED") /\ ~HasStage(History(p), "USABLE")
    BY <1>2, <2>1, OpenFacts DEF Becomes, Terminal
  <2>3. p \notin bundle /\ "QUARANTINE" \notin issues[p] /\ "POST_CUTOFF" \notin issues[p]
    BY <1>1, <2>2, NotUsable DEF IssuesExplained
  <2> HIDE DEF inTime
  <2>4. /\ \A q \in Pairs \ {p} : issues'[q] = issues[q] /\ (q \in bundle' <=> q \in bundle)
        /\ "QUARANTINE" \notin issues'[p]
        /\ p \in bundle' <=> inTime
        /\ "POST_CUTOFF" \in issues'[p] <=> ~inTime
    BY <1>4, <2>1, <2>3
  <2>5. RanksKept
    BY <1>1, <1>2, <2>1, BecomesAt DEF RanksKept, Stages, Terminal
  <2>6. PairsStored'
    BY <1>1, <2>1, BecomesStored
  <2>7. IssuesExplained'
    BY <1>1, <2>1, <2>4, BecomesExplained DEF inTime
  <2> QED
    BY <2>5, <2>6, <2>7
<1>8. ASSUME NEW t, Quarantining(p, t) PROVE PairsStored' /\ IssuesExplained' /\ RanksKept
  <2>1. /\ Becomes(p, t, {"QUARANTINED"}, "QUARANTINED")
        /\ issues' = [issues EXCEPT ![p] = @ \cup {"QUARANTINE"}]
        /\ UNCHANGED bundle
    BY <1>8 DEF Quarantining
  <2>2. ~HasStage(History(p), "USABLE")
    BY <1>2, <2>1, OpenFacts DEF Becomes, Terminal
  <2>3. p \notin bundle /\ "POST_CUTOFF" \notin issues[p]
    BY <1>1, <2>2, NotUsable DEF IssuesExplained
  <2>4. ~HasStage(t, "USABLE")
    BY <2>1, <2>2 DEF Becomes
  <2>5. /\ \A q \in Pairs \ {p} : issues'[q] = issues[q]
        /\ "QUARANTINE" \in issues'[p] /\ "POST_CUTOFF" \notin issues'[p]
    BY <1>4, <2>1, <2>3
  <2>6. RanksKept
    BY <1>1, <1>2, <2>1, BecomesAt DEF RanksKept, Stages, Escapes, Terminal
  <2>7. PairsStored'
    BY <1>1, <2>1, BecomesStored
  <2>8. IssuesExplained'
    BY <1>1, <2>1, <2>3, <2>4, <2>5, NotUsable, BecomesExplained
  <2> QED
    BY <2>6, <2>7, <2>8
<1>9. ASSUME NEW t, Failing(p, t) PROVE PairsStored' /\ IssuesExplained' /\ RanksKept
  <2>1. /\ Becomes(p, t, {"FAILED_RETRYABLE"}, LastGood(History(p)))
        /\ UNCHANGED <<issues, bundle>>
    BY <1>9 DEF Failing
  <2>2. RanksKept
    BY <1>1, <1>2, <1>3, <2>1, BecomesAt DEF RanksKept
  <2>3. PairsStored'
    BY <1>1, <1>2, <1>3, <2>1, BecomesStored DEF Stored
  <2>4. IssuesExplained'
    BY <1>1, <2>1, BecomesUnpublished
  <2> QED
    BY <2>2, <2>3, <2>4
<1>10. ASSUME NEW t, Rejecting(p, t) PROVE PairsStored' /\ IssuesExplained' /\ RanksKept
  <2>1. Manual(p) /\ UNCHANGED <<issues, bundle>>
    BY <1>10 DEF Rejecting
  <2>2. CASE Becomes(p, t, {"PARSED", "VALIDATED", "REJECTED"}, "REJECTED")
    <3>1. RanksKept
      BY <1>1, <1>2, <2>2, BecomesAt DEF RanksKept, Stages, Escapes, Terminal
    <3>2. PairsStored'
      BY <1>1, <2>1, <2>2, BecomesStored
    <3>3. IssuesExplained'
      BY <1>1, <2>1, <2>2, BecomesUnpublished
    <3> QED
      BY <3>1, <3>2, <3>3
  <2>3. CASE Becomes(p, t, {"FAILED_PERMANENT"}, "FAILED_PERMANENT")
    <3>1. RanksKept
      BY <1>1, <1>2, <2>3, BecomesAt DEF RanksKept, Stages, Escapes, Terminal
    <3>2. PairsStored'
      BY <1>1, <2>1, <2>3, BecomesStored
    <3>3. IssuesExplained'
      BY <1>1, <2>1, <2>3, BecomesUnpublished
    <3> QED
      BY <3>1, <3>2, <3>3
  <2> QED
    BY <1>10, <2>2, <2>3 DEF Rejecting
<1> QED
  BY <1>5, <1>6, <1>7, <1>8, <1>9, <1>10 DEF Effect

-----------------------------------------------------------------------------
(* The transactions one by one.                                            *)

(* A transaction of a call in progress: its effect is one of the above,    *)
(* its worker goes on with what the next transaction requires, and when it *)
(* returns, unless to report a database error, the pair has ended.         *)
Sound(w, p) ==
  /\ Effect(p)
  /\ WorkerKnows(w)'
  /\ worker[w].pc # "failed" /\ worker'[w] = Idle => Ended(History(p))'

(* What every transaction of a call in progress finds.                     *)
LEMMA Found ==
  ASSUME HistoryInvariant, NEW w \in Workers, worker[w].pc \notin {"idle", "envelope"},
         NEW p \in Pairs, worker[w].pair = p
  PROVE  /\ Started(p) /\ Stored(p) /\ Climbing(History(p))
         /\ \A r \in Resources : log[p][r] = History(p)
         /\ ~Diverged(p)
         /\ worker[w].opAt \in 0..MaxInstant
         /\ source[p].captured <= worker[w].opAt
         /\ Requires(worker[w].pc, p, worker[w].bodies)
         /\ \A stage : /\ LiftAccepted(p, stage) <=>
                            Reached(History(p), stage) \/ Accepts(History(p), stage)
                       /\ Below(p, stage) <=> Rank(LastGood(History(p))) < Rank(stage)
         /\ \A t : log' = Rewrite(p, [r \in Resources |-> t]) => Moves(p, t)
         /\ Moves(p, History(p)) => UNCHANGED log
<1>1. PairInvariant /\ PairsStored /\ WorkerKnows(w)
  BY DEF HistoryInvariant, WorkersKnow
<1>2. Started(p) /\ worker[w].opAt \in 0..MaxInstant
  BY <1>1, HeldPair
<1>3. Stored(p) /\ Climbing(History(p))
  BY <1>1, <1>2 DEF PairsStored, Stored
<1>4. /\ \A r \in Resources : log[p][r] = History(p)
      /\ ~Diverged(p)
      /\ log[p] = [r \in Resources |-> History(p)]
  BY <1>1, Members
<1>5. source[p].captured <= worker[w].opAt /\ Requires(worker[w].pc, p, worker[w].bodies)
  BY <1>1 DEF WorkerKnows
<1>6. \A stage : /\ LiftAccepted(p, stage) <=>
                      Reached(History(p), stage) \/ Accepts(History(p), stage)
                 /\ Below(p, stage) <=> Rank(LastGood(History(p))) < Rank(stage)
  BY <1>4 DEF LiftAccepted, Below, Effective, History, Resources
<1>7. \A t : log' = Rewrite(p, [r \in Resources |-> t]) => Moves(p, t)
  BY DEF Rewrite, Moves
<1>8. Moves(p, History(p)) => UNCHANGED log
  BY <1>1, <1>4 DEF Moves, PairInvariant, TypeOK
<1> QED
  BY <1>2, <1>3, <1>4, <1>5, <1>6, <1>7, <1>8

(* A worker that advances knows what its next transaction requires.        *)
LEMMA AdvanceKnows ==
  ASSUME HistoryInvariant, NEW w \in Workers, worker[w].pc \notin {"idle", "envelope"},
         NEW p \in Pairs, worker[w].pair = p, UNCHANGED source,
         NEW outcome, NEW next \in PCs, Advance(w, outcome, next),
         next = "idle" \/ (outcome = "ok" => Requires(next, p, worker[w].bodies)')
  PROVE  /\ WorkerKnows(w)'
         /\ worker'[w] = Idle => outcome = "abort" \/ (outcome = "ok" /\ next = "idle")
<1> DEFINE pc == IF outcome = "ok" THEN next ELSE "quarantine"
           m == worker[w]
           advanced == [m EXCEPT !.pc = pc]
           idles == outcome = "abort" \/ (outcome = "ok" /\ next = "idle")
<1>1. worker \in [Workers -> Memories] /\ m \in Memories
  BY DEF HistoryInvariant, PairInvariant, TypeOK
<1>2. worker'[w] = IF idles THEN Idle ELSE advanced
  BY <1>1 DEF Advance
<1>3. /\ advanced.pc = pc /\ advanced.pair = p /\ advanced.opAt = m.opAt
      /\ advanced.bodies = m.bodies
  BY <1>1 DEF Memories
<1>4. CASE idles
  BY <1>2, <1>4 DEF WorkerKnows, Requires, Idle
<1>5. CASE ~idles
  <2>1. worker'[w] = advanced
    BY <1>2, <1>5
  <2> HIDE DEF advanced
  <2>2. source[p].captured <= m.opAt
    BY Found
  <2>3. pc # "idle"
    BY <1>5
  <2>4. worker'[w] # Idle
    BY <1>3, <2>1, <2>3 DEF Idle
  <2>5. CASE outcome = "ok"
    <3>1. Requires(next, p, worker[w].bodies)' /\ pc = next
      BY <1>5, <2>5
    <3>2. Requires(worker[w].pc, worker[w].pair, worker[w].bodies)'
      BY <1>3, <2>1, <3>1
    <3> QED
      BY <1>3, <2>1, <2>2, <2>4, <3>2 DEF WorkerKnows
  <2>6. CASE outcome # "ok"
    <3>1. worker'[w].pc = "quarantine"
      BY <1>3, <2>1, <2>6
    <3> QED
      BY <1>3, <2>1, <2>2, <2>4, <3>1 DEF WorkerKnows, Requires
  <2> QED
    BY <2>5, <2>6
<1> QED
  BY <1>4, <1>5

(* While a pair is open, its last good stage is one it may rest on.        *)
LEMMA OpenPair ==
  ASSUME NEW p, Stored(p), ~Ended(History(p))
  PROVE  /\ Manual(p) => LastGood(History(p)) = "RAW_DISCARDED"
         /\ ~Manual(p) => LastGood(History(p)) \in {"STORED", "PARSED", "VALIDATED", "MAPPED", "PROMOTED"}
<1>1. LastGood(History(p)) \in Stages \ (Escapes \cup {"USABLE"})
  BY OpenFacts DEF Stored
<1> QED
  BY <1>1 DEF Stored, Stages, Escapes

(* A step that records at most one stage, for one pair.                    *)
OnlyLifts(p, stage) == UNCHANGED log \/ \E t : Becomes(p, t, {stage}, stage)

(* ParsePair, ValidatePair, MapPair and PromotePair have one form: lift    *)
(* both members by one stage, or find the stage reached already.           *)
LEMMA LiftTransaction ==
  ASSUME HistoryInvariant, NEW w \in Workers, worker[w].pc \notin {"idle", "envelope"},
         NEW p \in Pairs, worker[w].pair = p, ~Manual(p),
         UNCHANGED <<source, issues, bundle>>,
         NEW lift \in Lifts, NEW outcome, Advance(w, outcome, lift[3]),
         log' = IF outcome = "ok" /\ Below(p, lift[2])
                THEN Rewrite(p, [r \in Resources |-> Lifted(log[p][r], lift[2], worker[w].opAt)])
                ELSE log,
         outcome = "ok" => ~Below(p, lift[2]) \/ LiftAccepted(p, lift[2]),
         outcome = "abort" => Ended(History(p))
  PROVE  /\ Sound(w, p)
         /\ OnlyLifts(p, lift[2])
         /\ outcome = "ok" /\ Below(p, lift[2]) /\ ~Ended(History(p)) =>
              \E t : Becomes(p, t, {lift[2]}, lift[2])
         /\ UNCHANGED log \/ (outcome = "ok" /\ Below(p, lift[2]))
<1> DEFINE h == History(p)
           t == Lifted(h, lift[2], worker[w].opAt)
<1>1. /\ Started(p) /\ Climbing(h) /\ \A r \in Resources : log[p][r] = h
      /\ worker[w].opAt \in 0..MaxInstant
      /\ LiftAccepted(p, lift[2]) <=> Reached(h, lift[2]) \/ Accepts(h, lift[2])
      /\ Below(p, lift[2]) <=> Rank(LastGood(h)) < Rank(lift[2])
      /\ \A s : log' = Rewrite(p, [r \in Resources |-> s]) => Moves(p, s)
      /\ Moves(p, h) => UNCHANGED log
  BY Found
<1>2. /\ lift[2] \in Stages \ Escapes /\ lift[2] \notin Terminal
      /\ Rank(lift[2]) \in {3, 4, 5, 6}
      /\ \A from : <<from, lift[2]>> \in Successor /\ from # "RAW_DISCARDED" => from = lift[1]
      /\ lift[3] \in PCs /\ lift[3] # "idle"
  BY DEF Lifts, Stages, Escapes, Terminal, Rank, Successor, PCs
<1>3. ~Ended(h) => LastGood(h) # "RAW_DISCARDED"
  BY OpenPair, Found
<1>4. \/ UNCHANGED log /\ (Ended(h) \/ ~(outcome = "ok" /\ Below(p, lift[2])))
      \/ outcome = "ok" /\ Below(p, lift[2]) /\ Lifting(p, t) /\ Becomes(p, t, {lift[2]}, lift[2])
  <2>1. CASE ~(outcome = "ok" /\ Below(p, lift[2]))
    BY <2>1
  <2>2. CASE outcome = "ok" /\ Below(p, lift[2])
    <3>1. Moves(p, t)
      BY <1>1, <2>2
    <3>2. \/ Ended(h) /\ t = h
          \/ ~Ended(h) /\ <<LastGood(h), lift[2]>> \in Successor /\ Rise(h, lift[2], t)
      BY <1>1, <1>2, <2>2, LiftedRises DEF HistoryInvariant, PairInvariant
    <3> HIDE DEF t
    <3>3. CASE Ended(h) /\ t = h
      BY <1>1, <3>1, <3>3
    <3>4. CASE ~Ended(h) /\ <<LastGood(h), lift[2]>> \in Successor /\ Rise(h, lift[2], t)
      <4>1. LastGood(h) = lift[1]
        BY <1>2, <1>3, <3>4
      <4>2. Becomes(p, t, {lift[2]}, lift[2])
        BY <1>2, <3>1, <3>4 DEF Becomes, Rise, Escapes
      <4> QED
        BY <2>2, <4>1, <4>2 DEF Lifting
    <3> QED
      BY <3>2, <3>3, <3>4
  <2> QED
    BY <2>1, <2>2
<1> HIDE DEF t
<1>5. Effect(p)
  BY <1>4 DEF Effect
<1>6. RanksKept
  BY <1>1, <1>5, EffectKeeps
<1>7. outcome = "ok" => At(p, Rank(lift[2]))'
  <2> SUFFICES ASSUME outcome = "ok" PROVE At(p, Rank(lift[2]))'
    OBVIOUS
  <2>1. CASE Below(p, lift[2])
    <3>1. Moves(p, t)
      BY <1>1, <2>1 DEF t
    <3>2. \/ Ended(h) /\ t = h
          \/ Rise(h, lift[2], t)
      BY <1>1, <1>2, <2>1, LiftedRises DEF HistoryInvariant, PairInvariant, t
    <3>3. History(p)' = t
      BY <3>1, MovesFacts DEF HistoryInvariant
    <3>4. CASE Ended(h) /\ t = h
      BY <3>3, <3>4 DEF At
    <3>5. CASE Rise(h, lift[2], t)
      <4>1. LastGood(t) = lift[2]
        BY <1>2, <3>5 DEF Rise, Escapes
      <4>2. Rank(LastGood(t)) >= Rank(lift[2])
        BY <1>2, <4>1
      <4> QED
        BY <3>3, <4>2 DEF At
    <3> QED
      BY <3>2, <3>4, <3>5
  <2>2. CASE ~Below(p, lift[2])
    <3>1. UNCHANGED log
      BY <2>2
    <3>2. Rank(LastGood(h)) \in Int
      BY <1>1, TopFacts, RankFacts DEF Climbing
    <3>3. Rank(LastGood(h)) >= Rank(lift[2])
      BY <1>1, <1>2, <2>2, <3>2
    <3> QED
      BY <3>1, <3>3 DEF At, History
  <2> QED
    BY <2>1, <2>2
<1>8. outcome = "ok" => Requires(lift[3], p, worker[w].bodies)'
  <2> SUFFICES ASSUME outcome = "ok" PROVE Requires(lift[3], p, worker[w].bodies)'
    OBVIOUS
  <2>1. ~Manual(p)'
    BY DEF Manual
  <2>2. \/ lift[3] = "validate" /\ At(p, 3)'
        \/ lift[3] = "map" /\ At(p, 4)'
        \/ lift[3] = "promote" /\ At(p, 5)'
        \/ lift[3] = "finish" /\ At(p, 6)'
    BY <1>7 DEF Lifts, Rank
  <2> QED
    BY <2>1, <2>2 DEF Requires
<1>9. WorkerKnows(w)' /\ (worker'[w] = Idle => outcome = "abort")
  BY <1>2, <1>8, AdvanceKnows
<1>10. worker'[w] = Idle => Ended(History(p))'
  <2> SUFFICES ASSUME worker'[w] = Idle PROVE Ended(History(p))'
    OBVIOUS
  <2>1. outcome = "abort"
    BY <1>9
  <2>2. Ended(h) /\ UNCHANGED log
    BY <2>1
  <2> QED
    BY <2>2 DEF History
<1> QED
  BY <1>4, <1>5, <1>9, <1>10 DEF Sound, OnlyLifts

(* An open pair that has come as far as a lift requires is accepted.       *)
LEMMA OpenLifts ==
  ASSUME HistoryInvariant, NEW w \in Workers, worker[w].pc \notin {"idle", "envelope"},
         NEW p \in Pairs, worker[w].pair = p, ~Manual(p), NEW lift \in Lifts,
         ~Ended(History(p)), Below(p, lift[2]),
         lift[2] = "PARSED" \/ At(p, Rank(lift[2]) - 1)
  PROVE  LastGood(History(p)) = lift[1] /\ LiftAccepted(p, lift[2])
<1>1. /\ Stored(p)
      /\ Rank(LastGood(History(p))) < Rank(lift[2])
      /\ LiftAccepted(p, lift[2]) <=> Reached(History(p), lift[2]) \/ Accepts(History(p), lift[2])
  BY Found
<1>2. LastGood(History(p)) \in {"STORED", "PARSED", "VALIDATED", "MAPPED", "PROMOTED"}
  BY <1>1, OpenPair
<1>3. lift[2] = "PARSED" \/ Rank(LastGood(History(p))) >= Rank(lift[2]) - 1
  BY DEF At
<1>4. LastGood(History(p)) = lift[1]
  BY <1>1, <1>2, <1>3 DEF Lifts, Rank
<1>5. GuardAllows(History(p), lift[2])
  BY <1>4 DEF GuardAllows, Ended, Lifts, Successor
<1> QED
  BY <1>1, <1>4, <1>5 DEF Accepts

(* ParsePair.                                                              *)
LEMMA ParsePairSound ==
  ASSUME HistoryInvariant, NEW w \in Workers, NEW p \in Pairs, worker[w].pair = p, ParsePair(w)
  PROVE  /\ Sound(w, p)
         /\ UNCHANGED <<source, reserved, plan, fact, claims, faults>>
         /\ OnlyLifts(p, "PARSED")
<1> DEFINE lift == <<"STORED", "PARSED", "validate">>
           outcome == ParseOutcome(w, p)
<1>1. /\ worker[w].pc = "parse"
      /\ log' = IF outcome = "ok" /\ Below(p, lift[2])
                THEN Rewrite(p, [r \in Resources |-> Lifted(log[p][r], lift[2], worker[w].opAt)])
                ELSE log
      /\ Advance(w, outcome, lift[3])
      /\ UNCHANGED <<source, reserved, plan, fact, claims, faults, issues, bundle>>
  BY DEF ParsePair
<1>2. lift \in Lifts
  BY DEF Lifts
<1>3. ~Diverged(p) /\ Requires(worker[w].pc, p, worker[w].bodies)
  BY <1>1, Found
<1>4. ~Manual(p) /\ (worker[w].bodies \/ At(p, 3))
  BY <1>1, <1>3 DEF Requires
<1>5. outcome = "ok" => ~Below(p, lift[2]) \/ LiftAccepted(p, lift[2])
  BY DEF ParseOutcome
<1>6. ASSUME outcome = "abort", ~Ended(History(p)) PROVE FALSE
  <2>1. Below(p, "PARSED")
    BY <1>3, <1>6 DEF ParseOutcome
  <2>2. LastGood(History(p)) = "STORED" /\ LiftAccepted(p, "PARSED")
    BY <1>1, <1>2, <1>4, <1>6, <2>1, OpenLifts
  <2>3. worker[w].bodies
    BY <1>4, <1>6, <2>2 DEF At, Rank
  <2> QED
    BY <1>3, <1>6, <2>1, <2>2, <2>3 DEF ParseOutcome
<1> HIDE DEF outcome
<1>7. Sound(w, p) /\ OnlyLifts(p, "PARSED")
  BY <1>1, <1>2, <1>4, <1>5, <1>6, LiftTransaction
<1> QED
  BY <1>1, <1>7

(* ValidatePair.                                                           *)
LEMMA ValidatePairSound ==
  ASSUME HistoryInvariant, NEW w \in Workers, NEW p \in Pairs, worker[w].pair = p, ValidatePair(w)
  PROVE  /\ Sound(w, p)
         /\ UNCHANGED <<source, reserved, plan, fact, claims, faults>>
         /\ OnlyLifts(p, "VALIDATED")
<1> DEFINE lift == <<"PARSED", "VALIDATED", "map">>
           outcome == ValidateOutcome(p)
<1>1. /\ worker[w].pc = "validate"
      /\ log' = IF outcome = "ok" /\ Below(p, lift[2])
                THEN Rewrite(p, [r \in Resources |-> Lifted(log[p][r], lift[2], worker[w].opAt)])
                ELSE log
      /\ Advance(w, outcome, lift[3])
      /\ UNCHANGED <<source, reserved, plan, fact, claims, faults, issues, bundle>>
  BY DEF ValidatePair
<1>2. lift \in Lifts
  BY DEF Lifts
<1>3. ~Diverged(p) /\ Requires(worker[w].pc, p, worker[w].bodies)
  BY <1>1, Found
<1>4. ~Manual(p) /\ At(p, Rank("VALIDATED") - 1)
  BY <1>1, <1>3 DEF Requires, Rank
<1>5. outcome = "ok" => ~Below(p, lift[2]) \/ LiftAccepted(p, lift[2])
  BY DEF ValidateOutcome
<1>6. ASSUME outcome = "abort", ~Ended(History(p)) PROVE FALSE
  <2>1. Below(p, "VALIDATED")
    BY <1>3, <1>6 DEF ValidateOutcome
  <2>2. LiftAccepted(p, "VALIDATED")
    BY <1>1, <1>2, <1>4, <1>6, <2>1, OpenLifts
  <2> QED
    BY <1>3, <1>6, <2>1, <2>2 DEF ValidateOutcome
<1> HIDE DEF outcome
<1>7. Sound(w, p) /\ OnlyLifts(p, "VALIDATED")
  BY <1>1, <1>2, <1>4, <1>5, <1>6, LiftTransaction
<1> QED
  BY <1>1, <1>7

(* An open pair that has been mapped, and whatever follows, has its plan.  *)
LEMMA MappedHasPlan ==
  ASSUME CanonicalInvariant, NEW p \in Pairs, Climbing(History(p)),
         LastGood(History(p)) \in {"MAPPED", "PROMOTED", "USABLE"}
  PROVE  HasStage(History(p), "MAPPED") /\ PlanHolds(p)
<1>1. HasStage(History(p), LastGood(History(p)))
  BY TopFacts DEF Climbing
<1>2. HasStage(History(p), "MAPPED")
  BY <1>1 DEF Climbing, Closed, Rungs
<1> QED
  BY <1>2 DEF CanonicalInvariant, PlansKept

(* MapPair.                                                                *)
LEMMA MapPairSound ==
  ASSUME CanonicalInvariant, NEW w \in Workers, NEW p \in Pairs, worker[w].pair = p, MapPair(w)
  PROVE  Sound(w, p) /\ OnlyLifts(p, "MAPPED")
<1> DEFINE lift == <<"VALIDATED", "MAPPED", "promote">>
           outcome == MapOutcome(p)
<1>1. /\ worker[w].pc = "map"
      /\ log' = IF outcome = "ok" /\ Below(p, lift[2])
                THEN Rewrite(p, [r \in Resources |-> Lifted(log[p][r], lift[2], worker[w].opAt)])
                ELSE log
      /\ Advance(w, outcome, lift[3])
      /\ UNCHANGED <<source, issues, bundle>>
  BY DEF MapPair
<1>2. lift \in Lifts /\ HistoryInvariant
  BY DEF Lifts, CanonicalInvariant
<1>3. /\ ~Diverged(p) /\ Requires(worker[w].pc, p, worker[w].bodies)
      /\ Stored(p) /\ Climbing(History(p))
      /\ Below(p, "MAPPED") <=> Rank(LastGood(History(p))) < Rank("MAPPED")
  BY <1>1, <1>2, Found
<1>4. ~Manual(p) /\ At(p, Rank("MAPPED") - 1)
  BY <1>1, <1>3 DEF Requires, Rank
<1>5. outcome = "ok" => ~Below(p, lift[2]) \/ LiftAccepted(p, lift[2])
  BY DEF MapOutcome
<1>6. ASSUME outcome = "abort", ~Ended(History(p)) PROVE FALSE
  <2>1. CASE Below(p, "MAPPED")
    <3>1. LiftAccepted(p, "MAPPED")
      BY <1>1, <1>2, <1>4, <1>6, <2>1, OpenLifts
    <3> QED
      BY <1>3, <1>6, <2>1, <3>1 DEF MapOutcome
  <2>2. CASE ~Below(p, "MAPPED")
    <3>1. LastGood(History(p)) \in {"MAPPED", "PROMOTED"}
      BY <1>3, <1>4, <1>6, <2>2, OpenPair DEF Rank
    <3>2. PlanHolds(p)
      BY <1>3, <3>1, MappedHasPlan
    <3> QED
      BY <1>3, <1>6, <2>2, <3>2 DEF MapOutcome
  <2> QED
    BY <2>1, <2>2
<1> HIDE DEF outcome
<1>7. Sound(w, p) /\ OnlyLifts(p, "MAPPED")
  BY <1>1, <1>2, <1>4, <1>5, <1>6, LiftTransaction
<1> QED
  BY <1>7

(* PromotePair.                                                            *)
LEMMA PromotePairSound ==
  ASSUME CanonicalInvariant, NEW w \in Workers, NEW p \in Pairs, worker[w].pair = p, PromotePair(w)
  PROVE  /\ Sound(w, p) /\ OnlyLifts(p, "PROMOTED")
         /\ PromoteOutcome(p) = "ok" /\ Below(p, "PROMOTED") =>
              \E t : Becomes(p, t, {"PROMOTED"}, "PROMOTED")
<1> DEFINE lift == <<"MAPPED", "PROMOTED", "finish">>
           outcome == PromoteOutcome(p)
<1>1. /\ worker[w].pc = "promote"
      /\ log' = IF outcome = "ok" /\ Below(p, lift[2])
                THEN Rewrite(p, [r \in Resources |-> Lifted(log[p][r], lift[2], worker[w].opAt)])
                ELSE log
      /\ Advance(w, outcome, lift[3])
      /\ UNCHANGED <<source, issues, bundle>>
  BY DEF PromotePair
<1>2. lift \in Lifts /\ HistoryInvariant
  BY DEF Lifts, CanonicalInvariant
<1>3. /\ ~Diverged(p) /\ Requires(worker[w].pc, p, worker[w].bodies)
      /\ Stored(p) /\ Climbing(History(p))
      /\ \A r \in Resources : log[p][r] = History(p)
  BY <1>1, <1>2, Found
<1>4. ~Manual(p) /\ At(p, 5) /\ At(p, Rank("PROMOTED") - 1)
  BY <1>1, <1>3 DEF Requires, Rank
<1>5. outcome = "ok" => ~Below(p, lift[2]) \/ LiftAccepted(p, lift[2])
  BY DEF PromoteOutcome
<1>6. ASSUME outcome = "abort", ~Ended(History(p)) PROVE FALSE
  <2>1. LastGood(History(p)) \in {"MAPPED", "PROMOTED"}
    BY <1>3, <1>4, <1>6, OpenPair DEF At, Rank
  <2>2. PlanHolds(p)
    BY <1>3, <2>1, MappedHasPlan
  <2>3. Below(p, "PROMOTED")
    BY <1>3, <1>6, <2>2 DEF PromoteOutcome
  <2>4. LastGood(History(p)) = "MAPPED" /\ LiftAccepted(p, "PROMOTED")
    BY <1>1, <1>2, <1>4, <1>6, <2>3, OpenLifts
  <2>5. Effective(p) = "MAPPED"
    BY <1>3, <2>4 DEF Effective, History
  <2> QED
    BY <1>3, <1>6, <2>2, <2>3, <2>4, <2>5 DEF PromoteOutcome
<1>7. outcome = "ok" /\ Below(p, "PROMOTED") => ~Ended(History(p))
  <2> SUFFICES ASSUME outcome = "ok", Below(p, "PROMOTED"), Ended(History(p)) PROVE FALSE
    OBVIOUS
  <2>1. Effective(p) = "MAPPED"
    BY <1>3 DEF PromoteOutcome
  <2>2. LastGood(History(p)) = "MAPPED"
    BY <1>3, <2>1 DEF Effective, History
  <2>3. LastGood(History(p)) \in Terminal
    BY <1>3, EndedFacts
  <2> QED
    BY <2>2, <2>3 DEF Terminal
<1> HIDE DEF outcome
<1>8. /\ Sound(w, p) /\ OnlyLifts(p, lift[2])
      /\ outcome = "ok" /\ Below(p, lift[2]) /\ ~Ended(History(p)) =>
           \E t : Becomes(p, t, {lift[2]}, lift[2])
  <2> HIDE DEF lift
  <2> QED
    BY <1>1, <1>2, <1>4, <1>5, <1>6, LiftTransaction
<1> QED
  BY <1>7, <1>8 DEF outcome

(* The usable time that is compared with the cutoff.                       *)
LEMMA UsableAtFacts ==
  ASSUME NEW s, Climbing(s), HasStage(s, "USABLE"), NEW cutoff
  PROVE  UsableAt(s) < cutoff <=> UsableBy(s, cutoff)
<1> DEFINE events == {s[i] : i \in DOMAIN s}
           e == CHOOSE x \in events : x.stage = "USABLE"
<1>1. \E x \in events : x.stage = "USABLE"
  BY DEF HasStage
<1>2. e \in events /\ e.stage = "USABLE"
  BY <1>1
<1>3. PICK i \in DOMAIN s : e = s[i]
  BY <1>2
<1>4. UsableAt(s) = s[i].at /\ s[i].stage = "USABLE"
  BY <1>2, <1>3 DEF UsableAt
<1>5. ASSUME NEW j \in DOMAIN s, s[j].stage = "USABLE" PROVE j = i
  <2>1. s \in Seq(Events) /\ LegalEvents(s)
    BY DEF Climbing
  <2>2. i \in Nat /\ j \in Nat
    BY <2>1
  <2>3. ~(i < j) /\ ~(j < i)
    BY <1>3, <1>4, <1>5, <2>1 DEF LegalEvents
  <2> QED
    BY <2>2, <2>3
<1> QED
  BY <1>3, <1>4, <1>5 DEF UsableBy

(* An open promoted pair becomes usable in one transaction.                *)
LEMMA FinishRises ==
  ASSUME TypeOK, NEW s, Climbing(s), NEW at \in 0..MaxInstant,
         ~Ended(s), LastGood(s) = "PROMOTED"
  PROVE  LET t == Lifted(Lifted(s, "QUALITY_PASSED", at), "USABLE", at) IN
           /\ Climbing(t) /\ Ended(t) /\ LastGood(t) = "USABLE"
           /\ \A x : HasStage(t, x) <=> HasStage(s, x) \/ x \in {"QUALITY_PASSED", "USABLE"}
<1> DEFINE u == Lifted(s, "QUALITY_PASSED", at)
           t == Lifted(u, "USABLE", at)
<1>1. GuardAllows(s, "QUALITY_PASSED")
  BY DEF GuardAllows, Ended, Successor
<1>0. /\ {"QUALITY_PASSED", "USABLE"} \subseteq Stages \ Escapes
      /\ Rank("PROMOTED") < Rank("QUALITY_PASSED")
      /\ Rank("QUALITY_PASSED") < Rank("USABLE")
  BY DEF Stages, Escapes, Rank
<1>2. Rise(s, "QUALITY_PASSED", u)
  BY <1>0, <1>1, LiftedRises DEF Accepts
<1> HIDE DEF u
<1>3. Climbing(u) /\ ~Ended(u) /\ LastGood(u) = "QUALITY_PASSED"
  BY <1>2 DEF Rise, Terminal
<1>4. GuardAllows(u, "USABLE")
  BY <1>3 DEF GuardAllows, Ended, Successor
<1>5. Rise(u, "USABLE", t)
  BY <1>0, <1>3, <1>4, LiftedRises DEF Accepts
<1> HIDE DEF t
<1>6. /\ Climbing(t) /\ Ended(t) /\ LastGood(t) = "USABLE"
      /\ \A x : HasStage(t, x) <=> HasStage(s, x) \/ x \in {"QUALITY_PASSED", "USABLE"}
  BY <1>2, <1>5 DEF Rise, Terminal
<1> QED
  BY <1>6 DEF t, u

(* A usable pair that is finished again stays as it is.                    *)
LEMMA FinishedAgain ==
  ASSUME NEW s, Climbing(s), Ended(s), Rank(LastGood(s)) >= Rank("PROMOTED"), NEW at
  PROVE  /\ LastGood(s) = "USABLE" /\ HasStage(s, "USABLE")
         /\ Lifted(Lifted(s, "QUALITY_PASSED", at), "USABLE", at) = s
<1>1. LastGood(s) = Current(s) /\ Current(s) \in Terminal /\ HasStage(s, Current(s))
  BY EndedFacts
<1>2. Current(s) = "USABLE"
  BY <1>1 DEF Terminal, Rank
<1> QED
  BY <1>1, <1>2 DEF Lifted, Reached, Rank

(* FinishPair.                                                             *)
LEMMA FinishPairSound ==
  ASSUME CanonicalInvariant, NEW w \in Workers, NEW p \in Pairs, worker[w].pair = p, FinishPair(w)
  PROVE  /\ Sound(w, p)
         /\ UNCHANGED log \/ \E t : Becomes(p, t, {"QUALITY_PASSED", "USABLE"}, "USABLE")
<1> DEFINE h == History(p)
           at == worker[w].opAt
           outcome == FinishOutcome(p)
           t == Lifted(Lifted(h, "QUALITY_PASSED", at), "USABLE", at)
           members == [r \in Resources |->
                         Lifted(Lifted(log[p][r], "QUALITY_PASSED", at), "USABLE", at)]
           inTime == \A r \in Resources : UsableAt(members[r]) < source[p].cutoff
<1>1. /\ worker[w].pc = "finish"
      /\ log' = IF outcome = "ok" THEN Rewrite(p, members) ELSE log
      /\ bundle' = IF outcome = "ok" /\ inTime THEN bundle \cup {p} ELSE bundle
      /\ issues' = IF outcome = "ok" /\ ~inTime
                   THEN [issues EXCEPT ![p] = @ \cup {"POST_CUTOFF"}] ELSE issues
      /\ Advance(w, outcome, "idle")
      /\ UNCHANGED source
  BY DEF FinishPair
<1>2. HistoryInvariant /\ PairInvariant /\ TypeOK /\ IssuesExplained
  BY DEF CanonicalInvariant, HistoryInvariant, PairInvariant
<1>3. /\ ~Diverged(p) /\ Requires(worker[w].pc, p, worker[w].bodies)
      /\ Stored(p) /\ Climbing(h) /\ at \in 0..MaxInstant
      /\ \A r \in Resources : log[p][r] = h
      /\ Below(p, "PROMOTED") <=> Rank(LastGood(h)) < Rank("PROMOTED")
      /\ LiftAccepted(p, "QUALITY_PASSED") <=>
           Reached(h, "QUALITY_PASSED") \/ Accepts(h, "QUALITY_PASSED")
  BY <1>1, <1>2, Found
<1>4. (\A s : log' = Rewrite(p, [r \in Resources |-> s]) => Moves(p, s))
      /\ (Moves(p, h) => UNCHANGED log)
  BY <1>1, <1>2, Found
<1>5. ~Manual(p) /\ At(p, 6)
  BY <1>1, <1>3 DEF Requires
<1>6. Rank(LastGood(h)) \in Int
  BY <1>3, TopFacts, RankFacts DEF Climbing
<1>7. ~Ended(h) => LastGood(h) = "PROMOTED"
  BY <1>3, <1>5, OpenPair DEF At, Rank
<1>8. outcome = "ok" => Rank(LastGood(h)) >= Rank("PROMOTED")
  BY <1>3, <1>6 DEF FinishOutcome, Rank
<1>9. ASSUME outcome = "abort", ~Ended(h) PROVE FALSE
  <2>1. LastGood(h) = "PROMOTED" /\ ~Below(p, "PROMOTED")
    BY <1>3, <1>7, <1>9 DEF Rank
  <2>2. PlanHolds(p)
    BY <1>3, <2>1, MappedHasPlan
  <2>3. GuardAllows(h, "QUALITY_PASSED")
    BY <1>9, <2>1 DEF GuardAllows, Ended, Successor
  <2>4. LiftAccepted(p, "QUALITY_PASSED")
    BY <1>3, <2>3 DEF Accepts
  <2>5. "QUARANTINE" \notin issues[p]
    BY <1>2, <1>3, <1>9, OpenFacts DEF IssuesExplained, Terminal
  <2> QED
    BY <1>3, <1>9, <2>1, <2>2, <2>4, <2>5 DEF FinishOutcome
<1>10. WorkerKnows(w)' /\ (worker'[w] = Idle => outcome \in {"abort", "ok"})
  BY <1>1, <1>2, AdvanceKnows DEF PCs
<1> HIDE DEF outcome
<1>11. CASE outcome # "ok"
  <2>1. UNCHANGED <<log, issues, bundle>>
    BY <1>1, <1>11
  <2>2. worker'[w] = Idle => Ended(h)
    BY <1>9, <1>10, <1>11
  <2> QED
    BY <1>10, <2>1, <2>2 DEF Sound, Effect, History
<1>12. CASE outcome = "ok"
  <2>1. members = [r \in Resources |-> t]
    BY <1>3
  <2>2. Moves(p, t)
    BY <1>1, <1>4, <1>12, <2>1
  <2>3. inTime <=> UsableAt(t) < source[p].cutoff
    BY <2>1 DEF Resources
  <2>4. CASE Ended(h)
    <3>1. HasStage(h, "USABLE") /\ t = h
      BY <1>3, <1>8, <1>12, <2>4, FinishedAgain
    <3>2. UNCHANGED log
      BY <1>4, <2>2, <3>1
    <3>3. inTime <=> UsableBy(h, source[p].cutoff)
      BY <1>3, <2>3, <3>1, UsableAtFacts
    <3>4. /\ inTime => p \in bundle
          /\ ~inTime => "POST_CUTOFF" \in issues[p]
      BY <1>2, <3>1, <3>3 DEF IssuesExplained
    <3> HIDE DEF inTime
    <3>5. UNCHANGED bundle
      BY <1>1, <3>4
    <3>6. UNCHANGED issues
      BY <1>1, <1>2, <3>4 DEF TypeOK
    <3> QED
      BY <1>10, <2>4, <3>2, <3>5, <3>6 DEF Sound, Effect, History
  <2>5. CASE ~Ended(h)
    <3>1. /\ Climbing(t) /\ Ended(t) /\ LastGood(t) = "USABLE"
          /\ \A x : HasStage(t, x) <=> HasStage(h, x) \/ x \in {"QUALITY_PASSED", "USABLE"}
      BY <1>2, <1>3, <1>7, <2>5, FinishRises
    <3>2. inTime <=> UsableBy(t, source[p].cutoff)
      BY <2>3, <3>1, UsableAtFacts
    <3>3. Becomes(p, t, {"QUALITY_PASSED", "USABLE"}, "USABLE")
      BY <2>2, <2>5, <3>1 DEF Becomes, Terminal
    <3> HIDE DEF t, inTime
    <3>4. Finishing(p, t)
      BY <1>1, <1>5, <1>7, <1>12, <2>5, <3>2, <3>3 DEF Finishing
    <3>5. Ended(History(p))'
      BY <1>2, <2>2, <3>1, MovesFacts
    <3> QED
      BY <1>10, <3>3, <3>4, <3>5 DEF Sound, Effect
  <2> QED
    BY <2>4, <2>5
<1> QED
  BY <1>11, <1>12

(* QuarantinePair.                                                         *)
LEMMA QuarantinePairSound ==
  ASSUME CanonicalInvariant, NEW w \in Workers, NEW p \in Pairs, worker[w].pair = p, QuarantinePair(w)
  PROVE  /\ Sound(w, p)
         /\ UNCHANGED log \/ \E t : Becomes(p, t, {"QUARANTINED"}, "QUARANTINED")
<1> DEFINE h == History(p)
           at == worker[w].opAt
           outcome == QuarantineOutcome(p)
           writes == outcome = "ok" /\ \E r \in Resources : ~Settled(log[p][r])
           t == Recording(h, "QUARANTINED", at)
           members == [r \in Resources |->
                         IF Settled(log[p][r]) THEN log[p][r]
                         ELSE Recording(log[p][r], "QUARANTINED", at)]
<1>1. /\ worker[w].pc = "quarantine"
      /\ log' = IF writes THEN Rewrite(p, members) ELSE log
      /\ issues' = IF writes THEN [issues EXCEPT ![p] = @ \cup {"QUARANTINE"}] ELSE issues
      /\ Advance(w, outcome, "idle")
      /\ UNCHANGED <<source, bundle>>
  BY DEF QuarantinePair
<1>2. HistoryInvariant /\ PairInvariant /\ TypeOK /\ IssuesExplained
  BY DEF CanonicalInvariant, HistoryInvariant, PairInvariant
<1>3. /\ Climbing(h) /\ at \in 0..MaxInstant /\ \A r \in Resources : log[p][r] = h
      /\ \A s : log' = Rewrite(p, [r \in Resources |-> s]) => Moves(p, s)
  BY <1>1, <1>2, Found
<1>4. WorkerKnows(w)' /\ (worker'[w] = Idle => outcome \in {"abort", "ok"})
  BY <1>1, <1>2, AdvanceKnows DEF PCs
<1>5. /\ Accepts(h, "QUARANTINED") <=> ~Ended(h) \/ Recorded(h, "QUARANTINED")
      /\ ~Ended(h) => Rise(h, "QUARANTINED", t)
  BY <1>2, <1>3, EscapeRises DEF Escapes
<1>6. Settled(h) => Ended(h)
  BY <1>3 DEF Settled, Ended, Current, Terminal, Climbing
<1>7. Recorded(h, "QUARANTINED") => Settled(h)
  BY <1>3, EndedFacts DEF Recorded, Settled, Terminal, Ended, HasStage
<1>8. ~Ended(h) => p \notin bundle
  BY <1>2, <1>3, OpenFacts, NotUsable DEF IssuesExplained, Terminal
<1>9. writes <=> ~Ended(h)
  BY <1>3, <1>5, <1>6, <1>7, <1>8 DEF QuarantineOutcome, Resources
<1> HIDE DEF outcome, writes
<1>10. CASE Ended(h)
  BY <1>1, <1>4, <1>9, <1>10 DEF Sound, Effect, History
<1>11. CASE ~Ended(h)
  <2>1. members = [r \in Resources |-> t]
    BY <1>3, <1>6, <1>11
  <2>2. Moves(p, t)
    BY <1>1, <1>3, <1>9, <1>11, <2>1
  <2>3. Rise(h, "QUARANTINED", t)
    BY <1>5, <1>11
  <2> HIDE DEF t
  <2>4. Becomes(p, t, {"QUARANTINED"}, "QUARANTINED")
    BY <1>11, <2>2, <2>3 DEF Becomes, Rise, Terminal
  <2>5. Quarantining(p, t)
    BY <1>1, <1>9, <1>11, <2>4 DEF Quarantining
  <2>6. Ended(History(p))'
    BY <1>2, <2>2, <2>4, MovesFacts DEF Becomes, Terminal
  <2> QED
    BY <1>4, <2>4, <2>5, <2>6 DEF Sound, Effect
<1> QED
  BY <1>10, <1>11

(* RecordRetryableFailure.                                                 *)
LEMMA RecordRetryableFailureSound ==
  ASSUME CanonicalInvariant, NEW w \in Workers, NEW p \in Pairs, worker[w].pair = p,
         RecordRetryableFailure(w)
  PROVE  /\ Sound(w, p)
         /\ \/ UNCHANGED log
            \/ \E t : Becomes(p, t, {"FAILED_RETRYABLE"}, LastGood(History(p)))
<1> DEFINE h == History(p)
           at == worker[w].opAt
           allowed == /\ ~Diverged(p)
                      /\ \A r \in Resources : GuardAllows(log[p][r], "FAILED_RETRYABLE")
           t == Recording(h, "FAILED_RETRYABLE", at)
           members == [r \in Resources |-> Recording(log[p][r], "FAILED_RETRYABLE", at)]
<1>1. /\ worker[w].pc = "failed"
      /\ log' = IF allowed THEN Rewrite(p, members) ELSE log
      /\ Advance(w, "ok", "idle")
      /\ UNCHANGED <<source, issues, bundle>>
  BY DEF RecordRetryableFailure
<1>2. HistoryInvariant /\ PairInvariant /\ TypeOK
  BY DEF CanonicalInvariant, HistoryInvariant, PairInvariant
<1>3. /\ Climbing(h) /\ at \in 0..MaxInstant /\ \A r \in Resources : log[p][r] = h
      /\ ~Diverged(p)
      /\ \A s : log' = Rewrite(p, [r \in Resources |-> s]) => Moves(p, s)
  BY <1>1, <1>2, Found
<1>4. WorkerKnows(w)'
  BY <1>1, <1>2, AdvanceKnows DEF PCs
<1>5. /\ GuardAllows(h, "FAILED_RETRYABLE") <=> ~Ended(h)
      /\ ~Ended(h) => Rise(h, "FAILED_RETRYABLE", t)
  BY <1>2, <1>3, EscapeRises DEF Escapes
<1>6. allowed <=> ~Ended(h)
  BY <1>3, <1>5 DEF Resources
<1> HIDE DEF allowed
<1>7. CASE Ended(h)
  BY <1>1, <1>4, <1>6, <1>7 DEF Sound, Effect
<1>8. CASE ~Ended(h)
  <2>1. members = [r \in Resources |-> t]
    BY <1>3
  <2>2. Moves(p, t)
    BY <1>1, <1>3, <1>6, <1>8, <2>1
  <2>3. Rise(h, "FAILED_RETRYABLE", t)
    BY <1>5, <1>8
  <2> HIDE DEF t
  <2>4. ~(LastGood(h) \in Terminal)
    BY <1>3, <1>8, OpenFacts DEF Terminal, Escapes
  <2>5. Becomes(p, t, {"FAILED_RETRYABLE"}, LastGood(h))
    BY <1>8, <2>2, <2>3, <2>4 DEF Becomes, Rise, Terminal
  <2>6. Failing(p, t)
    BY <1>1, <2>5 DEF Failing
  <2> QED
    BY <1>1, <1>4, <2>5, <2>6 DEF Sound, Effect
<1> QED
  BY <1>7, <1>8

(* A manual pair is parsed, validated and rejected in one transaction.     *)
LEMMA RejectionRises ==
  ASSUME TypeOK, NEW s, Climbing(s), NEW at \in 0..MaxInstant,
         ~Ended(s), LastGood(s) = "RAW_DISCARDED"
  PROVE  LET t == Recording(Lifted(Lifted(s, "PARSED", at), "VALIDATED", at), "REJECTED", at) IN
           /\ Climbing(t) /\ Ended(t) /\ LastGood(t) = "REJECTED"
           /\ \A x : HasStage(t, x) <=> HasStage(s, x) \/ x \in {"PARSED", "VALIDATED", "REJECTED"}
<1> DEFINE u == Lifted(s, "PARSED", at)
           v == Lifted(u, "VALIDATED", at)
           t == Recording(v, "REJECTED", at)
<1>1. /\ {"PARSED", "VALIDATED"} \subseteq Stages \ Escapes
      /\ Rank("RAW_DISCARDED") < Rank("PARSED")
      /\ Rank("PARSED") < Rank("VALIDATED")
  BY DEF Stages, Escapes, Rank
<1>2. GuardAllows(s, "PARSED")
  BY DEF GuardAllows, Ended, Successor
<1>3. Rise(s, "PARSED", u)
  BY <1>1, <1>2, LiftedRises DEF Accepts
<1> HIDE DEF u
<1>4. Climbing(u) /\ ~Ended(u) /\ LastGood(u) = "PARSED"
  BY <1>3 DEF Rise, Terminal
<1>5. GuardAllows(u, "VALIDATED")
  BY <1>4 DEF GuardAllows, Ended, Successor
<1>6. Rise(u, "VALIDATED", v)
  BY <1>1, <1>4, <1>5, LiftedRises DEF Accepts
<1> HIDE DEF v
<1>7. Climbing(v) /\ ~Ended(v)
  BY <1>6 DEF Rise, Terminal
<1>8. Rise(v, "REJECTED", t)
  BY <1>7, EscapeRises DEF Escapes
<1> HIDE DEF t
<1>9. /\ Climbing(t) /\ Ended(t) /\ LastGood(t) = "REJECTED"
      /\ \A x : HasStage(t, x) <=> HasStage(s, x) \/ x \in {"PARSED", "VALIDATED", "REJECTED"}
  BY <1>3, <1>6, <1>8 DEF Rise, Terminal
<1> QED
  BY <1>9 DEF t, v, u

(* ValidateManual.                                                         *)
LEMMA ValidateManualSound ==
  ASSUME CanonicalInvariant, NEW w \in Workers, NEW p \in Pairs, worker[w].pair = p, ValidateManual(w)
  PROVE  /\ Sound(w, p)
         /\ UNCHANGED log \/ \E t : Becomes(p, t, {"PARSED", "VALIDATED", "REJECTED"}, "REJECTED")
<1> DEFINE h == History(p)
           at == worker[w].opAt
           already == \A r \in Resources : Current(log[p][r]) = "REJECTED"
           outcome == IF already \/ ManualAccepted(p) THEN "ok" ELSE "abort"
           t == Recording(Lifted(Lifted(h, "PARSED", at), "VALIDATED", at), "REJECTED", at)
           members == [r \in Resources |->
                         Recording(Lifted(Lifted(log[p][r], "PARSED", at), "VALIDATED", at),
                                   "REJECTED", at)]
<1>1. /\ worker[w].pc = "manual"
      /\ log' = IF ~already /\ ManualAccepted(p) THEN Rewrite(p, members) ELSE log
      /\ Advance(w, outcome, "idle")
      /\ UNCHANGED <<source, issues, bundle>>
  BY DEF ValidateManual
<1>2. HistoryInvariant /\ PairInvariant /\ TypeOK
  BY DEF CanonicalInvariant, HistoryInvariant, PairInvariant
<1>3. /\ Climbing(h) /\ Stored(p) /\ at \in 0..MaxInstant
      /\ \A r \in Resources : log[p][r] = h
      /\ Requires(worker[w].pc, p, worker[w].bodies)
      /\ LiftAccepted(p, "PARSED") <=> Reached(h, "PARSED") \/ Accepts(h, "PARSED")
      /\ \A s : log' = Rewrite(p, [r \in Resources |-> s]) => Moves(p, s)
  BY <1>1, <1>2, Found
<1>4. Manual(p)
  BY <1>1, <1>3 DEF Requires
<1>5. WorkerKnows(w)'
  BY <1>1, <1>2, AdvanceKnows DEF PCs
<1>6. already <=> Current(h) = "REJECTED"
  BY <1>3 DEF Resources
<1>7. ManualAccepted(p) <=> LiftAccepted(p, "PARSED")
  BY <1>3 DEF ManualAccepted, Resources
<1>8. CASE Ended(h)
  <2>1. /\ LastGood(h) = Current(h) /\ Current(h) \in Terminal
        /\ \A stage \in Terminal : HasStage(h, stage) <=> stage = Current(h)
    BY <1>3, <1>8, EndedFacts
  <2>2. Current(h) \in {"QUARANTINED", "REJECTED", "FAILED_PERMANENT"}
    BY <1>3, <1>4, <2>1 DEF Stored, Terminal
  <2>3. ~Reached(h, "PARSED") /\ ~GuardAllows(h, "PARSED")
    BY <1>8, <2>2 DEF Reached, Rank, GuardAllows, Ended
  <2>4. Recorded(h, "PARSED") => Current(h) = "REJECTED"
    BY <1>3, <1>4, <2>1 DEF Recorded, Stored, Terminal
  <2>5. already \/ ~ManualAccepted(p)
    BY <1>3, <1>6, <1>7, <2>3, <2>4 DEF Accepts
  <2>6. UNCHANGED log
    BY <1>1, <2>5
  <2> QED
    BY <1>1, <1>5, <1>8, <2>6 DEF Sound, Effect, History
<1>9. CASE ~Ended(h)
  <2>1. LastGood(h) = "RAW_DISCARDED"
    BY <1>3, <1>4, <1>9, OpenPair
  <2>2. GuardAllows(h, "PARSED")
    BY <1>9, <2>1 DEF GuardAllows, Ended, Successor
  <2>3. ~already /\ ManualAccepted(p)
    <3>1. Current(h) # "REJECTED"
      BY <1>3, <1>9 DEF Current, Ended, Terminal, Climbing
    <3> QED
      BY <1>3, <1>6, <1>7, <2>2, <3>1 DEF Accepts
  <2>4. members = [r \in Resources |-> t]
    BY <1>3
  <2>5. Moves(p, t)
    BY <1>1, <1>3, <2>3, <2>4
  <2>6. /\ Climbing(t) /\ Ended(t) /\ LastGood(t) = "REJECTED"
        /\ \A x : HasStage(t, x) <=> HasStage(h, x) \/ x \in {"PARSED", "VALIDATED", "REJECTED"}
    BY <1>2, <1>3, <1>9, <2>1, RejectionRises
  <2> HIDE DEF t
  <2>7. Becomes(p, t, {"PARSED", "VALIDATED", "REJECTED"}, "REJECTED")
    BY <1>9, <2>5, <2>6 DEF Becomes, Terminal
  <2>8. Rejecting(p, t)
    BY <1>1, <1>4, <2>1, <2>7 DEF Rejecting
  <2>9. Ended(History(p))'
    BY <1>2, <2>5, <2>6, MovesFacts
  <2> QED
    BY <1>5, <2>7, <2>8, <2>9 DEF Sound, Effect
<1> QED
  BY <1>8, <1>9

(* RecordPermanentFailure.                                                 *)
LEMMA RecordPermanentFailureSound ==
  ASSUME CanonicalInvariant, NEW w \in Workers, NEW p \in Pairs, worker[w].pair = p,
         RecordPermanentFailure(w)
  PROVE  /\ Sound(w, p)
         /\ UNCHANGED log \/ \E t : Becomes(p, t, {"FAILED_PERMANENT"}, "FAILED_PERMANENT")
<1> DEFINE h == History(p)
           at == worker[w].opAt
           Skipped(s) == Current(s) \in {"REJECTED", "FAILED_PERMANENT"}
           allowed == \A r \in Resources :
                        Skipped(log[p][r]) \/ Accepts(log[p][r], "FAILED_PERMANENT")
           t == Recording(h, "FAILED_PERMANENT", at)
           members == [r \in Resources |->
                         IF Skipped(log[p][r]) THEN log[p][r]
                         ELSE Recording(log[p][r], "FAILED_PERMANENT", at)]
<1>1. /\ worker[w].pc = "exhausted"
      /\ log' = IF allowed THEN Rewrite(p, members) ELSE log
      /\ Advance(w, "ok", "idle")
      /\ UNCHANGED <<source, issues, bundle>>
  BY DEF RecordPermanentFailure
<1>2. HistoryInvariant /\ PairInvariant /\ TypeOK
  BY DEF CanonicalInvariant, HistoryInvariant, PairInvariant
<1>3. /\ Climbing(h) /\ Stored(p) /\ at \in 0..MaxInstant
      /\ \A r \in Resources : log[p][r] = h
      /\ Requires(worker[w].pc, p, worker[w].bodies)
      /\ \A s : log' = Rewrite(p, [r \in Resources |-> s]) => Moves(p, s)
      /\ Moves(p, h) => UNCHANGED log
  BY <1>1, <1>2, Found
<1>4. Manual(p)
  BY <1>1, <1>3 DEF Requires
<1>5. WorkerKnows(w)'
  BY <1>1, <1>2, AdvanceKnows DEF PCs
<1>6. /\ Accepts(h, "FAILED_PERMANENT") <=> ~Ended(h) \/ Recorded(h, "FAILED_PERMANENT")
      /\ ~Ended(h) => Rise(h, "FAILED_PERMANENT", t)
  BY <1>2, <1>3, EscapeRises DEF Escapes
<1>7. CASE Ended(h)
  <2>1. \A stage \in Terminal : HasStage(h, stage) <=> stage = Current(h)
    BY <1>3, <1>7, EndedFacts
  <2>2. Recorded(h, "FAILED_PERMANENT") => Skipped(h)
    BY <2>1 DEF Recorded, Terminal
  <2>3. allowed => Skipped(h)
    BY <1>3, <1>6, <1>7, <2>2 DEF Resources
  <2>4. Skipped(h) => members = [r \in Resources |-> h]
    BY <1>3
  <2>5. UNCHANGED log
    BY <1>1, <1>3, <2>3, <2>4
  <2> QED
    BY <1>1, <1>5, <1>7, <2>5 DEF Sound, Effect, History
<1>8. CASE ~Ended(h)
  <2>1. LastGood(h) = "RAW_DISCARDED"
    BY <1>3, <1>4, <1>8, OpenPair
  <2>2. ~Skipped(h)
    BY <1>3, <1>8 DEF Current, Ended, Terminal, Climbing
  <2>3. allowed
    BY <1>3, <1>6, <1>8
  <2>4. members = [r \in Resources |-> t]
    BY <1>3, <2>2
  <2>5. Moves(p, t)
    BY <1>1, <1>3, <2>3, <2>4
  <2>6. Rise(h, "FAILED_PERMANENT", t)
    BY <1>6, <1>8
  <2> HIDE DEF t
  <2>7. Becomes(p, t, {"FAILED_PERMANENT"}, "FAILED_PERMANENT")
    BY <1>8, <2>5, <2>6 DEF Becomes, Rise, Terminal
  <2>8. Rejecting(p, t)
    BY <1>1, <1>4, <2>1, <2>7 DEF Rejecting
  <2>9. Ended(History(p))'
    BY <1>2, <2>5, <2>7, MovesFacts DEF Becomes, Terminal
  <2> QED
    BY <1>5, <2>7, <2>8, <2>9 DEF Sound, Effect
<1> QED
  BY <1>7, <1>8

(* The first two events of a pair.                                         *)
LEMMA FirstClimbs ==
  ASSUME TypeOK, NEW p \in Pairs, NEW stage \in {"STORED", "RAW_DISCARDED"},
         NEW opAt \in 0..MaxInstant, source[p].captured <= opAt
  PROVE  LET t == FirstEvents(p, stage, opAt) IN
           /\ Climbing(t) /\ ~Ended(t) /\ LastGood(t) = stage
           /\ \A x : HasStage(t, x) <=> x \in {"RECEIVED", stage}
<1> DEFINE e == [stage |-> "RECEIVED", at |-> source[p].captured, seen |-> clock]
           s == <<e>>
<1>1. source[p].captured \in 0..MaxInstant /\ clock \in 0..MaxClock
  BY SourceType DEF TypeOK
<1>2. e \in Events /\ e.stage = "RECEIVED" /\ e.at = source[p].captured
  BY <1>1 DEF Events, Stages
<1>3. FirstEvents(p, stage, opAt) = Append(s, NewEvent(s, stage, opAt))
  BY <1>1 DEF FirstEvents, NewEvent, Later
<1> HIDE DEF e
<1>4. s \in Seq(Events) /\ s # <<>> /\ Len(s) = 1 /\ DOMAIN s = {1} /\ s[1] = e
  BY <1>2
<1> HIDE DEF s
<1>5. \A x : HasStage(s, x) <=> x = "RECEIVED"
  BY <1>2, <1>4 DEF HasStage
<1>6. 1 \in Good(s) /\ \A j \in Good(s) : j <= 1
  BY <1>2, <1>4 DEF Good
<1>7. HasTop(s) /\ LastGood(s) = "RECEIVED"
  BY <1>2, <1>4, <1>6, TopIs
<1>8. LegalEvents(s)
  BY <1>2, <1>4 DEF LegalEvents, Terminal
<1>9. TopIsHighest(s)
  BY <1>2, <1>4, <1>7 DEF TopIsHighest, Rank
<1>10. Closed(s)
  BY <1>5 DEF Closed, Rungs
<1>11. Climbing(s) /\ ~Ended(s)
  BY <1>2, <1>4, <1>7, <1>8, <1>9, <1>10 DEF Climbing, Ended, Terminal
<1>12. GuardAllows(s, stage) /\ ~Recorded(s, stage)
  BY <1>5, <1>7, <1>11 DEF GuardAllows, Recorded, Ended, Successor
<1>13. Rise(s, stage, Append(s, NewEvent(s, stage, opAt)))
  BY <1>11, <1>12, AppendClimbs DEF Stages
<1> QED
  BY <1>3, <1>5, <1>13 DEF Rise, Terminal

(* CreateEnvelopes stores a pair nobody else holds.                        *)
Storing(p, t) ==
  /\ ~Started(p) /\ Moves(p, t)
  /\ Climbing(t) /\ ~Ended(t)
  /\ LastGood(t) = IF Manual(p) THEN "RAW_DISCARDED" ELSE "STORED"
  /\ \A x : HasStage(t, x) <=> x \in {"RECEIVED", LastGood(t)}
  /\ UNCHANGED <<issues, bundle>>

(* CreateEnvelopes.  It is reached only by the importer of a pair that is  *)
(* not stored yet, and its worker goes on.                                 *)
LEMMA CreateEnvelopesSound ==
  ASSUME HistoryInvariant, NEW w \in Workers, CreateEnvelopes(w)
  PROVE  /\ worker[w].pair \in Pairs
         /\ WorkerKnows(w)' /\ worker'[w] # Idle
         /\ \E t : Storing(worker[w].pair, t)
<1>1. PairInvariant /\ TypeOK /\ WorkerKnows(w) /\ worker[w].pc = "envelope"
  BY DEF HistoryInvariant, PairInvariant, WorkersKnow, CreateEnvelopes
<1>2. worker[w] \in Memories /\ worker \in [Workers -> Memories]
  BY <1>1 DEF TypeOK
<1>3. PICK p \in Pairs : p = worker[w].pair /\ \A r \in Resources : log[p][r] = <<>>
  BY <1>1 DEF PairInvariant, WorkersHoldPairs, WorkerHoldsPair, Idle
<1> DEFINE first == IF Manual(p) THEN "RAW_DISCARDED" ELSE "STORED"
           t == FirstEvents(p, first, worker[w].opAt)
           outcome == IF Manual(p) /\ source[p].body # "valid" THEN "quarantine" ELSE "ok"
           next == IF Manual(p) THEN "manual" ELSE "parse"
           m == [worker[w] EXCEPT !.pc = IF outcome = "ok" THEN next ELSE "quarantine"]
<1>4. /\ log' = [log EXCEPT ![p] = [r \in Resources |-> t]]
      /\ worker' = [worker EXCEPT ![w] = m]
      /\ UNCHANGED <<source, issues, bundle>>
  BY <1>3 DEF CreateEnvelopes, Advance
<1>5. worker[w].opAt \in 0..MaxInstant /\ source[p].captured <= worker[w].opAt /\ worker[w].bodies
  BY <1>1, <1>2, <1>3 DEF Memories, WorkerKnows, Requires
<1>6. first \in {"STORED", "RAW_DISCARDED"}
  OBVIOUS
<1>7. /\ Climbing(t) /\ ~Ended(t) /\ LastGood(t) = first
      /\ \A x : HasStage(t, x) <=> x \in {"RECEIVED", first}
  BY <1>1, <1>5, <1>6, FirstClimbs
<1>8. /\ m.pair = p /\ m.opAt = worker[w].opAt /\ m.bodies
      /\ \/ m.pc = "manual" /\ Manual(p)
         \/ m.pc = "parse" /\ ~Manual(p)
         \/ m.pc = "quarantine"
  BY <1>2, <1>3, <1>5 DEF Memories
<1> HIDE DEF m, t
<1>9. worker'[w] = m
  BY <1>2, <1>4
<1>10. ~Started(p)
  BY <1>3 DEF Started, Resources
<1>11. Storing(p, t)
  BY <1>4, <1>7, <1>10 DEF Storing, Moves
<1>12. Manual(p)' <=> Manual(p)
  BY <1>4 DEF Manual
<1>13. Requires(worker[w].pc, p, worker[w].bodies)'
  BY <1>8, <1>9, <1>12 DEF Requires
<1>14. WorkerKnows(w)' /\ worker'[w] # Idle
  BY <1>4, <1>5, <1>8, <1>9, <1>13 DEF WorkerKnows, Idle
<1> QED
  BY <1>3, <1>11, <1>14

(* A pair that is stored joins the others.                                 *)
LEMMA StoringKeeps ==
  ASSUME HistoryInvariant, NEW p \in Pairs, NEW t, Storing(p, t), UNCHANGED source
  PROVE  PairsStored' /\ IssuesExplained' /\ RanksKept
<1>1. PairInvariant /\ PairsStored /\ IssuesExplained
  BY DEF HistoryInvariant
<1>2. History(p)' = t /\ \A q \in Pairs \ {p} : History(q)' = History(q) /\ Started(q)' = Started(q)
  BY <1>1, MovesFacts DEF Storing
<1>3. RanksKept
  BY <1>2 DEF RanksKept, Storing, At
<1>4. PairsStored'
  <2> SUFFICES ASSUME NEW q \in Pairs, Started(q)' PROVE Stored(q)'
    BY DEF PairsStored
  <2>1. Manual(q)' <=> Manual(q)
    BY DEF Manual
  <2>2. CASE q = p
    BY <1>2, <2>1, <2>2 DEF Stored, Storing
  <2>3. CASE q # p
    BY <1>1, <1>2, <2>1, <2>3 DEF Stored, PairsStored
  <2> QED
    BY <2>2, <2>3
<1>5. IssuesExplained'
  <2> SUFFICES ASSUME NEW q \in Pairs
               PROVE  /\ "QUARANTINE" \in issues'[q] <=> HasStage(History(q)', "QUARANTINED")
                      /\ q \in bundle' <=> UsableBy(History(q)', source[q].cutoff)
                      /\ "POST_CUTOFF" \in issues'[q] <=>
                           HasStage(History(q)', "USABLE") /\ q \notin bundle'
    BY DEF IssuesExplained, HasStage, UsableBy
  <2>1. UNCHANGED <<issues, bundle>>
    BY DEF Storing
  <2>2. CASE q = p
    <3>1. History(p) = <<>>
      BY <1>1, Members DEF Storing
    <3>2. ~HasStage(History(p), "QUARANTINED") /\ ~HasStage(History(p), "USABLE")
      BY <3>1 DEF HasStage
    <3>3. ~HasStage(t, "QUARANTINED") /\ ~HasStage(t, "USABLE")
      BY DEF Storing
    <3> QED
      BY <1>1, <1>2, <2>1, <2>2, <3>2, <3>3, NotUsable DEF IssuesExplained
  <2>3. CASE q # p
    BY <1>1, <1>2, <2>1, <2>3 DEF IssuesExplained
  <2> QED
    BY <2>2, <2>3
<1> QED
  BY <1>3, <1>4, <1>5

-----------------------------------------------------------------------------
(* Every step.                                                             *)

(* A transaction of worker w.                                              *)
Commits(w) ==
  /\ worker' = [worker EXCEPT ![w] = worker'[w]]
  /\ UNCHANGED source /\ UNCHANGED faults
  /\ \E p \in Pairs :
       /\ worker[w].pair = p
       /\ \/ Started(p) /\ Sound(w, p)
          \/ WorkerKnows(w)' /\ worker'[w] # Idle /\ \E t : Storing(p, t)

(* Whatever transaction it is.                                             *)
LEMMA StepCommits ==
  ASSUME CanonicalInvariant, NEW w \in Workers, Step(w)
  PROVE  Commits(w)
<1>1. HistoryInvariant /\ PairInvariant /\ worker \in [Workers -> Memories]
  BY DEF CanonicalInvariant, HistoryInvariant, PairInvariant, TypeOK
<1>2. /\ worker' = [worker EXCEPT ![w] = worker'[w]]
      /\ UNCHANGED source /\ UNCHANGED faults
  <2>1. ASSUME NEW outcome, NEW next, Advance(w, outcome, next)
        PROVE  worker' = [worker EXCEPT ![w] = worker'[w]]
    BY <1>1, <2>1 DEF Advance
  <2> QED
    BY <2>1 DEF Step, CreateEnvelopes, ParsePair, ValidatePair, MapPair, PromotePair, FinishPair,
       QuarantinePair, RecordRetryableFailure, ValidateManual, RecordPermanentFailure
<1>3. CASE CreateEnvelopes(w)
  BY <1>1, <1>2, <1>3, CreateEnvelopesSound DEF Commits
<1>4. CASE ~CreateEnvelopes(w)
  <2>1. worker[w].pc \notin {"idle", "envelope"}
    BY <1>4 DEF Step, ParsePair, ValidatePair, MapPair, PromotePair, FinishPair,
       QuarantinePair, RecordRetryableFailure, ValidateManual, RecordPermanentFailure
  <2>2. PICK p \in Pairs : worker[w].pair = p /\ Started(p)
    BY <1>1, <2>1, HeldPair
  <2>3. Sound(w, p)
    BY <1>1, <1>4, <2>2, ParsePairSound, ValidatePairSound, MapPairSound, PromotePairSound,
       FinishPairSound, QuarantinePairSound, RecordRetryableFailureSound, ValidateManualSound,
       RecordPermanentFailureSound DEF Step
  <2> QED
    BY <1>2, <2>2, <2>3 DEF Commits
<1> QED
  BY <1>3, <1>4

(* A step that commits nothing: a call that begins, fails or dies, time.   *)
Quiet == UNCHANGED <<source, log, issues, bundle>>

(* A quiet step leaves every worker with what it must know, if it gives    *)
(* the worker it moves no memory that demands more.                        *)
LEMMA QuietKnows ==
  ASSUME HistoryInvariant, Quiet, NEW w \in Workers, NEW m \in Memories,
         worker' = [worker EXCEPT ![w] = m],
         m.pc # "idle" => source[m.pair].captured <= m.opAt,
         Requires(m.pc, m.pair, m.bodies)
  PROVE  WorkersKnow'
<1>1. PairInvariant /\ WorkersKnow
  BY DEF HistoryInvariant
<1>2. worker'[w] = m
  BY <1>1 DEF PairInvariant, TypeOK
<1>3. Requires(m.pc, m.pair, m.bodies)'
  BY DEF Requires, Manual, At, History, Quiet
<1>4. WorkerKnows(w)'
  BY <1>2, <1>3 DEF WorkerKnows, Requires, Manual, At, History, Quiet
<1>5. \A q \in Pairs, rank \in Nat : Started(q) /\ At(q, rank) => At(q, rank)'
  BY DEF At, History, Quiet
<1> QED
  BY <1>1, <1>4, <1>5, OthersKnow DEF Quiet

(* The operation time of a call is never before its pair was captured.     *)
LEMMA OperationAfterCapture ==
  ASSUME TypeOK, NEW p \in Pairs
  PROVE  source[p].captured <= OperationTime(p)
BY SourceType, BoundsAssumption DEF TypeOK, OperationTime, Later

(* BeginImport.                                                            *)
LEMMA BeginImportQuiet ==
  ASSUME HistoryInvariant, NEW w \in Workers, NEW p \in Pairs, BeginImport(w, p)
  PROVE  Quiet /\ WorkersKnow'
<1> DEFINE m == Memory("envelope", p, TRUE)
<1>1. /\ worker' = [worker EXCEPT ![w] = m]
      /\ Quiet
  BY DEF BeginImport, Quiet
<1>2. TypeOK
  BY DEF HistoryInvariant, PairInvariant
<1>3. m \in Memories
  BY <1>2, OperationTimeType DEF Memory, Memories, PCs, ManualAttempts
<1>4. /\ m.pc = "envelope" /\ m.pair = p /\ m.bodies /\ m.opAt = OperationTime(p)
  BY DEF Memory
<1> HIDE DEF m
<1>5. source[m.pair].captured <= m.opAt
  BY <1>2, <1>4, OperationAfterCapture
<1>6. Requires(m.pc, m.pair, m.bodies)
  BY <1>4 DEF Requires
<1> QED
  BY <1>1, <1>3, <1>5, <1>6, QuietKnows

(* BeginResume and ResumeFails: what the unlocked read of a resume saw of  *)
(* the rank of the pair is still true when its first transaction starts.   *)
LEMMA ResumptionQuiet ==
  ASSUME HistoryInvariant, NEW w \in Workers, NEW p \in Pairs, Resumable(p), Quiet,
         NEW pc \in {"parse", "failed"},
         worker' = [worker EXCEPT ![w] = Resumption(p, pc)]
  PROVE  WorkersKnow'
<1> DEFINE m == Resumption(p, pc)
<1>1. TypeOK /\ PairInvariant /\ PairsStored
  BY DEF HistoryInvariant, PairInvariant
<1>2. m \in Memories /\ Started(p)
  BY <1>1, ResumptionType DEF PCs
<1>3. m.pc = pc /\ m.pair = p /\ m.opAt = OperationTime(p) /\ m.bodies = Below(p, "PARSED")
  BY DEF Resumption, Memory
<1>4. ~Below(p, "PARSED") => At(p, 3)
  <2>1. Climbing(History(p))
    BY <1>1, <1>2 DEF PairsStored, Stored
  <2>2. Rank(LastGood(History(p))) \in Int
    BY <2>1, TopFacts, RankFacts DEF Climbing
  <2>3. Rank("PARSED") = 3
    BY DEF Rank
  <2> QED
    BY <2>2, <2>3 DEF Below, Effective, At, History
<1> HIDE DEF m
<1>5. source[m.pair].captured <= m.opAt
  BY <1>1, <1>3, OperationAfterCapture
<1>6. Requires(m.pc, m.pair, m.bodies)
  BY <1>3, <1>4 DEF Requires, Resumable
<1> QED
  BY <1>2, <1>5, <1>6, QuietKnows DEF m

(* TransactionFails: a manual pair is tried again or given up, any other   *)
(* call goes on to record the failure or returns.                          *)
LEMMA TransactionFailsQuiet ==
  ASSUME HistoryInvariant, NEW w \in Workers, TransactionFails(w)
  PROVE  Quiet /\ WorkersKnow'
<1> DEFINE m == worker[w]
           n == AfterFailure(m)
<1>1. PairInvariant /\ WorkerKnows(w) /\ m \in Memories /\ worker[w] # Idle
  BY DEF HistoryInvariant, PairInvariant, TypeOK, WorkersKnow, TransactionFails
<1>2. worker' = [worker EXCEPT ![w] = n] /\ Quiet
  BY DEF TransactionFails, Quiet
<1>3. n \in Memories
  BY <1>1, AfterFailureType
<1>4. \/ n = Idle
      \/ n.pair = m.pair /\ n.opAt = m.opAt /\ m.pc = "manual" /\ n.pc \in {"manual", "exhausted"}
      \/ n.pair = m.pair /\ n.opAt = m.opAt /\ n.pc = "failed"
  <2>1. \/ n = Idle
        \/ m.pc = "manual" /\ n = [m EXCEPT !.tries = @ + 1]
        \/ m.pc = "manual" /\ n = [m EXCEPT !.pc = "exhausted"]
        \/ n = [m EXCEPT !.pc = "failed"]
    BY DEF AfterFailure
  <2> HIDE DEF n
  <2> QED
    BY <1>1, <2>1 DEF Memories
<1> HIDE DEF n
<1>5. m.pc # "idle"
  BY <1>1 DEF PairInvariant, WorkersHoldPairs, WorkerHoldsPair, Idle
<1>6. n.pc # "idle" => source[n.pair].captured <= n.opAt
  BY <1>1, <1>4, <1>5 DEF WorkerKnows, Idle
<1>7. Requires(n.pc, n.pair, n.bodies)
  BY <1>1, <1>4 DEF WorkerKnows, Requires, Idle
<1> QED
  BY <1>2, <1>3, <1>6, <1>7, QuietKnows

(* Crash.                                                                  *)
LEMMA CrashQuiet ==
  ASSUME HistoryInvariant, NEW w \in Workers, Crash(w)
  PROVE  Quiet /\ WorkersKnow'
<1>1. worker' = [worker EXCEPT ![w] = Idle] /\ Quiet
  BY DEF Crash, Quiet
<1>2. Idle \in Memories
  BY BoundsAssumption DEF Idle, Memories, PCs, ManualAttempts
<1>3. Idle.pc = "idle" /\ Requires(Idle.pc, Idle.pair, Idle.bodies)
  BY DEF Idle, Requires
<1> QED
  BY <1>1, <1>2, <1>3, QuietKnows

(* Every step is a commit of one worker or quiet.                          *)
LEMMA EveryStep ==
  ASSUME CanonicalInvariant, [Next]_vars
  PROVE  \/ \E w \in Workers : Commits(w)
         \/ Quiet /\ WorkersKnow'
<1>1. HistoryInvariant
  BY DEF CanonicalInvariant
<1>2. ASSUME NEW w \in Workers, NEW p \in Pairs, BeginImport(w, p) \/ BeginResume(w, p) \/ ResumeFails(w, p)
      PROVE  Quiet /\ WorkersKnow'
  <2>1. CASE BeginImport(w, p)
    BY <1>1, <2>1, BeginImportQuiet
  <2>2. CASE BeginResume(w, p)
    BY <1>1, <2>2, ResumptionQuiet DEF BeginResume, Quiet
  <2>3. CASE ResumeFails(w, p)
    BY <1>1, <2>3, ResumptionQuiet DEF ResumeFails, Quiet
  <2> QED
    BY <1>2, <2>1, <2>2, <2>3
<1>3. ASSUME NEW w \in Workers, TransactionFails(w) \/ Crash(w)
      PROVE  Quiet /\ WorkersKnow'
  BY <1>1, <1>3, TransactionFailsQuiet, CrashQuiet
<1>4. CASE UNCHANGED <<source, log, worker, issues, bundle>>
  BY <1>1, <1>4 DEF HistoryInvariant, WorkersKnow, WorkerKnows, Requires, Manual, At, History, Quiet
<1>5. CASE Tick
  BY <1>4, <1>5 DEF Tick
<1>6. CASE UNCHANGED vars
  BY <1>4, <1>6 DEF vars
<1> QED
  BY <1>2, <1>3, <1>5, <1>6, StepCommits DEF Next

(* ... and keeps the invariant of the histories.                           *)
LEMMA HistoryKept ==
  ASSUME CanonicalInvariant, [Next]_vars
  PROVE  HistoryInvariant' /\ (\A q \in Pairs : Started(q) => Started(q)')
<1>1. HistoryInvariant /\ PairInvariant /\ PairsStored /\ IssuesExplained /\ WorkersKnow
  BY DEF CanonicalInvariant, HistoryInvariant
<1>2. PairInvariant' /\ EvidenceKept
  BY <1>1, StepKeeps
<1>3. \A q \in Pairs : Started(q) => Started(q)'
  BY <1>1, <1>2 DEF EvidenceKept, IsPrefixOf, Started, PairInvariant, TypeOK
<1>4. CASE Quiet /\ WorkersKnow'
  BY <1>1, <1>2, <1>3, <1>4, UnmovedKeeps DEF Quiet, HistoryInvariant
<1>5. ASSUME NEW w \in Workers, Commits(w) PROVE HistoryInvariant'
  <2>1. PICK p \in Pairs :
          /\ worker[w].pair = p
          /\ \/ Started(p) /\ Sound(w, p)
             \/ WorkerKnows(w)' /\ worker'[w] # Idle /\ \E t : Storing(p, t)
    BY <1>5 DEF Commits
  <2>2. UNCHANGED source /\ worker' = [worker EXCEPT ![w] = worker'[w]]
    BY <1>5 DEF Commits
  <2>3. PairsStored' /\ IssuesExplained' /\ RanksKept /\ WorkerKnows(w)'
    <3>1. CASE Started(p) /\ Sound(w, p)
      BY <1>1, <2>2, <3>1, EffectKeeps DEF Sound
    <3>2. CASE WorkerKnows(w)' /\ \E t : Storing(p, t)
      BY <1>1, <2>2, <3>2, StoringKeeps
    <3> QED
      BY <2>1, <3>1, <3>2
  <2>4. PICK m : m = worker'[w]
    OBVIOUS
  <2>5. WorkersKnow'
    BY <1>1, <2>2, <2>3, <2>4, OthersKnow DEF RanksKept
  <2> QED
    BY <1>2, <2>3, <2>5 DEF HistoryInvariant
<1> QED
  BY <1>3, <1>4, <1>5, EveryStep

-----------------------------------------------------------------------------
(* The canonical tables.                                                   *)

CanonicalStages == {"MAPPED", "PROMOTED"}

(* The canonical stages a step leaves as they are.                         *)
Untold(stage) == \A q \in Pairs : HasStage(History(q), stage)' <=> HasStage(History(q), stage)

(* A history that gains other stages.                                      *)
LEMMA StagesKept ==
  ASSUME PairInvariant, NEW p \in Pairs, NEW stages, NEW top,
         UNCHANGED log \/ \E t : Becomes(p, t, stages, top),
         NEW stage, stage \notin stages
  PROVE  Untold(stage)
<1> SUFFICES ASSUME NEW q \in Pairs
             PROVE  HasStage(History(q), stage)' <=> HasStage(History(q), stage)
  BY DEF Untold
<1>1. CASE UNCHANGED log
  BY <1>1 DEF History, HasStage
<1>2. ASSUME NEW t, Becomes(p, t, stages, top)
      PROVE  HasStage(History(q), stage)' <=> HasStage(History(q), stage)
  <2>1. History(q)' = IF q = p THEN t ELSE History(q)
    BY <1>2, MovesFacts DEF Becomes
  <2> QED
    BY <1>2, <2>1 DEF Becomes, HasStage
<1> QED
  BY <1>1, <1>2

(* The first events of a pair are no canonical ones.                       *)
LEMMA StoringTellsNothing ==
  ASSUME PairInvariant, NEW p \in Pairs, NEW t, Storing(p, t), NEW stage \in CanonicalStages
  PROVE  Untold(stage)
<1> SUFFICES ASSUME NEW q \in Pairs
             PROVE  HasStage(History(q), stage)' <=> HasStage(History(q), stage)
  BY DEF Untold
<1>1. History(q)' = IF q = p THEN t ELSE History(q)
  BY MovesFacts DEF Storing
<1>2. CASE q = p
  <2>1. ~HasStage(History(p), stage)
    BY Members DEF Storing, HasStage
  <2>2. ~HasStage(t, stage)
    BY DEF Storing, CanonicalStages
  <2> QED
    BY <1>1, <1>2, <2>1, <2>2 DEF HasStage
<1>3. CASE q # p
  BY <1>1, <1>3 DEF HasStage
<1> QED
  BY <1>2, <1>3

(* What depends on one stage only.                                         *)
LEMMA PlansUnmoved ==
  ASSUME PlansKept, Untold("MAPPED"), UNCHANGED <<source, reserved, plan>>
  PROVE  PlansKept'
BY DEF PlansKept, Untold, PlanHolds

(* The same for the assignment, which names a promoted pair.               *)
LEMMA FactUnmoved ==
  ASSUME PairInvariant, FactKept, Untold("PROMOTED"), UNCHANGED <<source, fact>>
  PROVE  FactKept'
<1>1. fact.by # NoPair => fact.by \in Pairs
  BY DEF PairInvariant, TypeOK
<1>2. FactFollowsPromoted'
  BY <1>1 DEF FactKept, FactFollowsPromoted, Untold
<1> QED
  BY <1>2 DEF FactKept

(* The same for the claims.                                                *)
LEMMA ClaimsUnmoved ==
  ASSUME ClaimsKept, Untold("PROMOTED"), UNCHANGED <<source, claims>>
  PROVE  ClaimsKept'
BY DEF ClaimsKept, Untold, Claim

(* A claim is added when none contradicts it.                              *)
LEMMA ClaimAdded ==
  ASSUME PairInvariant, ClaimsKept, NEW p \in Pairs, ~ClaimConflict(p),
         claims' = claims \cup {Claim(p)}, UNCHANGED source,
         \A q \in Pairs \ {p} : HasStage(History(q), "PROMOTED")' <=> HasStage(History(q), "PROMOTED")
  PROVE  ClaimsKept'
<1>1. \A c \in claims : c.at = Claim(p).at => c.reading = Claim(p).reading
  BY DEF ClaimConflict, Claim
<1>2. \A c, d \in claims' : c.at = d.at => c.reading = d.reading
  BY <1>1 DEF ClaimsKept
<1>3. \A q \in Pairs : Claim(q)' = Claim(q)
  BY DEF Claim
<1>4. \A q \in Pairs : HasStage(History(q), "PROMOTED")' => Claim(q)' \in claims'
  BY <1>3 DEF ClaimsKept
<1> QED
  BY <1>2, <1>4 DEF ClaimsKept

(* MapPair reserves its keys for one identity and takes none away.         *)
LEMMA MapPairPlans ==
  ASSUME CanonicalInvariant, EvidenceKept, PairInvariant',
         NEW w \in Workers, MapPair(w)
  PROVE  PlansKept'
<1>1. HistoryInvariant /\ PairInvariant /\ PlansKept /\ worker[w].pc = "map"
  BY DEF CanonicalInvariant, HistoryInvariant, MapPair
<1>2. PICK p \in Pairs : p = worker[w].pair
  BY <1>1, HeldPair
<1> DEFINE maps == MapOutcome(p) = "ok" /\ Below(p, "MAPPED")
<1>3. /\ log' = IF maps THEN Rewrite(p, [r \in Resources |-> Lifted(log[p][r], "MAPPED", worker[w].opAt)])
                ELSE log
      /\ reserved' = IF maps THEN [k \in Keys |-> IF k \in source[p].keys
                                                  THEN Identity(p) ELSE reserved[k]]
                     ELSE reserved
      /\ plan' = IF maps THEN [plan EXCEPT ![p] = Identity(p)] ELSE plan
      /\ UNCHANGED source
  BY <1>2 DEF MapPair
<1>4. OnlyLifts(p, "MAPPED")
  BY <1>2, MapPairSound
<1> HIDE DEF maps
<1>5. CASE ~maps
  <2>1. Untold("MAPPED")
    BY <1>3, <1>5 DEF Untold, History, HasStage
  <2> QED
    BY <1>1, <1>3, <1>5, <2>1, PlansUnmoved
<1>6. CASE maps
  <2>1. ASSUME NEW q \in Pairs \ {p}
        PROVE  HasStage(History(q), "MAPPED")' <=> HasStage(History(q), "MAPPED")
    <3>1. log'[q] = log[q]
      BY <1>1, <1>3, <1>6, <2>1 DEF Rewrite, PairInvariant, TypeOK
    <3> QED
      BY <3>1 DEF History, HasStage
  <2>2. Identity(p) \in Pairs
    <3>1. plan'[p] = Identity(p)
      BY <1>1, <1>3, <1>6 DEF PairInvariant, TypeOK
    <3>2. source[p].keys \subseteq Keys /\ reserved \in [Keys -> Pairs \cup {NoPair}]
      BY <1>1, SourceType DEF PairInvariant, TypeOK
    <3>3. Resolved(p) \subseteq Pairs
      BY <3>2 DEF Resolved
    <3> QED
      BY <3>3 DEF Identity
  <2> SUFFICES ASSUME NEW q \in Pairs, HasStage(History(q), "MAPPED")'
               PROVE  plan'[q] # NoPair /\ \A k \in source[q].keys : reserved'[k] = plan'[q]
    BY <1>3 DEF PlansKept, PlanHolds
  <2>3. source[q].keys \subseteq Keys
    BY <1>1, SourceType DEF PairInvariant
  <2>4. CASE q = p
    <3>1. plan'[p] = Identity(p)
      BY <1>1, <1>3, <1>6 DEF PairInvariant, TypeOK
    <3> QED
      BY <1>3, <1>6, <2>2, <2>3, <2>4, <3>1, NoPairAssumption
  <2>5. CASE q # p
    <3>1. plan'[q] = plan[q]
      BY <1>1, <1>3, <1>6, <2>5 DEF PairInvariant, TypeOK
    <3>2. plan[q] # NoPair /\ \A k \in source[q].keys : reserved[k] = plan[q]
      BY <1>1, <2>1, <2>5 DEF PlansKept, PlanHolds
    <3> QED
      BY <2>3, <3>1, <3>2 DEF EvidenceKept
  <2> QED
    BY <2>4, <2>5
<1> QED
  BY <1>5, <1>6

(* PromotePair claims its reading and moves the assignment only to a later *)
(* capture that says otherwise.                                            *)
LEMMA PromotePairTables ==
  ASSUME CanonicalInvariant, NEW w \in Workers, PromotePair(w)
  PROVE  ClaimsKept' /\ FactKept'
<1>1. /\ HistoryInvariant /\ PairInvariant /\ TypeOK /\ ClaimsKept /\ FactKept
      /\ worker[w].pc = "promote"
  BY DEF CanonicalInvariant, HistoryInvariant, PairInvariant, PromotePair
<1>2. PICK p \in Pairs : p = worker[w].pair
  BY <1>1, HeldPair
<1> DEFINE promotes == PromoteOutcome(p) = "ok" /\ Below(p, "PROMOTED")
<1>3. /\ log' = IF promotes THEN Rewrite(p, [r \in Resources |-> Lifted(log[p][r], "PROMOTED", worker[w].opAt)])
                ELSE log
      /\ fact' = IF promotes THEN Assigned(p) ELSE fact
      /\ claims' = IF promotes THEN claims \cup {Claim(p)} ELSE claims
      /\ UNCHANGED source
  BY <1>2 DEF PromotePair
<1>4. promotes => ~FactConflict(p) /\ ~ClaimConflict(p)
  BY DEF PromoteOutcome
<1>5. promotes => \E t : Becomes(p, t, {"PROMOTED"}, "PROMOTED")
  BY <1>2, PromotePairSound
<1> HIDE DEF promotes
<1>6. CASE ~promotes
  <2>1. Untold("PROMOTED")
    BY <1>3, <1>6 DEF Untold, History, HasStage
  <2> QED
    BY <1>1, <1>3, <1>6, <2>1, FactUnmoved, ClaimsUnmoved
<1>7. CASE promotes
  <2>1. PICK t : Becomes(p, t, {"PROMOTED"}, "PROMOTED")
    BY <1>5, <1>7
  <2>2. /\ HasStage(History(p), "PROMOTED")'
        /\ \A q \in Pairs \ {p} : HasStage(History(q), "PROMOTED")' <=> HasStage(History(q), "PROMOTED")
    <3>1. History(p)' = t /\ \A q \in Pairs \ {p} : History(q)' = History(q)
      BY <1>1, <2>1, MovesFacts DEF Becomes
    <3> QED
      BY <2>1, <3>1 DEF Becomes, HasStage
  <2>3. ClaimsKept'
    BY <1>1, <1>3, <1>4, <1>7, <2>2, ClaimAdded
  <2>4. \A q \in Pairs : /\ source[q].captured \in Nat /\ source[q].gameweek \in Nat \ {0}
                         /\ HasStage(History(q), "PROMOTED") => HasStage(History(q), "PROMOTED")'
    <3>1. \A q \in Pairs : source[q] \in SourceRecords /\ source[q].captured \in Nat
      BY <1>1, SourceType
    <3> QED
      BY <2>2, <3>1 DEF SourceRecords
  <2>5. /\ fact.at \in Int /\ fact.by \in Pairs \cup {NoPair}
        /\ source[p].gameweek = fact.gameweek \/ source[p].captured # fact.at
    BY <1>1, <1>4, <1>7 DEF TypeOK, FactConflict
  <2>6. CASE source[p].gameweek = fact.gameweek \/ source[p].captured < fact.at
    <3>1. fact' = fact
      BY <1>3, <1>7, <2>6 DEF Assigned
    <3>2. fact'.by # NoPair =>
            /\ HasStage(History(fact.by), "PROMOTED")'
            /\ fact'.gameweek = source'[fact'.by].gameweek
            /\ fact'.at = source'[fact'.by].captured
      BY <1>1, <1>3, <2>4, <2>5, <3>1 DEF FactKept, FactFollowsPromoted
    <3>3. ASSUME NEW q \in Pairs, HasStage(History(q), "PROMOTED")',
                 source[q].captured >= fact.at, source[q].gameweek # fact.gameweek
          PROVE  \E other \in Pairs :
                   /\ HasStage(History(other), "PROMOTED")'
                   /\ source[other].gameweek = source[q].gameweek
                   /\ source[other].captured < fact.at
      <4>1. q # p
        BY <2>4, <2>5, <2>6, <3>3
      <4>2. HasStage(History(q), "PROMOTED")
        BY <2>2, <3>3, <4>1
      <4> QED
        BY <1>1, <2>4, <3>3, <4>2 DEF FactKept, FactFollowsPromoted
    <3>4. FactFollowsPromoted'
      BY <1>3, <3>1, <3>2, <3>3 DEF FactFollowsPromoted
    <3> QED
      BY <1>1, <2>3, <3>1, <3>4 DEF FactKept
  <2>7. CASE ~(source[p].gameweek = fact.gameweek \/ source[p].captured < fact.at)
    <3>1. fact' = [gameweek |-> source[p].gameweek, at |-> source[p].captured, by |-> p]
      BY <1>3, <1>7, <2>7 DEF Assigned
    <3>2. fact'.gameweek = source[p].gameweek /\ fact'.at = source[p].captured /\ fact'.by = p
      BY <3>1
    <3>3. fact.at < source[p].captured
      BY <2>4, <2>5, <2>7
    <3>4. ASSUME NEW q \in Pairs, HasStage(History(q), "PROMOTED")',
                 source[q].captured >= source[p].captured,
                 source[q].gameweek # source[p].gameweek
          PROVE  \E other \in Pairs :
                   /\ HasStage(History(other), "PROMOTED")'
                   /\ source[other].gameweek = source[q].gameweek
                   /\ source[other].captured < source[p].captured
      <4>1. q # p /\ HasStage(History(q), "PROMOTED")
        BY <2>2, <3>4
      <4>2. CASE source[q].gameweek = fact.gameweek
        <5>1. fact.by \in Pairs
          BY <1>1, <2>4, <2>5, <4>2 DEF FactKept
        <5>2. /\ HasStage(History(fact.by), "PROMOTED")
              /\ fact.gameweek = source[fact.by].gameweek
              /\ fact.at = source[fact.by].captured
          BY <1>1, <5>1, NoPairAssumption DEF FactKept, FactFollowsPromoted
        <5>3. PICK other \in Pairs : other = fact.by
          BY <5>1
        <5> QED
          BY <2>4, <3>3, <4>2, <5>2, <5>3
      <4>3. CASE source[q].gameweek # fact.gameweek
        <5>1. source[q].captured >= fact.at
          BY <2>4, <2>5, <3>3, <3>4
        <5>2. PICK other \in Pairs :
                /\ HasStage(History(other), "PROMOTED")
                /\ source[other].gameweek = source[q].gameweek
                /\ source[other].captured < fact.at
          BY <1>1, <4>1, <4>3, <5>1 DEF FactKept, FactFollowsPromoted
        <5>3. source[other].captured < source[p].captured
          BY <2>4, <2>5, <3>3, <5>2
        <5> QED
          BY <2>4, <5>2, <5>3
      <4> QED
        BY <4>2, <4>3
    <3>5. FactFollowsPromoted'
      BY <1>3, <2>2, <3>2, <3>4 DEF FactFollowsPromoted
    <3>6. fact'.by # NoPair
      BY <3>2, NoPairAssumption
    <3> QED
      BY <2>3, <3>5, <3>6 DEF FactKept
  <2> QED
    BY <2>6, <2>7
<1> QED
  BY <1>6, <1>7

(* FinishPair claims its reading again, after no claim contradicted it.    *)
LEMMA FinishPairTables ==
  ASSUME CanonicalInvariant, NEW w \in Workers, FinishPair(w)
  PROVE  ClaimsKept' /\ Untold("MAPPED") /\ Untold("PROMOTED")
<1>1. PairInvariant /\ HistoryInvariant /\ ClaimsKept /\ worker[w].pc = "finish"
  BY DEF CanonicalInvariant, HistoryInvariant, FinishPair
<1>2. PICK p \in Pairs : p = worker[w].pair
  BY <1>1, HeldPair
<1>3. \A stage \in CanonicalStages : Untold(stage)
  <2>1. UNCHANGED log \/ \E t : Becomes(p, t, {"QUALITY_PASSED", "USABLE"}, "USABLE")
    BY <1>2, FinishPairSound
  <2>2. \A stage \in CanonicalStages : stage \notin {"QUALITY_PASSED", "USABLE"}
    BY DEF CanonicalStages
  <2> QED
    BY <1>1, <2>1, <2>2, StagesKept
<1>4. /\ claims' = IF FinishOutcome(p) = "ok" THEN claims \cup {Claim(p)} ELSE claims
      /\ UNCHANGED source
  BY <1>2 DEF FinishPair
<1>5. FinishOutcome(p) = "ok" => ~ClaimConflict(p)
  BY DEF FinishOutcome
<1>6. ClaimsKept'
  BY <1>1, <1>3, <1>4, <1>5, ClaimAdded, ClaimsUnmoved DEF CanonicalStages, Untold
<1> QED
  BY <1>3, <1>6 DEF CanonicalStages

(* The transactions that concern no canonical table.                       *)
LEMMA OtherStagesKept ==
  ASSUME CanonicalInvariant, NEW w \in Workers,
         \/ CreateEnvelopes(w) \/ ParsePair(w) \/ ValidatePair(w) \/ QuarantinePair(w)
         \/ RecordRetryableFailure(w) \/ ValidateManual(w) \/ RecordPermanentFailure(w)
  PROVE  \A stage \in CanonicalStages : Untold(stage)
<1>1. PairInvariant /\ HistoryInvariant
  BY DEF CanonicalInvariant, HistoryInvariant
<1>2. CASE CreateEnvelopes(w)
  BY <1>1, <1>2, CreateEnvelopesSound, StoringTellsNothing
<1>3. CASE ~CreateEnvelopes(w)
  <2>1. worker[w].pc \notin {"idle", "envelope"}
    BY <1>3 DEF ParsePair, ValidatePair, QuarantinePair, RecordRetryableFailure,
       ValidateManual, RecordPermanentFailure
  <2>2. PICK p \in Pairs : worker[w].pair = p
    BY <1>1, <2>1, HeldPair
  <2>3. \E stages, top : /\ stages \cap CanonicalStages = {}
                         /\ UNCHANGED log \/ \E t : Becomes(p, t, stages, top)
    <3>1. CASE ParsePair(w)
      <4>1. OnlyLifts(p, "PARSED")
        BY <1>1, <2>2, <3>1, ParsePairSound
      <4> QED
        BY <4>1 DEF OnlyLifts, CanonicalStages
    <3>2. CASE ValidatePair(w)
      <4>1. OnlyLifts(p, "VALIDATED")
        BY <1>1, <2>2, <3>2, ValidatePairSound
      <4> QED
        BY <4>1 DEF OnlyLifts, CanonicalStages
    <3>3. CASE QuarantinePair(w)
      <4>1. UNCHANGED log \/ \E t : Becomes(p, t, {"QUARANTINED"}, "QUARANTINED")
        BY <2>2, <3>3, QuarantinePairSound
      <4> QED
        BY <4>1 DEF CanonicalStages
    <3>4. CASE RecordRetryableFailure(w)
      <4>1. UNCHANGED log \/ \E t : Becomes(p, t, {"FAILED_RETRYABLE"}, LastGood(History(p)))
        BY <2>2, <3>4, RecordRetryableFailureSound
      <4> QED
        BY <4>1 DEF CanonicalStages
    <3>5. CASE ValidateManual(w)
      <4>1. UNCHANGED log \/ \E t : Becomes(p, t, {"PARSED", "VALIDATED", "REJECTED"}, "REJECTED")
        BY <2>2, <3>5, ValidateManualSound
      <4> QED
        BY <4>1 DEF CanonicalStages
    <3>6. CASE RecordPermanentFailure(w)
      <4>1. UNCHANGED log \/ \E t : Becomes(p, t, {"FAILED_PERMANENT"}, "FAILED_PERMANENT")
        BY <2>2, <3>6, RecordPermanentFailureSound
      <4> QED
        BY <4>1 DEF CanonicalStages
    <3> QED
      BY <1>3, <3>1, <3>2, <3>3, <3>4, <3>5, <3>6
  <2> QED
    BY <1>1, <2>3, StagesKept
<1> QED
  BY <1>2, <1>3

(* Every step keeps the invariant.                                         *)
LEMMA CanonicalKept ==
  ASSUME CanonicalInvariant, [Next]_vars
  PROVE  CanonicalInvariant'
<1>1. /\ PairInvariant /\ HistoryInvariant
      /\ PlansKept /\ ClaimsKept /\ FactKept
  BY DEF CanonicalInvariant, HistoryInvariant
<1>2. HistoryInvariant'
  BY HistoryKept
<1>3. EvidenceKept /\ PairInvariant'
  BY <1>1, StepKeeps
<1> SUFFICES PlansKept' /\ ClaimsKept' /\ FactKept'
  BY <1>2 DEF CanonicalInvariant
<1>4. ASSUME \A stage \in CanonicalStages : Untold(stage),
             UNCHANGED <<source, reserved, plan, fact, claims>>
      PROVE  PlansKept' /\ ClaimsKept' /\ FactKept'
  BY <1>1, <1>4, PlansUnmoved, ClaimsUnmoved, FactUnmoved DEF CanonicalStages
<1>5. UNCHANGED log => \A stage \in CanonicalStages : Untold(stage)
  BY DEF Untold, History, HasStage
<1>6. ASSUME NEW w \in Workers, Step(w)
      PROVE  PlansKept' /\ ClaimsKept' /\ FactKept'
  <2>1. CASE MapPair(w)
    <3>1. PlansKept'
      BY <1>3, <2>1, MapPairPlans
    <3>2. PICK p \in Pairs : p = worker[w].pair
      BY <1>1, <2>1, HeldPair DEF MapPair
    <3>3. OnlyLifts(p, "MAPPED") /\ "PROMOTED" \notin {"MAPPED"}
      BY <2>1, <3>2, MapPairSound
    <3>4. Untold("PROMOTED")
      BY <1>1, <3>3, StagesKept DEF OnlyLifts
    <3>5. UNCHANGED <<source, fact, claims>>
      BY <2>1 DEF MapPair
    <3> QED
      BY <1>1, <3>1, <3>4, <3>5, ClaimsUnmoved, FactUnmoved
  <2>2. CASE PromotePair(w)
    <3>1. ClaimsKept' /\ FactKept'
      BY <2>2, PromotePairTables
    <3>2. PICK p \in Pairs : p = worker[w].pair
      BY <1>1, <2>2, HeldPair DEF PromotePair
    <3>3. OnlyLifts(p, "PROMOTED") /\ "MAPPED" \notin {"PROMOTED"}
      BY <2>2, <3>2, PromotePairSound
    <3>4. Untold("MAPPED")
      BY <1>1, <3>3, StagesKept DEF OnlyLifts
    <3>5. UNCHANGED <<source, reserved, plan>>
      BY <2>2 DEF PromotePair
    <3> QED
      BY <1>1, <3>1, <3>4, <3>5, PlansUnmoved
  <2>3. CASE FinishPair(w)
    <3>1. UNCHANGED <<source, reserved, plan, fact>>
      BY <2>3 DEF FinishPair
    <3> QED
      BY <1>1, <2>3, <3>1, FinishPairTables, PlansUnmoved, FactUnmoved
  <2>4. CASE ~(MapPair(w) \/ PromotePair(w) \/ FinishPair(w))
    <3>1. \A stage \in CanonicalStages : Untold(stage)
      BY <1>6, <2>4, OtherStagesKept DEF Step
    <3>2. UNCHANGED <<source, reserved, plan, fact, claims>>
      BY <1>6, <2>4 DEF Step, CreateEnvelopes, ParsePair, ValidatePair, QuarantinePair,
         RecordRetryableFailure, ValidateManual, RecordPermanentFailure
    <3> QED
      BY <1>4, <3>1, <3>2
  <2> QED
    BY <2>1, <2>2, <2>3, <2>4
<1>7. ASSUME ~\E w \in Workers : Step(w)
      PROVE  PlansKept' /\ ClaimsKept' /\ FactKept'
  <2>1. UNCHANGED <<log, source, reserved, plan, fact, claims>>
    BY <1>7 DEF Next, vars, BeginImport, BeginResume, ResumeFails, TransactionFails, Crash, Tick
  <2> QED
    BY <1>4, <1>5, <2>1
<1> QED
  BY <1>6, <1>7

(* Nothing is stored in the beginning.                                     *)
LEMMA CanonicalInit ==
  ASSUME Init
  PROVE  CanonicalInvariant
<1>1. PairInvariant
  BY InitKeeps
<1>2. \A p \in Pairs : History(p) = <<>> /\ ~Started(p) /\ p \notin bundle /\ issues[p] = {}
  BY DEF Init, History, Started, Resources
<1>3. ASSUME NEW p \in Pairs
      PROVE  /\ \A stage : ~HasStage(History(p), stage)
             /\ ~UsableBy(History(p), source[p].cutoff)
  <2>1. \A stage : ~HasStage(History(p), stage)
    BY <1>2 DEF HasStage
  <2> QED
    BY <2>1, NotUsable
<1>4. PairsStored /\ IssuesExplained
  BY <1>2, <1>3 DEF PairsStored, IssuesExplained
<1>5. WorkersKnow
  BY DEF Init, Idle, WorkersKnow, WorkerKnows, Requires
<1>6. PlansKept /\ ClaimsKept
  BY <1>3 DEF Init, PlansKept, ClaimsKept
<1>7. FactKept
  BY <1>3 DEF Init, NoFact, FactKept, FactFollowsPromoted
<1> QED
  BY <1>1, <1>4, <1>5, <1>6, <1>7 DEF CanonicalInvariant, HistoryInvariant

-----------------------------------------------------------------------------
(* The theorems.                                                           *)

(* Everything below rests on this invariant: what stored pairs look like,  *)
(* what each worker has seen of its pair, why issues and bundles exist,    *)
(* and what mapped and promoted pairs have left in the canonical tables.   *)
THEOREM CanonicalInvariantHolds == Spec => []CanonicalInvariant
<1>1. Init => CanonicalInvariant
  BY CanonicalInit
<1>2. CanonicalInvariant /\ [Next]_vars => CanonicalInvariant'
  BY CanonicalKept
<1> QED BY <1>1, <1>2, PTL DEF Spec

(* Every history is a legal climb: stages in the order of the guard, no    *)
(* stage but FAILED_RETRYABLE twice, nothing after a terminal event, times *)
(* that never go back, whichever calls, failures and crashes wrote it.     *)
THEOREM HistoriesStayLegal == Spec => []LegalHistory
<1>1. CanonicalInvariant => LegalHistory
  <2> SUFFICES ASSUME CanonicalInvariant, NEW p \in Pairs, NEW r \in Resources
               PROVE  LegalEvents(log[p][r])
    BY DEF LegalHistory, LegalEvents
  <2>1. PairInvariant /\ PairsStored
    BY DEF CanonicalInvariant, HistoryInvariant
  <2>2. log[p][r] = History(p) /\ (Started(p) <=> History(p) # <<>>)
    BY <2>1, Members
  <2>3. CASE Started(p)
    BY <2>1, <2>2, <2>3 DEF PairsStored, Stored, Climbing
  <2>4. CASE ~Started(p)
    BY <2>2, <2>4 DEF LegalEvents
  <2> QED
    BY <2>3, <2>4
<1> QED BY <1>1, CanonicalInvariantHolds, PTL

(* A bundle is published for exactly the usable pairs whose usable time    *)
(* meets their cutoff, and no blocking issue is ever open on one of them,  *)
(* though issues and bundles are written by transactions of different      *)
(* calls.                                                                  *)
THEOREM BundlesAreUsableInTime == Spec => []BundleIffUsableInTime
<1>1. CanonicalInvariant => BundleIffUsableInTime
  <2> SUFFICES ASSUME CanonicalInvariant, NEW p \in Pairs
               PROVE  p \in bundle <=> UsableBy(History(p), source[p].cutoff) /\ issues[p] = {}
    BY DEF BundleIffUsableInTime, UsableBy
  <2>1. PairInvariant /\ PairsStored /\ IssuesExplained
    BY DEF CanonicalInvariant, HistoryInvariant
  <2>2. issues[p] \subseteq {"QUARANTINE", "POST_CUTOFF"}
    BY <2>1 DEF PairInvariant, TypeOK
  <2>3. /\ "QUARANTINE" \in issues[p] <=> HasStage(History(p), "QUARANTINED")
        /\ p \in bundle <=> UsableBy(History(p), source[p].cutoff)
        /\ "POST_CUTOFF" \in issues[p] <=> HasStage(History(p), "USABLE") /\ p \notin bundle
    BY <2>1 DEF IssuesExplained
  <2>4. HasStage(History(p), "USABLE") => ~HasStage(History(p), "QUARANTINED")
    <3> SUFFICES ASSUME HasStage(History(p), "USABLE"), HasStage(History(p), "QUARANTINED")
                 PROVE  FALSE
      OBVIOUS
    <3>1. History(p) # <<>>
      BY DEF HasStage
    <3>2. LegalEvents(History(p)) /\ History(p) \in Seq(Events)
      BY <2>1, <3>1, Members DEF PairsStored, Stored, Climbing
    <3>3. PICK i, j \in DOMAIN History(p) : /\ History(p)[i].stage = "USABLE"
                                            /\ History(p)[j].stage = "QUARANTINED"
      BY DEF HasStage
    <3>4. i # j
      BY <3>3
    <3>5. i < Len(History(p)) \/ j < Len(History(p))
      BY <3>2, <3>4
    <3> QED
      BY <3>2, <3>3, <3>5 DEF LegalEvents, Terminal
  <2>5. p \in bundle => HasStage(History(p), "USABLE")
    BY <2>3, NotUsable
  <2> QED
    BY <2>2, <2>3, <2>4, <2>5
<1> QED BY <1>1, CanonicalInvariantHolds, PTL

(* The plan of a mapped pair keeps agreeing with the reservations, and     *)
(* pairs that share a provider key share one identity, in whatever order   *)
(* their mappings committed.                                               *)
THEOREM PlansAlwaysHold == Spec => []PlansHold
<1>1. CanonicalInvariant => PlansHold
  <2> SUFFICES ASSUME CanonicalInvariant PROVE PlansHold
    OBVIOUS
  <2>1. PlansKept
    BY DEF CanonicalInvariant
  <2>2. ASSUME NEW p \in Pairs, NEW q \in Pairs,
               HasStage(History(p), "MAPPED"), HasStage(History(q), "MAPPED"),
               source[p].keys \cap source[q].keys # {}
        PROVE  plan[p] = plan[q]
    <3>1. PICK k : k \in source[p].keys /\ k \in source[q].keys
      BY <2>2
    <3>2. reserved[k] = plan[p] /\ reserved[k] = plan[q]
      BY <2>1, <2>2, <3>1 DEF PlansKept, PlanHolds
    <3> QED
      BY <3>2
  <2> QED
    BY <2>1, <2>2 DEF PlansHold, PlansKept
<1> QED BY <1>1, CanonicalInvariantHolds, PTL

(* Of two pairs captured at one instant that read the player differently   *)
(* at most one is ever promoted.                                           *)
THEOREM ReadingsAreUnique == Spec => []OneReadingPerInstant
<1>1. CanonicalInvariant => OneReadingPerInstant
  <2> SUFFICES ASSUME CanonicalInvariant, NEW p \in Pairs, NEW q \in Pairs,
                      HasStage(History(p), "PROMOTED"), HasStage(History(q), "PROMOTED"),
                      source[p].captured = source[q].captured
               PROVE  source[p].reading = source[q].reading
    BY DEF OneReadingPerInstant
  <2>1. Claim(p) \in claims /\ Claim(q) \in claims
    BY DEF CanonicalInvariant, ClaimsKept
  <2>2. Claim(p).reading = Claim(q).reading
    BY <2>1 DEF CanonicalInvariant, ClaimsKept, Claim
  <2> QED
    BY <2>2 DEF Claim
<1> QED BY <1>1, CanonicalInvariantHolds, PTL

(* The current assignment is what one promoted pair says, and a promoted   *)
(* pair captured no earlier disagrees only after confirming an older one.  *)
THEOREM FactAlwaysFollows == Spec => []FactFollowsPromoted
<1>1. CanonicalInvariant => FactFollowsPromoted
  BY DEF CanonicalInvariant, FactKept
<1> QED BY <1>1, CanonicalInvariantHolds, PTL

(* A call that returns of its own accord, not to report a database error,  *)
(* leaves its pair at a terminal stage: no LIFECYCLE_INVARIANT error and   *)
(* no append that came too late strands an open pair.                      *)
THEOREM ReturnsAreSettled == Spec => ReturnsSettled
<1> DEFINE Settles == \A w \in Workers, p \in Pairs :
                        /\ worker[w].pc \notin {"idle", "failed"}
                        /\ worker[w].pair = p
                        /\ worker'[w] = Idle
                        /\ faults' = faults
                        => Current(History(p))' \in Terminal
<1>1. CanonicalInvariant /\ [Next]_vars => [Settles]_vars
  <2> SUFFICES ASSUME CanonicalInvariant, [Next]_vars,
                      NEW w \in Workers, NEW p \in Pairs,
                      worker[w].pc \notin {"idle", "failed"}, worker[w].pair = p,
                      worker'[w] = Idle, faults' = faults
               PROVE  Current(History(p))' \in Terminal
    OBVIOUS
  <2>1. /\ worker \in [Workers -> Memories] /\ faults \in Nat
        /\ worker[w] # Idle /\ worker'[w] # worker[w]
    BY DEF CanonicalInvariant, HistoryInvariant, PairInvariant, TypeOK, Idle
  <2>2. Step(w)
    <3>1. ASSUME NEW v \in Workers, v # w, Step(v) PROVE FALSE
      <4>1. worker' = [worker EXCEPT ![v] = worker'[v]]
        BY <3>1, StepCommits DEF Commits
      <4> QED
        BY <2>1, <3>1, <4>1
    <3>2. ASSUME NEW v \in Workers, Crash(v) \/ TransactionFails(v) PROVE FALSE
      BY <2>1, <3>2 DEF Crash, TransactionFails, Fault
    <3>3. ASSUME NEW v \in Workers, NEW q \in Pairs,
                 BeginImport(v, q) \/ BeginResume(v, q) \/ ResumeFails(v, q)
          PROVE  FALSE
      <4>1. worker[v] = Idle /\ \E m : worker' = [worker EXCEPT ![v] = m]
        BY <3>3 DEF BeginImport, BeginResume, ResumeFails
      <4> QED
        BY <2>1, <4>1
    <3>4. ~Tick /\ ~UNCHANGED vars
      BY <2>1 DEF Tick, vars
    <3> QED
      BY <3>1, <3>2, <3>3, <3>4 DEF Next
  <2>3. Commits(w)
    BY <2>2, StepCommits
  <2>4. Started(p) /\ Sound(w, p)
    BY <2>3 DEF Commits
  <2>5. Ended(History(p))'
    BY <2>4 DEF Sound
  <2>6. CanonicalInvariant' /\ Started(p)'
    BY <2>4, CanonicalKept, HistoryKept
  <2>7. Climbing(History(p))'
    BY <2>6 DEF CanonicalInvariant, HistoryInvariant, PairsStored, Stored
  <2> QED
    BY <2>5, <2>7, EndedFacts
<1> QED BY <1>1, CanonicalInvariantHolds, PTL DEF Spec, ReturnsSettled

-----------------------------------------------------------------------------
(* The abstract lifecycle.                                                 *)

(* What the abstract module calls stage.                                   *)
StageTable == [p \in Pairs |-> StageOf(p)]

(* The stage of a pair that a transaction has moved.                       *)
LEMMA StageMoves ==
  ASSUME PairInvariant, NEW p \in Pairs, NEW t, t # <<>>, Moves(p, t)
  PROVE  StageTable' = [StageTable EXCEPT ![p] = LastGood(t)]
<1>1. History(p)' = t /\ \A q \in Pairs \ {p} : History(q)' = History(q) /\ Started(q)' = Started(q)
  BY MovesFacts
<1>2. Started(p)'
  BY DEF PairInvariant, TypeOK, Moves, Started
<1>3. StageOf(p)' = LastGood(t)
  BY <1>1, <1>2 DEF StageOf
<1>4. \A q \in Pairs \ {p} : StageOf(q)' = StageOf(q)
  BY <1>1 DEF StageOf
<1> QED
  BY <1>3, <1>4 DEF StageTable

(* An effect on an open history is a step of the lifecycle or none.        *)
LEMMA EffectIsStep ==
  ASSUME CanonicalInvariant, NEW p \in Pairs, Started(p), Effect(p)
  PROVE  \/ Lifecycle!Next
         \/ UNCHANGED <<StageTable, bundle>>
<1>1. PairInvariant /\ Stored(p)
  BY DEF CanonicalInvariant, HistoryInvariant, PairsStored
<1>2. StageTable[p] = LastGood(History(p)) /\ StageTable \in [Pairs -> {StageOf(q) : q \in Pairs}]
  BY DEF StageTable, StageOf
<1>3. ASSUME NEW t, NEW stages, NEW top, Becomes(p, t, stages, top)
      PROVE  /\ StageTable' = [StageTable EXCEPT ![p] = top]
             /\ LastGood(History(p)) \in Lifecycle!Ladder
  <2>1. Climbing(t) /\ Moves(p, t) /\ LastGood(t) = top /\ ~Ended(History(p))
    BY <1>3 DEF Becomes
  <2>2. t # <<>>
    BY <2>1 DEF Climbing
  <2> QED
    BY <1>1, <2>1, <2>2, StageMoves, OpenPair DEF Lifecycle!Ladder
<1>4. CASE UNCHANGED <<log, issues, bundle>>
  BY <1>4 DEF StageTable, StageOf, Started, History
<1>5. ASSUME NEW t, Lifting(p, t) PROVE Lifecycle!Climb(p)
  <2>1. PICK lift \in Lifts : LastGood(History(p)) = lift[1] /\ Becomes(p, t, {lift[2]}, lift[2])
    BY <1>5 DEF Lifting
  <2>2. StageTable' = [StageTable EXCEPT ![p] = lift[2]] /\ UNCHANGED bundle
    BY <1>3, <1>5, <2>1 DEF Lifting
  <2>3. lift[1] \in DOMAIN Lifecycle!Climbs /\ lift[2] \in Lifecycle!Climbs[lift[1]]
    BY DEF Lifts, Lifecycle!Climbs
  <2> QED
    BY <1>2, <2>1, <2>2, <2>3 DEF Lifecycle!Climb, StageTable
<1>6. ASSUME NEW t, Finishing(p, t) PROVE Lifecycle!Settle(p)
  <2>1. StageTable' = [StageTable EXCEPT ![p] = "USABLE"]
    BY <1>3, <1>6 DEF Finishing
  <2> QED
    BY <1>2, <1>6, <2>1 DEF Finishing, Lifecycle!Settle, StageTable
<1>7. ASSUME NEW t, Quarantining(p, t) PROVE Lifecycle!Quarantine(p)
  <2>1. /\ StageTable' = [StageTable EXCEPT ![p] = "QUARANTINED"]
        /\ LastGood(History(p)) \in Lifecycle!Ladder
    BY <1>3, <1>7 DEF Quarantining
  <2> QED
    BY <1>2, <1>7, <2>1 DEF Quarantining, Lifecycle!Quarantine, StageTable
<1>8. ASSUME NEW t, Failing(p, t) PROVE UNCHANGED <<StageTable, bundle>>
  <2>1. StageTable' = [StageTable EXCEPT ![p] = LastGood(History(p))]
    BY <1>3, <1>8 DEF Failing
  <2> QED
    BY <1>2, <1>8, <2>1 DEF Failing
<1>9. ASSUME NEW t, Rejecting(p, t) PROVE Lifecycle!Climb(p)
  <2>1. PICK top \in {"REJECTED", "FAILED_PERMANENT"} : StageTable' = [StageTable EXCEPT ![p] = top]
    BY <1>3, <1>9 DEF Rejecting
  <2>2. LastGood(History(p)) = "RAW_DISCARDED" /\ UNCHANGED bundle
    BY <1>9 DEF Rejecting
  <2>3. "RAW_DISCARDED" \in DOMAIN Lifecycle!Climbs /\ top \in Lifecycle!Climbs["RAW_DISCARDED"]
    BY DEF Lifecycle!Climbs
  <2> QED
    BY <1>2, <2>1, <2>2, <2>3 DEF Lifecycle!Climb, StageTable
<1> QED
  BY <1>4, <1>5, <1>6, <1>7, <1>8, <1>9 DEF Effect, Lifecycle!Next

(* Every step of the service is a step of the lifecycle or none.           *)
LEMMA StepIsStep ==
  ASSUME CanonicalInvariant, [Next]_vars
  PROVE  Lifecycle!Next \/ UNCHANGED <<StageTable, bundle>>
<1>1. PairInvariant
  BY DEF CanonicalInvariant, HistoryInvariant
<1>2. CASE Quiet
  BY <1>2 DEF Quiet, StageTable, StageOf, Started, History
<1>3. ASSUME NEW w \in Workers, Commits(w)
      PROVE  Lifecycle!Next \/ UNCHANGED <<StageTable, bundle>>
  <2>1. PICK p \in Pairs : \/ Started(p) /\ Sound(w, p)
                           \/ \E t : Storing(p, t)
    BY <1>3 DEF Commits
  <2>2. CASE Started(p) /\ Sound(w, p)
    BY <2>2, EffectIsStep DEF Sound
  <2>3. ASSUME NEW t, Storing(p, t) PROVE Lifecycle!Climb(p)
    <3>1. t # <<>> /\ Moves(p, t) /\ LastGood(t) \in {"STORED", "RAW_DISCARDED"} /\ UNCHANGED bundle
      BY <2>3 DEF Storing, Climbing
    <3>2. StageTable' = [StageTable EXCEPT ![p] = LastGood(t)]
      BY <1>1, <3>1, StageMoves
    <3>3. StageTable[p] = "ABSENT"
      BY <2>3 DEF Storing, StageTable, StageOf
    <3>4. "ABSENT" \in DOMAIN Lifecycle!Climbs /\ LastGood(t) \in Lifecycle!Climbs["ABSENT"]
      BY <3>1 DEF Lifecycle!Climbs
    <3> QED
      BY <3>1, <3>2, <3>3, <3>4 DEF Lifecycle!Climb, StageTable
  <2> QED
    BY <2>1, <2>2, <2>3 DEF Lifecycle!Next
<1> QED
  BY <1>2, <1>3, EveryStep

(* The service implements the lifecycle of PairLifecycle: no crash,        *)
(* failure, resume or stalled call makes a pair take another path, and a   *)
(* bundle appears in the very step that makes its pair usable or never.    *)
THEOREM LifecycleImplemented == Spec => ImplementsLifecycle
<1>1. Init => Lifecycle!Init
  BY DEF Init, Lifecycle!Init, StageOf, Started, Resources
<1>2. CanonicalInvariant /\ [Next]_vars => [Lifecycle!Next]_(Lifecycle!vars)
  BY StepIsStep DEF Lifecycle!vars, StageTable
<1> QED BY <1>1, <1>2, CanonicalInvariantHolds, PTL DEF Spec, ImplementsLifecycle, Lifecycle!Spec

=============================================================================
