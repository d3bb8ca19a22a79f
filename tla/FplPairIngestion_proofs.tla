----------------------- MODULE FplPairIngestion_proofs -----------------------
(***************************************************************************)
(* Proofs about FplPairIngestion: the invariant PairInvariant (types, what *)
(* the workers may hold, agreement of the members) is inductive, and from  *)
(* it the permanence of evidence follows for every step.                   *)
(***************************************************************************)
EXTENDS FplPairIngestion, TLAPS

-----------------------------------------------------------------------------
(* Constants and helpers.                                                  *)

(* Every source a pair may have is a source record with a captured instant *)
(* inside the bounds.                                                      *)
LEMMA SourceType ==
  ASSUME TypeOK, NEW p \in Pairs
  PROVE  /\ source[p] \in SourceRecords
         /\ source[p].captured \in 0..MaxInstant
         /\ source[p].keys \subseteq Keys
         /\ source[p].gameweek \in Nat
         /\ source[p].reading \in Nat
BY SourcesAssumption DEF TypeOK, SourceRecords

(* The operation time of a call is one of the instants.                    *)
LEMMA OperationTimeType ==
  ASSUME TypeOK, NEW p \in Pairs
  PROVE  OperationTime(p) \in 0..MaxInstant
BY SourceType, BoundsAssumption DEF TypeOK, OperationTime, Later

(* A history that may follow s: well typed, not empty, s with events added.*)
Extends(t, s) == t \in Seq(Events) /\ t # <<>> /\ IsPrefixOf(s, t)

(* A history extends itself, and extensions compose.                       *)
LEMMA ExtendsItself ==
  ASSUME NEW s \in Seq(Events), s # <<>>
  PROVE  Extends(s, s)
BY DEF Extends, IsPrefixOf

(* Appending twice is appending: to extend a history is transitive.        *)
LEMMA ExtendsTransitive ==
  ASSUME NEW s \in Seq(Events), NEW t, NEW u, Extends(t, s), Extends(u, t)
  PROVE  Extends(u, s)
BY DEF Extends, IsPrefixOf

(* Recording a stage, and lifting a member to a stage, extend its history. *)
LEMMA RecordingExtends ==
  ASSUME TypeOK, NEW s \in Seq(Events), s # <<>>,
         NEW stage \in Stages, NEW at \in 0..MaxInstant
  PROVE  Extends(Recording(s, stage, at), s)
<1>1. CASE Recorded(s, stage)
  BY <1>1, ExtendsItself DEF Recording
<1>2. CASE ~Recorded(s, stage)
  <2> DEFINE e == [stage |-> stage, at |-> Later(at, s[Len(s)].at), seen |-> clock]
  <2>0. s[Len(s)] \in Events
    OBVIOUS
  <2>1. s[Len(s)].at \in 0..MaxInstant
    BY <2>0 DEF Events
  <2>2. e \in Events
    BY <2>1 DEF TypeOK, Events, Later
  <2>3. Recording(s, stage, at) = Append(s, e)
    BY <1>2 DEF Recording
  <2> HIDE DEF e
  <2>4. Extends(Append(s, e), s)
    BY <2>2 DEF Extends, IsPrefixOf
  <2> QED BY <2>3, <2>4
<1> QED BY <1>1, <1>2

(* Lifting a member to a stage only appends to its history.                *)
LEMMA LiftedExtends ==
  ASSUME TypeOK, NEW s \in Seq(Events), s # <<>>,
         NEW stage \in Stages, NEW at \in 0..MaxInstant
  PROVE  Extends(Lifted(s, stage, at), s)
BY RecordingExtends, ExtendsItself DEF Lifted

-----------------------------------------------------------------------------
(* What a transaction of a call in progress does to the histories and to   *)
(* the memory of its worker.                                               *)

(* The members a transaction may give a pair that is started.              *)
Continues(p, members) ==
  /\ members \in [Resources -> Seq(Events)]
  /\ \A r \in Resources : Extends(members[r], log[p][r])
  /\ members["bootstrap"] = members["fixtures"]

(* Lifting both members to a stage, and recording a stage for both, give   *)
(* members that continue the pair.                                         *)
LEMMA LiftedMembers ==
  ASSUME PairInvariant, NEW p \in Pairs, Started(p),
         NEW stage \in Stages, NEW at \in 0..MaxInstant
  PROVE  Continues(p, [r \in Resources |-> Lifted(log[p][r], stage, at)])
<1> DEFINE members == [r \in Resources |-> Lifted(log[p][r], stage, at)]
<1>1. \A r \in Resources : log[p][r] \in Seq(Events) /\ log[p][r] # <<>>
  BY DEF PairInvariant, TypeOK, Started
<1>2. \A r \in Resources : Extends(Lifted(log[p][r], stage, at), log[p][r])
  BY <1>1, LiftedExtends DEF PairInvariant
<1>3. members \in [Resources -> Seq(Events)]
  BY <1>2 DEF Extends
<1>4. members["bootstrap"] = members["fixtures"]
  BY DEF PairInvariant, MembersAgree, Resources
<1> QED BY <1>2, <1>3, <1>4 DEF Continues

(* A transaction of pair p leaves the histories alone or continues p.      *)
Written(p) ==
  \/ log' = log
  \/ \E members : Continues(p, members) /\ log' = Rewrite(p, members)

(* Such a transaction keeps the histories well typed and the members in    *)
(* agreement, changes no other pair, and drops no event.                   *)
LEMMA WrittenKeeps ==
  ASSUME PairInvariant, NEW p \in Pairs, Started(p), Written(p)
  PROVE  /\ log' \in [Pairs -> [Resources -> Seq(Events)]]
         /\ MembersAgree'
         /\ \A q \in Pairs : Started(q) => Started(q)'
         /\ \A q \in Pairs \ {p} : log'[q] = log[q]
         /\ \A q \in Pairs, r \in Resources : IsPrefixOf(log[q][r], log'[q][r])
<1>1. /\ log \in [Pairs -> [Resources -> Seq(Events)]]
      /\ MembersAgree
  BY DEF PairInvariant, TypeOK
<1>2. \A s \in Seq(Events) : IsPrefixOf(s, s)
  BY DEF IsPrefixOf
<1>3. CASE log' = log
  BY <1>1, <1>2, <1>3 DEF MembersAgree, Started
<1>4. ASSUME NEW members, Continues(p, members), log' = Rewrite(p, members)
      PROVE  /\ log' \in [Pairs -> [Resources -> Seq(Events)]]
             /\ MembersAgree'
             /\ \A q \in Pairs : Started(q) => Started(q)'
             /\ \A q \in Pairs \ {p} : log'[q] = log[q]
             /\ \A q \in Pairs, r \in Resources : IsPrefixOf(log[q][r], log'[q][r])
  <2>1. log' = [log EXCEPT ![p] = members]
    BY <1>4 DEF Rewrite
  <2>2. /\ members \in [Resources -> Seq(Events)]
        /\ members["bootstrap"] = members["fixtures"]
        /\ \A r \in Resources : members[r] # <<>> /\ IsPrefixOf(log[p][r], members[r])
    BY <1>4 DEF Continues, Extends
  <2>3. \A q \in Pairs : log'[q] = IF q = p THEN members ELSE log[q]
    BY <1>1, <2>1
  <2>4. log' \in [Pairs -> [Resources -> Seq(Events)]]
    BY <1>1, <2>1, <2>2
  <2>5. MembersAgree'
    BY <1>1, <2>2, <2>3 DEF MembersAgree
  <2>6. \A q \in Pairs : Started(q) => Started(q)'
    BY <2>2, <2>3 DEF Started
  <2>7. \A q \in Pairs, r \in Resources : IsPrefixOf(log[q][r], log'[q][r])
    BY <1>1, <1>2, <2>2, <2>3
  <2> QED BY <2>3, <2>4, <2>5, <2>6, <2>7
<1> QED BY <1>3, <1>4 DEF Written

(* A worker that is past its envelope holds a started pair.                *)
LEMMA HeldPair ==
  ASSUME PairInvariant, NEW w \in Workers, worker[w].pc \notin {"idle", "envelope"}
  PROVE  /\ worker[w] \in Memories
         /\ worker[w].pair \in Pairs
         /\ Started(worker[w].pair)
         /\ worker[w].opAt \in 0..MaxInstant
BY DEF PairInvariant, TypeOK, Memories, WorkersHoldPairs, WorkerHoldsPair, Idle

(* After a transaction of its pair a worker is idle or still holds it.     *)
LEMMA HeldPairKept ==
  ASSUME PairInvariant, NEW w \in Workers,
         worker[w].pc \notin {"idle", "envelope"},
         Written(worker[w].pair),
         NEW m \in Memories,
         worker' = [worker EXCEPT ![w] = m],
         m = Idle \/ (m.pair = worker[w].pair /\ m.pc \notin {"idle", "envelope"})
  PROVE  worker' \in [Workers -> Memories] /\ WorkersHoldPairs'
<1> DEFINE p == worker[w].pair
<1>1. p \in Pairs /\ Started(p)
  BY HeldPair
<1>2. /\ \A q \in Pairs : Started(q) => Started(q)'
      /\ \A q \in Pairs \ {p} : log'[q] = log[q]
  BY <1>1, WrittenKeeps
<1>3. worker \in [Workers -> Memories] /\ WorkersHoldPairs
  BY DEF PairInvariant, TypeOK
<1>4. worker' \in [Workers -> Memories]
  BY <1>3
<1>5. ASSUME NEW v \in Workers
      PROVE  WorkerHoldsPair(v)'
  <2>1. CASE v = w
    <3>1. worker'[v] = m
      BY <2>1, <1>3
    <3> QED BY <3>1, <1>1, <1>2 DEF WorkerHoldsPair
  <2>2. CASE v # w
    <3>1. worker'[v] = worker[v]
      BY <2>2, <1>3
    <3>2. CASE worker[v].pc # "envelope"
      <4>1. \/ worker[v] = Idle
            \/ /\ worker[v].pair \in Pairs
               /\ worker[v].pc \notin {"idle", "envelope"}
               /\ Started(worker[v].pair)
        BY <3>2, <1>3 DEF WorkersHoldPairs, WorkerHoldsPair
      <4> QED BY <3>1, <4>1, <1>2 DEF WorkerHoldsPair
    <3>3. CASE worker[v].pc = "envelope"
      <4>1. /\ worker[v].pair \in Pairs
            /\ \A r \in Resources : log[worker[v].pair][r] = <<>>
            /\ \A u \in Workers \ {v} : worker[u].pair # worker[v].pair
        BY <3>3, <1>3 DEF WorkersHoldPairs, WorkerHoldsPair, Idle
      <4>2. worker[v].pair # p
        BY <2>2, <4>1
      <4>3. \A u \in Workers : worker'[u] = IF u = w THEN m ELSE worker[u]
        BY <1>3
      <4>4. m.pair \in {p, NoPair}
        BY DEF Idle
      <4>5. \A r \in Resources : log'[worker[v].pair][r] = <<>>
        BY <1>2, <4>1, <4>2
      <4>6. \A u \in Workers \ {v} : worker'[u].pair # worker[v].pair
        BY <4>1, <4>2, <4>3, <4>4, NoPairAssumption
      <4> QED BY <3>1, <3>3, <4>1, <4>5, <4>6 DEF WorkerHoldsPair
    <3> QED BY <3>2, <3>3
  <2> QED BY <2>1, <2>2
<1> QED BY <1>4, <1>5 DEF WorkersHoldPairs

(* A commit, a quarantine-class error and an abort all leave the worker    *)
(* idle or with its pair.                                                  *)
LEMMA AdvanceKeepsPair ==
  ASSUME PairInvariant, NEW w \in Workers,
         worker[w].pc \notin {"idle", "envelope"},
         Written(worker[w].pair),
         NEW outcome, NEW next \in PCs \ {"envelope"},
         Advance(w, outcome, next)
  PROVE  worker' \in [Workers -> Memories] /\ WorkersHoldPairs'
<1> DEFINE m == IF outcome = "abort" \/ (outcome = "ok" /\ next = "idle") THEN Idle
                ELSE [worker[w] EXCEPT !.pc = IF outcome = "ok" THEN next ELSE "quarantine"]
<1>1. worker \in [Workers -> Memories] /\ worker[w] \in Memories
  BY HeldPair DEF PairInvariant, TypeOK
<1>2. Idle \in Memories
  BY BoundsAssumption DEF Idle, Memories, PCs, ManualAttempts
<1>3. m \in Memories
  BY <1>1, <1>2 DEF Memories, PCs
<1>4. m = Idle \/ (m.pair = worker[w].pair /\ m.pc \notin {"idle", "envelope"})
  BY <1>1 DEF Memories
<1>5. worker' = [worker EXCEPT ![w] = m]
  BY <1>1 DEF Advance
<1> HIDE DEF m
<1> QED BY <1>3, <1>4, <1>5, HeldPairKept

-----------------------------------------------------------------------------
(* One transaction.                                                        *)

(* The tables a transaction writes besides the processing events.          *)
DataTyped ==
  /\ reserved \in [Keys -> Pairs \cup {NoPair}]
  /\ plan \in [Pairs -> Pairs \cup {NoPair}]
  /\ fact \in [gameweek : Nat, at : -1..MaxInstant, by : Pairs \cup {NoPair}]
  /\ claims \subseteq [at : 0..MaxInstant, reading : Nat]
  /\ observed \subseteq Pairs
  /\ issues \in [Pairs -> SUBSET {"QUARANTINE", "POST_CUTOFF"}]
  /\ bundle \subseteq Pairs
  /\ faults \in 0..MaxFaults

DataKept ==
  /\ \A k \in Keys : reserved[k] # NoPair => reserved'[k] = reserved[k]
  /\ claims \subseteq claims'
  /\ observed \subseteq observed'
  /\ bundle \subseteq bundle'
  /\ fact.at <= fact'.at

data == <<reserved, plan, fact, claims, observed, issues, bundle>>

(* Tables that are not written keep their types and their evidence.        *)
LEMMA DataUnchanged ==
  ASSUME PairInvariant, UNCHANGED data, faults' \in 0..MaxFaults
  PROVE  DataTyped' /\ DataKept
BY DEF PairInvariant, TypeOK, DataTyped, DataKept, data

(* A transaction of a call in progress keeps the invariant and the         *)
(* evidence if what it writes to the other tables does.                    *)
LEMMA TransactionKeeps ==
  ASSUME PairInvariant, NEW w \in Workers,
         worker[w].pc \notin {"idle", "envelope"},
         Written(worker[w].pair),
         worker' \in [Workers -> Memories] /\ WorkersHoldPairs',
         UNCHANGED <<clock, source>>,
         DataTyped', DataKept
  PROVE  PairInvariant' /\ EvidenceKept
<1>1. worker[w].pair \in Pairs /\ Started(worker[w].pair)
  BY HeldPair
<1>2. /\ log' \in [Pairs -> [Resources -> Seq(Events)]]
      /\ MembersAgree'
      /\ \A q \in Pairs, r \in Resources : IsPrefixOf(log[q][r], log'[q][r])
  BY <1>1, WrittenKeeps
<1>3. clock' \in 0..MaxClock /\ source' \in [Pairs -> Sources]
  BY DEF PairInvariant, TypeOK
<1>4. TypeOK'
  BY <1>2, <1>3 DEF TypeOK, DataTyped
<1>5. EvidenceKept
  BY <1>2 DEF EvidenceKept, DataKept
<1> QED BY <1>2, <1>4, <1>5 DEF PairInvariant

(* ParsePair lifts both members to PARSED or writes nothing.             *)
LEMMA ParsePairKeeps ==
  ASSUME PairInvariant, NEW w \in Workers, ParsePair(w)
  PROVE  PairInvariant' /\ EvidenceKept
<1> DEFINE p == worker[w].pair
           outcome == ParseOutcome(w, p)
           members == [r \in Resources |-> Lifted(log[p][r], "PARSED", worker[w].opAt)]
<1>1. /\ worker[w].pc \notin {"idle", "envelope"}
      /\ log' = IF outcome = "ok" /\ Below(p, "PARSED") THEN Rewrite(p, members) ELSE log
      /\ Advance(w, outcome, "validate")
      /\ UNCHANGED <<clock, source, faults>> /\ UNCHANGED data
  BY DEF ParsePair, data
<1> HIDE DEF outcome
<1>2. Continues(p, members)
  BY <1>1, HeldPair, LiftedMembers DEF Stages
<1> HIDE DEF members
<1>3. Written(p)
  BY <1>1, <1>2 DEF Written
<1>4. worker' \in [Workers -> Memories] /\ WorkersHoldPairs'
  BY <1>1, <1>3, AdvanceKeepsPair DEF PCs
<1>5. DataTyped' /\ DataKept
  BY <1>1, DataUnchanged DEF PairInvariant, TypeOK
<1> QED BY <1>1, <1>3, <1>4, <1>5, TransactionKeeps

(* ValidatePair lifts both members to VALIDATED or writes nothing.       *)
LEMMA ValidatePairKeeps ==
  ASSUME PairInvariant, NEW w \in Workers, ValidatePair(w)
  PROVE  PairInvariant' /\ EvidenceKept
<1> DEFINE p == worker[w].pair
           outcome == ValidateOutcome(p)
           members == [r \in Resources |-> Lifted(log[p][r], "VALIDATED", worker[w].opAt)]
<1>1. /\ worker[w].pc \notin {"idle", "envelope"}
      /\ log' = IF outcome = "ok" /\ Below(p, "VALIDATED") THEN Rewrite(p, members) ELSE log
      /\ Advance(w, outcome, "map")
      /\ UNCHANGED <<clock, source, faults>> /\ UNCHANGED data
  BY DEF ValidatePair, data
<1> HIDE DEF outcome
<1>2. Continues(p, members)
  BY <1>1, HeldPair, LiftedMembers DEF Stages
<1> HIDE DEF members
<1>3. Written(p)
  BY <1>1, <1>2 DEF Written
<1>4. worker' \in [Workers -> Memories] /\ WorkersHoldPairs'
  BY <1>1, <1>3, AdvanceKeepsPair DEF PCs
<1>5. DataTyped' /\ DataKept
  BY <1>1, DataUnchanged DEF PairInvariant, TypeOK
<1> QED BY <1>1, <1>3, <1>4, <1>5, TransactionKeeps

(* MapPair reserves only keys that are free or already resolve to the      *)
(* identity it writes.                                                     *)
LEMMA MapPairKeeps ==
  ASSUME PairInvariant, NEW w \in Workers, MapPair(w)
  PROVE  PairInvariant' /\ EvidenceKept
<1> DEFINE p == worker[w].pair
           outcome == MapOutcome(p)
           maps == outcome = "ok" /\ Below(p, "MAPPED")
           members == [r \in Resources |-> Lifted(log[p][r], "MAPPED", worker[w].opAt)]
<1>1. /\ worker[w].pc \notin {"idle", "envelope"}
      /\ log' = IF maps THEN Rewrite(p, members) ELSE log
      /\ reserved' = IF maps THEN [k \in Keys |-> IF k \in source[p].keys
                                                  THEN Identity(p) ELSE reserved[k]]
                     ELSE reserved
      /\ plan' = IF maps THEN [plan EXCEPT ![p] = Identity(p)] ELSE plan
      /\ Advance(w, outcome, "promote")
      /\ UNCHANGED <<clock, source, fact, claims, observed, issues, bundle, faults>>
  BY DEF MapPair
<1>2. p \in Pairs
  BY <1>1, HeldPair
<1>3. Continues(p, members)
  BY <1>1, HeldPair, LiftedMembers DEF Stages
<1>4. DataTyped
  BY DEF PairInvariant, TypeOK, DataTyped
<1>5. maps => \A i, j \in Resolved(p) : i = j
  BY DEF MapOutcome
<1> HIDE DEF members, maps, outcome
<1>6. Written(p)
  BY <1>1, <1>3 DEF Written
<1>7. worker' \in [Workers -> Memories] /\ WorkersHoldPairs'
  BY <1>1, <1>6, AdvanceKeepsPair DEF PCs
<1>8. source[p].keys \subseteq Keys
  BY <1>2, SourceType DEF PairInvariant
<1>9. Identity(p) \in Pairs
  <2>1. Resolved(p) \subseteq Pairs
    BY <1>4, <1>8 DEF Resolved, DataTyped
  <2>2. CASE Resolved(p) = {}
    BY <2>2, <1>2 DEF Identity
  <2>3. CASE Resolved(p) # {}
    BY <2>1, <2>3 DEF Identity
  <2> QED BY <2>2, <2>3
<1>10. ASSUME maps, NEW k \in source[p].keys, reserved[k] # NoPair
       PROVE  Identity(p) = reserved[k]
  <2>1. reserved[k] \in Resolved(p)
    BY <1>10 DEF Resolved
  <2>2. Identity(p) \in Resolved(p)
    BY <2>1 DEF Identity
  <2> QED BY <2>1, <2>2, <1>5, <1>10
<1>11. DataTyped'
  <2>1. reserved' \in [Keys -> Pairs \cup {NoPair}]
    BY <1>1, <1>4, <1>9 DEF DataTyped
  <2>2. plan' \in [Pairs -> Pairs \cup {NoPair}]
    BY <1>1, <1>4, <1>9 DEF DataTyped
  <2> QED BY <1>1, <1>4, <2>1, <2>2 DEF DataTyped
<1>12. \A k \in Keys : reserved[k] # NoPair => reserved'[k] = reserved[k]
  BY <1>1, <1>10
<1>13. DataKept
  BY <1>1, <1>4, <1>12 DEF DataKept, DataTyped
<1> QED BY <1>1, <1>6, <1>7, <1>11, <1>13, TransactionKeeps

(* PromotePair never moves the assignment to an older capture.             *)
LEMMA PromotePairKeeps ==
  ASSUME PairInvariant, NEW w \in Workers, PromotePair(w)
  PROVE  PairInvariant' /\ EvidenceKept
<1> DEFINE p == worker[w].pair
           outcome == PromoteOutcome(p)
           promotes == outcome = "ok" /\ Below(p, "PROMOTED")
           members == [r \in Resources |-> Lifted(log[p][r], "PROMOTED", worker[w].opAt)]
<1>1. /\ worker[w].pc \notin {"idle", "envelope"}
      /\ log' = IF promotes THEN Rewrite(p, members) ELSE log
      /\ fact' = IF promotes THEN Assigned(p) ELSE fact
      /\ claims' = IF promotes THEN claims \cup {Claim(p)} ELSE claims
      /\ Advance(w, outcome, "finish")
      /\ UNCHANGED <<clock, source, reserved, plan, observed, issues, bundle, faults>>
  BY DEF PromotePair
<1> HIDE DEF outcome, promotes
<1>2. p \in Pairs
  BY <1>1, HeldPair
<1>3. Continues(p, members)
  BY <1>1, HeldPair, LiftedMembers DEF Stages
<1> HIDE DEF members
<1>4. Written(p)
  BY <1>1, <1>3 DEF Written
<1>5. worker' \in [Workers -> Memories] /\ WorkersHoldPairs'
  BY <1>1, <1>4, AdvanceKeepsPair DEF PCs
<1>6. DataTyped
  BY DEF PairInvariant, TypeOK, DataTyped
<1>7. /\ source[p].captured \in 0..MaxInstant
      /\ source[p].gameweek \in Nat
      /\ source[p].reading \in Nat
  BY <1>2, SourceType DEF PairInvariant
<1>8. /\ Assigned(p) \in [gameweek : Nat, at : -1..MaxInstant, by : Pairs \cup {NoPair}]
      /\ fact.at <= Assigned(p).at
  BY <1>2, <1>6, <1>7, BoundsAssumption DEF DataTyped, Assigned
<1>9. Claim(p) \in [at : 0..MaxInstant, reading : Nat]
  BY <1>7 DEF Claim
<1>10. DataTyped'
  BY <1>1, <1>6, <1>8, <1>9 DEF DataTyped
<1>11. DataKept
  BY <1>1, <1>6, <1>8 DEF DataKept, DataTyped
<1> QED BY <1>1, <1>4, <1>5, <1>10, <1>11, TransactionKeeps

(* A history of a started pair, as the recording transactions find it.     *)
LEMMA MemberHistory ==
  ASSUME PairInvariant, NEW p \in Pairs, Started(p), NEW r \in Resources
  PROVE  log[p][r] \in Seq(Events) /\ log[p][r] # <<>>
BY DEF PairInvariant, TypeOK, Started

(* FinishPair lifts both members to QUALITY_PASSED and USABLE together.    *)
LEMMA FinishPairKeeps ==
  ASSUME PairInvariant, NEW w \in Workers, FinishPair(w)
  PROVE  PairInvariant' /\ EvidenceKept
<1> DEFINE p == worker[w].pair
           at == worker[w].opAt
           outcome == FinishOutcome(p)
           closes == outcome = "ok"
           members == [r \in Resources |->
                         Lifted(Lifted(log[p][r], "QUALITY_PASSED", at), "USABLE", at)]
           inTime == \A r \in Resources : UsableAt(members[r]) < source[p].cutoff
<1>1. /\ worker[w].pc \notin {"idle", "envelope"}
      /\ log' = IF closes THEN Rewrite(p, members) ELSE log
      /\ claims' = IF closes THEN claims \cup {Claim(p)} ELSE claims
      /\ observed' = IF closes THEN observed \cup {p} ELSE observed
      /\ bundle' = IF closes /\ inTime THEN bundle \cup {p} ELSE bundle
      /\ issues' = IF closes /\ ~inTime
                   THEN [issues EXCEPT ![p] = @ \cup {"POST_CUTOFF"}] ELSE issues
      /\ Advance(w, outcome, "idle")
      /\ UNCHANGED <<clock, source, reserved, plan, fact, faults>>
  BY DEF FinishPair
<1> HIDE DEF outcome, inTime
<1>2. /\ p \in Pairs
      /\ Started(p)
      /\ at \in 0..MaxInstant
  BY <1>1, HeldPair
<1>3. ASSUME NEW r \in Resources
      PROVE  Extends(members[r], log[p][r])
  <2> DEFINE once == Lifted(log[p][r], "QUALITY_PASSED", at)
  <2>1. log[p][r] \in Seq(Events) /\ log[p][r] # <<>>
    BY <1>2, MemberHistory
  <2>2. Extends(once, log[p][r])
    BY <1>2, <2>1, LiftedExtends DEF PairInvariant, Stages
  <2> HIDE DEF once
  <2>3. Extends(Lifted(once, "USABLE", at), once)
    BY <1>2, <2>2, LiftedExtends DEF PairInvariant, Stages, Extends
  <2>4. Extends(Lifted(once, "USABLE", at), log[p][r])
    BY <2>1, <2>2, <2>3, ExtendsTransitive
  <2> QED BY <2>4 DEF once
<1>4. members["bootstrap"] = members["fixtures"]
  BY <1>2 DEF PairInvariant, MembersAgree, Resources
<1>5. members \in [Resources -> Seq(Events)]
  BY <1>3 DEF Extends
<1> HIDE DEF members
<1>6. Continues(p, members)
  BY <1>3, <1>4, <1>5 DEF Continues
<1>7. Written(p)
  BY <1>1, <1>6 DEF Written
<1>8. worker' \in [Workers -> Memories] /\ WorkersHoldPairs'
  BY <1>1, <1>7, AdvanceKeepsPair DEF PCs
<1>9. DataTyped
  BY DEF PairInvariant, TypeOK, DataTyped
<1>10. Claim(p) \in [at : 0..MaxInstant, reading : Nat]
  BY <1>2, SourceType DEF PairInvariant, Claim
<1>11. issues' \in [Pairs -> SUBSET {"QUARANTINE", "POST_CUTOFF"}]
  BY <1>1, <1>9 DEF DataTyped
<1>12. DataTyped'
  BY <1>1, <1>2, <1>9, <1>10, <1>11 DEF DataTyped
<1>13. DataKept
  BY <1>1, <1>9 DEF DataKept, DataTyped
<1> QED BY <1>1, <1>7, <1>8, <1>12, <1>13, TransactionKeeps

(* QuarantinePair records the escape once, for the members not settled.    *)
LEMMA QuarantinePairKeeps ==
  ASSUME PairInvariant, NEW w \in Workers, QuarantinePair(w)
  PROVE  PairInvariant' /\ EvidenceKept
<1> DEFINE p == worker[w].pair
           at == worker[w].opAt
           outcome == QuarantineOutcome(p)
           writes == outcome = "ok" /\ \E r \in Resources : ~Settled(log[p][r])
           members == [r \in Resources |->
                         IF Settled(log[p][r]) THEN log[p][r]
                         ELSE Recording(log[p][r], "QUARANTINED", at)]
<1>1. /\ worker[w].pc \notin {"idle", "envelope"}
      /\ log' = IF writes THEN Rewrite(p, members) ELSE log
      /\ issues' = IF writes THEN [issues EXCEPT ![p] = @ \cup {"QUARANTINE"}] ELSE issues
      /\ Advance(w, outcome, "idle")
      /\ UNCHANGED <<clock, source, reserved, plan, fact, claims, observed, bundle, faults>>
  BY DEF QuarantinePair
<1> HIDE DEF outcome, writes
<1>2. /\ p \in Pairs
      /\ Started(p)
      /\ at \in 0..MaxInstant
  BY <1>1, HeldPair
<1>3. \A r \in Resources : Extends(members[r], log[p][r])
  BY <1>2, MemberHistory, ExtendsItself, RecordingExtends DEF PairInvariant, Stages, Escapes
<1>4. members["bootstrap"] = members["fixtures"]
  BY <1>2 DEF PairInvariant, MembersAgree, Resources
<1>5. members \in [Resources -> Seq(Events)]
  BY <1>3 DEF Extends
<1> HIDE DEF members
<1>6. Written(p)
  BY <1>1, <1>3, <1>4, <1>5 DEF Written, Continues
<1>7. worker' \in [Workers -> Memories] /\ WorkersHoldPairs'
  BY <1>1, <1>6, AdvanceKeepsPair DEF PCs
<1>8. DataTyped
  BY DEF PairInvariant, TypeOK, DataTyped
<1>9. issues' \in [Pairs -> SUBSET {"QUARANTINE", "POST_CUTOFF"}]
  BY <1>1, <1>8 DEF DataTyped
<1>10. DataTyped' /\ DataKept
  BY <1>1, <1>8, <1>9 DEF DataTyped, DataKept
<1> QED BY <1>1, <1>6, <1>7, <1>10, TransactionKeeps

(* RecordRetryableFailure appends the failure to both members or to none.  *)
LEMMA RecordRetryableFailureKeeps ==
  ASSUME PairInvariant, NEW w \in Workers, RecordRetryableFailure(w)
  PROVE  PairInvariant' /\ EvidenceKept
<1> DEFINE p == worker[w].pair
           at == worker[w].opAt
           members == [r \in Resources |-> Recording(log[p][r], "FAILED_RETRYABLE", at)]
<1>1. /\ worker[w].pc \notin {"idle", "envelope"}
      /\ log' = log \/ log' = Rewrite(p, members)
      /\ Advance(w, "ok", "idle")
      /\ UNCHANGED <<clock, source, faults>> /\ UNCHANGED data
  BY DEF RecordRetryableFailure, data
<1>2. /\ p \in Pairs
      /\ Started(p)
      /\ at \in 0..MaxInstant
  BY <1>1, HeldPair
<1>3. \A r \in Resources : Extends(members[r], log[p][r])
  BY <1>2, MemberHistory, RecordingExtends DEF PairInvariant, Stages, Escapes
<1>4. members["bootstrap"] = members["fixtures"]
  BY <1>2 DEF PairInvariant, MembersAgree, Resources
<1>5. members \in [Resources -> Seq(Events)]
  BY <1>3 DEF Extends
<1> HIDE DEF members
<1>6. Written(p)
  BY <1>1, <1>3, <1>4, <1>5 DEF Written, Continues
<1>7. worker' \in [Workers -> Memories] /\ WorkersHoldPairs'
  BY <1>1, <1>6, AdvanceKeepsPair DEF PCs
<1>8. DataTyped' /\ DataKept
  BY <1>1, DataUnchanged DEF PairInvariant, TypeOK
<1> QED BY <1>1, <1>6, <1>7, <1>8, TransactionKeeps

(* ValidateManual records PARSED, VALIDATED and REJECTED together.         *)
LEMMA ValidateManualKeeps ==
  ASSUME PairInvariant, NEW w \in Workers, ValidateManual(w)
  PROVE  PairInvariant' /\ EvidenceKept
<1> DEFINE p == worker[w].pair
           at == worker[w].opAt
           already == \A r \in Resources : Current(log[p][r]) = "REJECTED"
           outcome == IF already \/ ManualAccepted(p) THEN "ok" ELSE "abort"
           members == [r \in Resources |->
                         Recording(Lifted(Lifted(log[p][r], "PARSED", at), "VALIDATED", at),
                                   "REJECTED", at)]
<1>1. /\ worker[w].pc \notin {"idle", "envelope"}
      /\ log' = log \/ log' = Rewrite(p, members)
      /\ Advance(w, outcome, "idle")
      /\ UNCHANGED <<clock, source, faults>> /\ UNCHANGED data
  BY DEF ValidateManual, data
<1> HIDE DEF outcome
<1>2. /\ p \in Pairs
      /\ Started(p)
      /\ at \in 0..MaxInstant
  BY <1>1, HeldPair
<1>3. ASSUME NEW r \in Resources
      PROVE  Extends(members[r], log[p][r])
  <2> DEFINE once == Lifted(log[p][r], "PARSED", at)
             twice == Lifted(once, "VALIDATED", at)
  <2>1. log[p][r] \in Seq(Events) /\ log[p][r] # <<>>
    BY <1>2, MemberHistory
  <2>2. Extends(once, log[p][r])
    BY <1>2, <2>1, LiftedExtends DEF PairInvariant, Stages
  <2> HIDE DEF once
  <2>3. Extends(twice, once)
    BY <1>2, <2>2, LiftedExtends DEF PairInvariant, Stages, Extends
  <2> HIDE DEF twice
  <2>4. Extends(Recording(twice, "REJECTED", at), twice)
    BY <1>2, <2>3, RecordingExtends DEF PairInvariant, Stages, Escapes, Extends
  <2>5. Extends(twice, log[p][r])
    BY <2>1, <2>2, <2>3, ExtendsTransitive
  <2>6. Extends(Recording(twice, "REJECTED", at), log[p][r])
    BY <2>1, <2>4, <2>5, ExtendsTransitive
  <2> QED BY <2>6 DEF twice, once
<1>4. members["bootstrap"] = members["fixtures"]
  BY <1>2 DEF PairInvariant, MembersAgree, Resources
<1>5. members \in [Resources -> Seq(Events)]
  BY <1>3 DEF Extends
<1> HIDE DEF members
<1>6. Written(p)
  BY <1>1, <1>3, <1>4, <1>5 DEF Written, Continues
<1>7. worker' \in [Workers -> Memories] /\ WorkersHoldPairs'
  BY <1>1, <1>6, AdvanceKeepsPair DEF PCs
<1>8. DataTyped' /\ DataKept
  BY <1>1, DataUnchanged DEF PairInvariant, TypeOK
<1> QED BY <1>1, <1>6, <1>7, <1>8, TransactionKeeps

(* RecordPermanentFailure appends the end to the members not yet ended.    *)
LEMMA RecordPermanentFailureKeeps ==
  ASSUME PairInvariant, NEW w \in Workers, RecordPermanentFailure(w)
  PROVE  PairInvariant' /\ EvidenceKept
<1> DEFINE p == worker[w].pair
           at == worker[w].opAt
           Skipped(s) == Current(s) \in {"REJECTED", "FAILED_PERMANENT"}
           members == [r \in Resources |->
                         IF Skipped(log[p][r]) THEN log[p][r]
                         ELSE Recording(log[p][r], "FAILED_PERMANENT", at)]
<1>1. /\ worker[w].pc \notin {"idle", "envelope"}
      /\ log' = log \/ log' = Rewrite(p, members)
      /\ Advance(w, "ok", "idle")
      /\ UNCHANGED <<clock, source, faults>> /\ UNCHANGED data
  BY DEF RecordPermanentFailure, data
<1>2. /\ p \in Pairs
      /\ Started(p)
      /\ at \in 0..MaxInstant
  BY <1>1, HeldPair
<1>3. \A r \in Resources : Extends(members[r], log[p][r])
  BY <1>2, MemberHistory, ExtendsItself, RecordingExtends DEF PairInvariant, Stages, Escapes
<1>4. members["bootstrap"] = members["fixtures"]
  BY <1>2 DEF PairInvariant, MembersAgree, Resources
<1>5. members \in [Resources -> Seq(Events)]
  BY <1>3 DEF Extends
<1> HIDE DEF members
<1>6. Written(p)
  BY <1>1, <1>3, <1>4, <1>5 DEF Written, Continues
<1>7. worker' \in [Workers -> Memories] /\ WorkersHoldPairs'
  BY <1>1, <1>6, AdvanceKeepsPair DEF PCs
<1>8. DataTyped' /\ DataKept
  BY <1>1, DataUnchanged DEF PairInvariant, TypeOK
<1> QED BY <1>1, <1>6, <1>7, <1>8, TransactionKeeps

-----------------------------------------------------------------------------
(* Calls that start, fail or stop; time.                                   *)

(* A step that writes no row keeps the invariant and the evidence if what  *)
(* it leaves in the memory of the workers does.                            *)
LEMMA NothingWritten ==
  ASSUME PairInvariant,
         worker' \in [Workers -> Memories] /\ WorkersHoldPairs',
         clock' \in 0..MaxClock, faults' \in 0..MaxFaults,
         UNCHANGED <<source, log>>, UNCHANGED data
  PROVE  PairInvariant' /\ EvidenceKept
<1>1. DataTyped' /\ DataKept
  BY DataUnchanged
<1>2. TypeOK' /\ MembersAgree'
  BY <1>1 DEF PairInvariant, TypeOK, DataTyped, MembersAgree
<1>3. \A p \in Pairs, r \in Resources : IsPrefixOf(log[p][r], log'[p][r])
  BY DEF PairInvariant, TypeOK, IsPrefixOf
<1> QED BY <1>1, <1>2, <1>3 DEF PairInvariant, EvidenceKept, DataKept

(* A worker that becomes idle, or takes up a started pair, without a write *)
(* takes no pair from another worker.                                      *)
LEMMA MemoryKept ==
  ASSUME PairInvariant, UNCHANGED log, NEW w \in Workers, NEW m \in Memories,
         worker' = [worker EXCEPT ![w] = m],
         \/ m = Idle
         \/ /\ m.pair \in Pairs
            /\ m.pc \notin {"idle", "envelope"}
            /\ Started(m.pair)
  PROVE  worker' \in [Workers -> Memories] /\ WorkersHoldPairs'
<1>1. worker \in [Workers -> Memories] /\ WorkersHoldPairs
  BY DEF PairInvariant, TypeOK
<1>2. worker' \in [Workers -> Memories]
  BY <1>1
<1>3. ASSUME NEW v \in Workers
      PROVE  WorkerHoldsPair(v)'
  <2>1. CASE v = w
    <3>1. worker'[v] = m
      BY <2>1, <1>1
    <3> QED BY <3>1 DEF WorkerHoldsPair, Started
  <2>2. CASE v # w
    <3>1. worker'[v] = worker[v]
      BY <2>2, <1>1
    <3>2. WorkerHoldsPair(v)
      BY <1>1 DEF WorkersHoldPairs
    <3>3. CASE worker[v].pc # "envelope"
      BY <3>1, <3>2, <3>3 DEF WorkerHoldsPair, Started
    <3>4. CASE worker[v].pc = "envelope"
      <4>1. /\ worker[v].pair \in Pairs
            /\ \A r \in Resources : log[worker[v].pair][r] = <<>>
            /\ \A u \in Workers \ {v} : worker[u].pair # worker[v].pair
        BY <3>2, <3>4 DEF WorkerHoldsPair, Idle
      <4>2. m.pair # worker[v].pair
        BY <4>1, NoPairAssumption DEF Idle, Started, Resources
      <4>3. \A u \in Workers : worker'[u] = IF u = w THEN m ELSE worker[u]
        BY <1>1
      <4> QED BY <3>1, <3>4, <4>1, <4>2, <4>3 DEF WorkerHoldsPair
    <3> QED BY <3>3, <3>4
  <2> QED BY <2>1, <2>2
<1> QED BY <1>2, <1>3 DEF WorkersHoldPairs

(* An import takes a pair that nobody holds and that is not stored.        *)
LEMMA BeginImportKeeps ==
  ASSUME PairInvariant, NEW w \in Workers, NEW p \in Pairs, BeginImport(w, p)
  PROVE  PairInvariant' /\ EvidenceKept
<1> DEFINE m == Memory("envelope", p, TRUE)
<1>1. /\ worker[w] = Idle
      /\ ~Started(p)
      /\ \A v \in Workers : worker[v].pair # p
      /\ worker' = [worker EXCEPT ![w] = m]
      /\ UNCHANGED <<clock, faults>> /\ UNCHANGED <<source, log>> /\ UNCHANGED data
  BY DEF BeginImport, data
<1>2. worker \in [Workers -> Memories] /\ WorkersHoldPairs
  BY DEF PairInvariant, TypeOK
<1>3. /\ m \in Memories
      /\ m.pair = p
      /\ m.pc = "envelope"
  <2>1. OperationTime(p) \in 0..MaxInstant
    BY OperationTimeType DEF PairInvariant
  <2> QED BY <2>1 DEF Memory, Memories, PCs, ManualAttempts
<1> HIDE DEF m
<1>4. \A u \in Workers : worker'[u] = IF u = w THEN m ELSE worker[u]
  BY <1>1, <1>2
<1>5. \A r \in Resources : log[p][r] = <<>>
  BY <1>1 DEF PairInvariant, MembersAgree, Started, Resources
<1>6. ASSUME NEW v \in Workers
      PROVE  WorkerHoldsPair(v)'
  <2>1. CASE v = w
    BY <2>1, <1>1, <1>3, <1>4, <1>5 DEF WorkerHoldsPair
  <2>2. CASE v # w
    <3>1. WorkerHoldsPair(v)
      BY <1>2 DEF WorkersHoldPairs
    <3> QED BY <2>2, <3>1, <1>1, <1>3, <1>4 DEF WorkerHoldsPair, Started
  <2> QED BY <2>1, <2>2
<1>7. worker' \in [Workers -> Memories] /\ WorkersHoldPairs'
  BY <1>1, <1>2, <1>3, <1>6 DEF WorkersHoldPairs
<1> QED BY <1>1, <1>7, NothingWritten DEF PairInvariant, TypeOK

(* A resume, whether its first transaction fails or not, takes a started   *)
(* pair.                                                                   *)
LEMMA ResumptionType ==
  ASSUME PairInvariant, NEW p \in Pairs, Resumable(p), NEW pc \in PCs \ {"idle", "envelope"}
  PROVE  /\ Resumption(p, pc) \in Memories
         /\ Resumption(p, pc).pair = p
         /\ Resumption(p, pc).pc = pc
         /\ Started(p)
<1>1. Below(p, "PARSED") \in BOOLEAN
  BY DEF Below
<1>2. OperationTime(p) \in 0..MaxInstant
  BY OperationTimeType DEF PairInvariant
<1>3. /\ Resumption(p, pc) \in Memories
      /\ Resumption(p, pc).pair = p
      /\ Resumption(p, pc).pc = pc
  BY <1>1, <1>2 DEF Resumption, Memory, Memories, ManualAttempts
<1>4. Started(p)
  BY DEF Resumable
<1> QED BY <1>3, <1>4

(* A resume that begins holds a pair that is stored.                       *)
LEMMA BeginResumeKeeps ==
  ASSUME PairInvariant, NEW w \in Workers, NEW p \in Pairs, BeginResume(w, p)
  PROVE  PairInvariant' /\ EvidenceKept
<1>1. /\ Resumable(p)
      /\ worker' = [worker EXCEPT ![w] = Resumption(p, "parse")]
      /\ UNCHANGED <<clock, faults>> /\ UNCHANGED <<source, log>> /\ UNCHANGED data
  BY DEF BeginResume, data
<1>2. /\ Resumption(p, "parse") \in Memories
      /\ Resumption(p, "parse").pair = p
      /\ Resumption(p, "parse").pc = "parse"
      /\ Started(p)
  BY <1>1, ResumptionType DEF PCs
<1>3. worker' \in [Workers -> Memories] /\ WorkersHoldPairs'
  BY <1>1, <1>2, MemoryKept
<1> QED BY <1>1, <1>3, NothingWritten DEF PairInvariant, TypeOK

(* A fault is counted up to its bound.                                     *)
LEMMA FaultType ==
  ASSUME TypeOK, Fault
  PROVE  faults' \in 0..MaxFaults
BY BoundsAssumption DEF TypeOK, Fault

(* So does one whose first transaction fails.                              *)
LEMMA ResumeFailsKeeps ==
  ASSUME PairInvariant, NEW w \in Workers, NEW p \in Pairs, ResumeFails(w, p)
  PROVE  PairInvariant' /\ EvidenceKept
<1>1. /\ Resumable(p)
      /\ Fault
      /\ worker' = [worker EXCEPT ![w] = Resumption(p, "failed")]
      /\ UNCHANGED clock /\ UNCHANGED <<source, log>> /\ UNCHANGED data
  BY DEF ResumeFails, data
<1>2. /\ Resumption(p, "failed") \in Memories
      /\ Resumption(p, "failed").pair = p
      /\ Resumption(p, "failed").pc = "failed"
      /\ Started(p)
  BY <1>1, ResumptionType DEF PCs
<1>3. worker' \in [Workers -> Memories] /\ WorkersHoldPairs'
  BY <1>1, <1>2, MemoryKept
<1> QED BY <1>1, <1>3, FaultType, NothingWritten DEF PairInvariant, TypeOK

(* A worker whose transaction fails is idle or still holds its pair.       *)
LEMMA AfterFailureType ==
  ASSUME PairInvariant, NEW w \in Workers, worker[w] # Idle
  PROVE  /\ AfterFailure(worker[w]) \in Memories
         /\ \/ AfterFailure(worker[w]) = Idle
            \/ /\ AfterFailure(worker[w]).pair \in Pairs
               /\ AfterFailure(worker[w]).pc \notin {"idle", "envelope"}
               /\ Started(AfterFailure(worker[w]).pair)
<1> DEFINE m == worker[w]
<1>1. m \in Memories
  BY DEF PairInvariant, TypeOK
<1>2. /\ m.pc # "idle"
      /\ m.pc # "envelope" => m.pair \in Pairs /\ Started(m.pair)
  BY DEF PairInvariant, WorkersHoldPairs, WorkerHoldsPair, Idle
<1>3. Idle \in Memories
  BY BoundsAssumption DEF Idle, Memories, PCs, ManualAttempts
<1> HIDE DEF m
<1>4. CASE m.pc = "manual" /\ m.tries + 1 < ManualAttempts
  <2>1. AfterFailure(m) = [m EXCEPT !.tries = @ + 1]
    BY <1>1, <1>4 DEF AfterFailure, Memories, ManualAttempts
  <2>2. [m EXCEPT !.tries = @ + 1] \in Memories
    BY <1>1, <1>4 DEF Memories, ManualAttempts
  <2> QED BY <1>1, <1>2, <1>4, <2>1, <2>2 DEF m, Memories
<1>5. CASE AfterFailure(m) = Idle
  BY <1>3, <1>5 DEF m
<1>6. CASE \E pc \in {"exhausted", "failed"} : AfterFailure(m) = [m EXCEPT !.pc = pc]
             /\ m.pc # "envelope"
  <2>1. PICK pc \in {"exhausted", "failed"} : AfterFailure(m) = [m EXCEPT !.pc = pc]
                                              /\ m.pc # "envelope"
    BY <1>6
  <2>2. [m EXCEPT !.pc = pc] \in Memories
    BY <1>1 DEF Memories, PCs
  <2> QED BY <1>1, <1>2, <2>1, <2>2 DEF m, Memories
<1>7. \/ m.pc = "manual" /\ m.tries + 1 < ManualAttempts
      \/ AfterFailure(m) = Idle
      \/ \E pc \in {"exhausted", "failed"} : AfterFailure(m) = [m EXCEPT !.pc = pc]
             /\ m.pc # "envelope"
  BY DEF AfterFailure
<1> QED BY <1>4, <1>5, <1>6, <1>7

(* A transaction that fails changes only its worker's memory.              *)
LEMMA TransactionFailsKeeps ==
  ASSUME PairInvariant, NEW w \in Workers, TransactionFails(w)
  PROVE  PairInvariant' /\ EvidenceKept
<1> DEFINE m == AfterFailure(worker[w])
<1>1. /\ worker[w] # Idle
      /\ Fault
      /\ worker' = [worker EXCEPT ![w] = AfterFailure(@)]
      /\ UNCHANGED clock /\ UNCHANGED <<source, log>> /\ UNCHANGED data
  BY DEF TransactionFails, data
<1>2. worker' = [worker EXCEPT ![w] = m]
  BY <1>1 DEF PairInvariant, TypeOK
<1>3. /\ m \in Memories
      /\ \/ m = Idle
         \/ /\ m.pair \in Pairs
            /\ m.pc \notin {"idle", "envelope"}
            /\ Started(m.pair)
  BY <1>1, AfterFailureType
<1> HIDE DEF m
<1>4. worker' \in [Workers -> Memories] /\ WorkersHoldPairs'
  BY <1>1, <1>2, <1>3, MemoryKept
<1> QED BY <1>1, <1>4, FaultType, NothingWritten DEF PairInvariant, TypeOK

(* A crash forgets the memory of one worker and nothing else.              *)
LEMMA CrashKeeps ==
  ASSUME PairInvariant, NEW w \in Workers, Crash(w)
  PROVE  PairInvariant' /\ EvidenceKept
<1>1. /\ Fault
      /\ worker' = [worker EXCEPT ![w] = Idle]
      /\ UNCHANGED clock /\ UNCHANGED <<source, log>> /\ UNCHANGED data
  BY DEF Crash, data
<1>2. Idle \in Memories
  BY BoundsAssumption DEF Idle, Memories, PCs, ManualAttempts
<1>3. worker' \in [Workers -> Memories] /\ WorkersHoldPairs'
  BY <1>1, <1>2, MemoryKept
<1> QED BY <1>1, <1>3, FaultType, NothingWritten DEF PairInvariant, TypeOK

(* Only an importer holds a pair that is not stored, so its first events   *)
(* overwrite nothing and no other worker meets a pair half begun.          *)
LEMMA CreateEnvelopesKeeps ==
  ASSUME PairInvariant, NEW w \in Workers, CreateEnvelopes(w)
  PROVE  PairInvariant' /\ EvidenceKept
<1> DEFINE p == worker[w].pair
           first == FirstEvents(p, IF Manual(p) THEN "RAW_DISCARDED" ELSE "STORED",
                                worker[w].opAt)
           outcome == IF Manual(p) /\ source[p].body # "valid" THEN "quarantine" ELSE "ok"
           next == IF Manual(p) THEN "manual" ELSE "parse"
           m == [worker[w] EXCEPT !.pc = IF outcome = "ok" THEN next ELSE "quarantine"]
           members == [r \in Resources |-> first]
<1>1. /\ worker[w].pc = "envelope"
      /\ log' = [log EXCEPT ![p] = members]
      /\ worker' = [worker EXCEPT ![w] = m]
      /\ UNCHANGED <<clock, source, faults>> /\ UNCHANGED data
  BY DEF CreateEnvelopes, Advance, data
<1>2. /\ worker \in [Workers -> Memories]
      /\ worker[w] \in Memories
      /\ log \in [Pairs -> [Resources -> Seq(Events)]]
      /\ WorkersHoldPairs
      /\ MembersAgree
  BY DEF PairInvariant, TypeOK
<1>3. /\ p \in Pairs
      /\ \A r \in Resources : log[p][r] = <<>>
      /\ \A v \in Workers \ {w} : worker[v].pair # p
  BY <1>1, <1>2 DEF WorkersHoldPairs, WorkerHoldsPair, Idle
<1>4. first \in Seq(Events) /\ first # <<>>
  <2>1. /\ source[p].captured \in 0..MaxInstant
        /\ worker[w].opAt \in 0..MaxInstant
        /\ clock \in 0..MaxClock
    BY <1>2, <1>3, SourceType DEF PairInvariant, TypeOK, Memories
  <2> QED BY <2>1 DEF FirstEvents, Events, Stages
<1>5. /\ m \in Memories
      /\ m.pair = p
      /\ m.pc \notin {"idle", "envelope"}
  BY <1>2 DEF Memories, PCs
<1> HIDE DEF first, m
<1>6. \A q \in Pairs : log'[q] = IF q = p THEN members ELSE log[q]
  BY <1>1, <1>2
<1>7. log' \in [Pairs -> [Resources -> Seq(Events)]]
  BY <1>1, <1>2, <1>4
<1>8. MembersAgree'
  BY <1>2, <1>6 DEF MembersAgree, Resources
<1>9. \A q \in Pairs, r \in Resources : IsPrefixOf(log[q][r], log'[q][r])
  <2>1. \A s \in Seq(Events) : IsPrefixOf(s, s) /\ IsPrefixOf(<<>>, s)
    BY DEF IsPrefixOf
  <2>2. \A r \in Resources : log[p][r] = <<>> /\ members[r] \in Seq(Events)
    BY <1>3, <1>4
  <2>3. ASSUME NEW q \in Pairs, NEW r \in Resources
        PROVE  IsPrefixOf(log[q][r], log'[q][r])
    <3>1. CASE q = p
      <4>1. log'[q][r] = members[r]
        BY <3>1, <1>6
      <4> QED BY <3>1, <4>1, <2>1, <2>2
    <3>2. CASE q # p
      <4>1. log'[q][r] = log[q][r] /\ log[q][r] \in Seq(Events)
        BY <3>2, <1>2, <1>6
      <4> QED BY <4>1, <2>1
    <3> QED BY <3>1, <3>2
  <2> QED BY <2>3
<1>10. \A q \in Pairs : q = p \/ Started(q) => Started(q)'
  BY <1>3, <1>4, <1>6 DEF Started
<1>11. \A u \in Workers : worker'[u] = IF u = w THEN m ELSE worker[u]
  BY <1>1, <1>2
<1>12. ASSUME NEW v \in Workers
       PROVE  WorkerHoldsPair(v)'
  <2>1. CASE v = w
    BY <2>1, <1>3, <1>5, <1>10, <1>11 DEF WorkerHoldsPair
  <2>2. CASE v # w
    <3>1. worker'[v] = worker[v] /\ WorkerHoldsPair(v)
      BY <2>2, <1>2, <1>11 DEF WorkersHoldPairs
    <3>2. CASE worker[v].pc # "envelope"
      BY <3>1, <3>2, <1>10 DEF WorkerHoldsPair
    <3>3. CASE worker[v].pc = "envelope"
      <4>1. /\ worker[v].pair \in Pairs
            /\ worker[v].pair # p
            /\ \A r \in Resources : log[worker[v].pair][r] = <<>>
            /\ \A u \in Workers \ {v} : worker[u].pair # worker[v].pair
        BY <2>2, <3>1, <3>3, <1>3 DEF WorkerHoldsPair, Idle
      <4>2. \A u \in Workers \ {v} : worker'[u].pair # worker[v].pair
        BY <4>1, <1>5, <1>11
      <4> QED BY <3>1, <3>3, <4>1, <4>2, <1>6 DEF WorkerHoldsPair
    <3> QED BY <3>2, <3>3
  <2> QED BY <2>1, <2>2
<1>13. worker' \in [Workers -> Memories] /\ WorkersHoldPairs'
  BY <1>1, <1>2, <1>5, <1>12 DEF WorkersHoldPairs
<1>14. DataTyped' /\ DataKept
  BY <1>1, DataUnchanged DEF PairInvariant, TypeOK
<1>15. TypeOK'
  BY <1>1, <1>7, <1>13, <1>14 DEF PairInvariant, TypeOK, DataTyped
<1> QED BY <1>8, <1>9, <1>13, <1>14, <1>15 DEF PairInvariant, EvidenceKept, DataKept

-----------------------------------------------------------------------------
(* The invariant and the permanence of evidence.                           *)

(* In the initial state nothing is recorded and every worker is idle.      *)
LEMMA InitKeeps ==
  ASSUME Init
  PROVE  PairInvariant
<1>1. Idle \in Memories
  BY BoundsAssumption DEF Idle, Memories, PCs, ManualAttempts
<1>2. log \in [Pairs -> [Resources -> Seq(Events)]]
  BY DEF Init
<1>3. TypeOK
  BY <1>1, <1>2, BoundsAssumption DEF Init, TypeOK, NoFact
<1>4. WorkersHoldPairs /\ MembersAgree
  BY DEF Init, WorkersHoldPairs, WorkerHoldsPair, MembersAgree, Resources
<1> QED BY <1>3, <1>4 DEF PairInvariant

(* Every step of every worker, every fault and every tick of the clock     *)
(* keeps the invariant and the evidence.                                   *)
LEMMA StepKeeps ==
  ASSUME PairInvariant, [Next]_vars
  PROVE  PairInvariant' /\ EvidenceKept
<1>1. CASE \E w \in Workers, p \in Pairs :
             BeginImport(w, p) \/ BeginResume(w, p) \/ ResumeFails(w, p)
  BY <1>1, BeginImportKeeps, BeginResumeKeeps, ResumeFailsKeeps
<1>2. ASSUME NEW w \in Workers, Step(w)
      PROVE  PairInvariant' /\ EvidenceKept
  BY <1>2, CreateEnvelopesKeeps, ParsePairKeeps, ValidatePairKeeps, MapPairKeeps,
     PromotePairKeeps, FinishPairKeeps, QuarantinePairKeeps,
     RecordRetryableFailureKeeps, ValidateManualKeeps, RecordPermanentFailureKeeps
     DEF Step
<1>3. ASSUME NEW w \in Workers, TransactionFails(w) \/ Crash(w)
      PROVE  PairInvariant' /\ EvidenceKept
  BY <1>3, TransactionFailsKeeps, CrashKeeps
<1>4. CASE UNCHANGED <<source, log, worker, faults>> /\ UNCHANGED data
           /\ clock' \in 0..MaxClock
  <2>1. worker' \in [Workers -> Memories] /\ WorkersHoldPairs'
    BY <1>4 DEF PairInvariant, TypeOK, WorkersHoldPairs, WorkerHoldsPair, Started
  <2> QED BY <1>4, <2>1, NothingWritten DEF PairInvariant, TypeOK
<1>5. CASE Tick
  <2>1. clock' \in 0..MaxClock
    BY <1>5, BoundsAssumption DEF Tick, PairInvariant, TypeOK
  <2> QED BY <1>4, <1>5, <2>1 DEF Tick, data
<1>6. CASE UNCHANGED vars
  BY <1>4, <1>6 DEF vars, data, PairInvariant, TypeOK
<1> QED BY <1>1, <1>2, <1>3, <1>5, <1>6 DEF Next

(* The invariant is inductive: types, what the workers may hold, and the   *)
(* agreement of the two members, for any number of pairs, workers, keys    *)
(* and faults.                                                             *)
THEOREM PairInvariantHolds == Spec => []PairInvariant
<1>1. Init => PairInvariant
  BY InitKeeps
<1>2. PairInvariant /\ [Next]_vars => PairInvariant'
  BY StepKeeps
<1> QED BY <1>1, <1>2, PTL DEF Spec

(* The members of a pair have the same history in every reachable state,   *)
(* so no resume ever meets the divergence that _pair_state rejects.        *)
THEOREM MembersAlwaysAgree == Spec => []MembersAgree
<1>1. PairInvariant => MembersAgree
  BY DEF PairInvariant
<1> QED BY <1>1, PairInvariantHolds, PTL

(* No step of any process, crashed or not, changes or drops an event, a    *)
(* reservation, a claim, an observation or a bundle that is committed, or  *)
(* moves the assignment to an older capture.                               *)
THEOREM EvidenceStays == Spec => EvidenceIsPermanent
<1>1. PairInvariant /\ [Next]_vars => [EvidenceKept]_vars
  BY StepKeeps
<1> QED BY <1>1, PairInvariantHolds, PTL DEF Spec, EvidenceIsPermanent

=============================================================================
