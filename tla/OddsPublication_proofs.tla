----------------------- MODULE OddsPublication_proofs -----------------------
(***************************************************************************)
(* Proofs about OddsPublication: PublicationInvariant and, with it, what   *)
(* as-of queries rely on (NoLookAhead, AnswersAgree, ChosenStaysEligible)  *)
(* hold for any payloads, workers, horizon and numbers of incidents, and   *)
(* only a backdated issue changes an answer that has settled.              *)
(***************************************************************************)
EXTENDS OddsPublication, TLAPS

(* What is proved together, because each part needs the others.            *)
IInv == PublicationInvariant /\ NoLookAhead /\ AnswersAgree /\ ChosenStaysEligible

(* The parts of the invariant, by what they speak about.                   *)
Types ==
  /\ now \in 0..MaxClock /\ source \in Sources
  /\ stage \in [Snapshots -> {"ABSENT", "STORED", "QUARANTINED", "FAILED_RETRYABLE",
                              "QUALITY_PASSED", "USABLE"}]
  /\ activated \in [Snapshots -> Times] /\ event \in [Snapshots -> Times]
  /\ usable \in [Snapshots -> Times]
  /\ issues \in [Snapshots -> Seq(IssueRecords)] /\ worker \in [Workers -> WorkerRecords]
  /\ locked \in [Workers -> SUBSET Snapshots]
  /\ told \in [Snapshots -> SUBSET (0..MaxClock)]
  /\ incidents \in 0..MaxIncidents /\ reads \in 0..MaxReads

Staged(s) ==
  /\ activated[s] # Unset <=> stage[s] = "USABLE"
  /\ usable[s] # Unset => activated[s] # Unset
  /\ stage[s] = "QUARANTINED" => issues[s] # <<>>
  /\ activated[s] <= now
  /\ usable[s] # Unset => usable[s] >= activated[s] /\ usable[s] >= source[s].captured
  /\ told[s] \subseteq {usable[s]}

Holds(w) ==
  LET m == worker[w] IN
    /\ Importing(w) =>
         /\ m.snapshot \in Snapshots /\ m.at \in 0..MaxClock
         /\ stage[m.snapshot] = StageOf(m)
    /\ m.pc \in {"activated", "repair", "sampled"} =>
         m.snapshot \in Snapshots /\ activated[m.snapshot] # Unset
    /\ m.pc = "sampled" =>
         m.at \in 0..now /\ m.at >= activated[m.snapshot] /\ m.at >= source[m.snapshot].captured
    /\ m.pc \in {"rows", "persist"} => \A s \in m.rows : usable[s] # Unset
    /\ m.pc = "persist" => locked[w] = m.rows /\ m.chosen \in m.rows \cup {0}

Alone(v, w) ==
  Importing(v) /\ Importing(w) /\ v # w => worker[v].snapshot # worker[w].snapshot

Fresh(w) ==
  Does(w, "persist") /\ worker[w].chosen # 0 => Eligible(worker[w].chosen, worker[w].at)

(* IInv is these parts for every snapshot and worker.                      *)
LEMMA Parts ==
  IInv <=> /\ Types
           /\ \A s \in Snapshots : Staged(s)
           /\ \A w \in Workers : Holds(w) /\ Fresh(w)
           /\ \A v, w \in Workers : Alone(v, w)
<1>1. ASSUME Types
      PROVE /\ \A w \in Workers : worker[w].rows \subseteq Snapshots
  BY <1>1 DEF Types, WorkerRecords
<1>2. ASSUME IInv PROVE Types
  BY <1>2 DEF IInv, PublicationInvariant, TypeOK, Types
<1>3. ASSUME IInv PROVE \A s \in Snapshots : Staged(s)
  BY <1>3 DEF IInv, PublicationInvariant, TypeOK, Staged, WorkersHoldTheirGround, NoLookAhead,
     AnswersAgree, Batches, Attested
<1>4. ASSUME IInv PROVE \A w \in Workers : Holds(w)
  BY <1>4 DEF IInv, PublicationInvariant, WorkersHoldTheirGround, Holds, Batches, Attested
<1>5. ASSUME IInv PROVE /\ \A w \in Workers : Fresh(w)
                        /\ \A v, w \in Workers : Alone(v, w)
  BY <1>5 DEF IInv, PublicationInvariant, WorkersHoldTheirGround, ChosenStaysEligible, Fresh, Alone
<1>6. ASSUME Types, \A s \in Snapshots : Staged(s), \A w \in Workers : Holds(w) /\ Fresh(w),
             \A v, w \in Workers : Alone(v, w)
      PROVE IInv
  <2>1. TypeOK
    BY <1>6 DEF TypeOK, Types, Staged, Batches, Attested
  <2>2. WorkersHoldTheirGround
    <3>1. \A s \in Snapshots : activated[s] <= now
      BY <1>6 DEF Staged
    <3>2. ASSUME NEW w \in Workers, worker[w].pc \in {"rows", "persist"}
          PROVE  worker[w].rows \subseteq Attested
      BY <1>1, <1>6, <3>2 DEF Holds, Attested
    <3> QED BY <1>6, <3>1, <3>2 DEF WorkersHoldTheirGround, Holds, Alone, Batches
  <2>3. NoLookAhead /\ AnswersAgree
    BY <1>6 DEF NoLookAhead, AnswersAgree, Staged, Attested
  <2>4. ChosenStaysEligible
    BY <1>6 DEF ChosenStaysEligible, Fresh
  <2> QED BY <2>1, <2>2, <2>3, <2>4 DEF IInv, PublicationInvariant
<1> QED BY <1>2, <1>3, <1>4, <1>5, <1>6

(* The same after a step.                                                  *)
LEMMA PartsNext ==
  (/\ Types
   /\ \A s \in Snapshots : Staged(s)
   /\ \A w \in Workers : Holds(w) /\ Fresh(w)
   /\ \A v, w \in Workers : Alone(v, w))' => IInv'
BY Parts, PTL

-----------------------------------------------------------------------------
(* Steps that change the memory of one worker and nothing that is stored.  *)

(* What the description of a payload promises.                             *)
LEMMA SourceType ==
  ASSUME Types, NEW s \in Snapshots
  PROVE  source[s].captured \in 0..MaxClock /\ source[s].processing \in Unset..MaxClock
BY SourceAssumption DEF Types, SourceRecords

(* A worker that takes up m, which agrees with what is stored and does not *)
(* begin to import another snapshot, keeps the invariant.                  *)
LEMMA MemoryKeeps ==
  ASSUME IInv, NEW w \in Workers, NEW m \in WorkerRecords, NEW held \in SUBSET Snapshots,
         worker' = [worker EXCEPT ![w] = m], locked' = [locked EXCEPT ![w] = held],
         UNCHANGED <<world, stage, book, issues>>,
         told' \in [Snapshots -> SUBSET (0..MaxClock)],
         \A s \in Snapshots : told'[s] \subseteq {usable[s]},
         incidents' \in 0..MaxIncidents, reads' \in 0..MaxReads,
         Holds(w)', Fresh(w)',
         Importing(w)' => Importing(w) /\ m.snapshot = worker[w].snapshot
  PROVE  IInv'
<1>1. /\ Types
      /\ \A s \in Snapshots : Staged(s)
      /\ \A v \in Workers : Holds(v) /\ Fresh(v)
      /\ \A u, v \in Workers : Alone(u, v)
  BY Parts
<1>2. worker'[w] = m /\ \A v \in Workers : v # w => worker'[v] = worker[v] /\ locked'[v] = locked[v]
  BY <1>1 DEF Types
<1>3. Types'
  BY <1>1 DEF Types, world, book
<1>4. \A s \in Snapshots : Staged(s)'
  BY <1>1 DEF Staged, world, book, Open
<1>5. ASSUME NEW v \in Workers, v # w PROVE Holds(v)' /\ Fresh(v)'
  <2>1. Holds(v)'
    BY <1>1, <1>2, <1>5 DEF Holds, Importing, world, book
  <2>2. Fresh(v)'
    BY <1>1, <1>2, <1>5 DEF Fresh, Does, Eligible, Blocking, world, book
  <2> QED BY <2>1, <2>2
<1>6. \A u, v \in Workers : Alone(u, v)'
  BY <1>1, <1>2 DEF Alone, Importing
<1>7. \A v \in Workers : Holds(v)' /\ Fresh(v)'
  BY <1>5
<1> QED BY <1>3, <1>4, <1>6, <1>7, PartsNext

(* A worker that returns keeps the invariant.                              *)
LEMMA ReturnKeeps ==
  ASSUME IInv, NEW w \in Workers, Returns(w),
         NEW held \in SUBSET Snapshots, locked' = [locked EXCEPT ![w] = held],
         UNCHANGED <<world, stage, book, issues>>,
         told' \in [Snapshots -> SUBSET (0..MaxClock)],
         \A s \in Snapshots : told'[s] \subseteq {usable[s]},
         incidents' \in 0..MaxIncidents, reads' \in 0..MaxReads
  PROVE  IInv'
<1>1. Idle \in WorkerRecords
  BY BoundAssumption DEF Idle, WorkerRecords, Times, Unset
<1>2. worker' = [worker EXCEPT ![w] = Idle] /\ worker'[w] = Idle
  BY Parts DEF Returns, Types
<1>3. Holds(w)' /\ Fresh(w)' /\ ~Importing(w)'
  BY <1>2 DEF Holds, Fresh, Does, Importing, Idle
<1> QED BY <1>1, <1>2, <1>3, MemoryKeeps

(* Nothing that is held or reported changes.                               *)
LEMMA Unlocked ==
  ASSUME IInv, NEW w \in Workers, UNCHANGED <<locked, told>>
  PROVE  /\ locked' = [locked EXCEPT ![w] = locked[w]] /\ locked[w] \in SUBSET Snapshots
         /\ told' \in [Snapshots -> SUBSET (0..MaxClock)]
         /\ \A s \in Snapshots : told'[s] \subseteq {usable[s]}
BY Parts DEF Types, Staged

(* A promotion that was rolled back is about to record its failure.        *)
LEMMA LockTimesOutKeeps ==
  ASSUME IInv, NEW w \in Workers, LockTimesOut(w)
  PROVE  IInv'
<1> DEFINE m == [worker[w] EXCEPT !.pc = "retryable"]
<1>1. Types /\ Holds(w)
  BY Parts
<1>2. m \in WorkerRecords
  <2>1. worker[w] \in WorkerRecords
    BY <1>1 DEF Types
  <2> QED BY <2>1 DEF WorkerRecords
<1>3. worker' = [worker EXCEPT ![w] = m] /\ worker'[w] = m
  BY <1>1 DEF LockTimesOut, Goes, Types
<1>4. Holds(w)' /\ Fresh(w)'
  BY <1>1, <1>3 DEF Holds, Fresh, Does, Importing, LockTimesOut, StageOf, world, book, Types,
     WorkerRecords
<1>5. Importing(w) /\ m.snapshot = worker[w].snapshot
  BY DEF LockTimesOut, Importing, Does
<1>6. incidents' \in 0..MaxIncidents /\ reads' \in 0..MaxReads
  BY <1>1, BoundAssumption DEF LockTimesOut, Incident, Types
<1>7. UNCHANGED <<world, stage, book, issues, locked, told>>
  BY DEF LockTimesOut
<1> HIDE DEF m
<1> QED BY <1>2, <1>3, <1>4, <1>5, <1>6, <1>7, Unlocked, MemoryKeeps

(* An activation that was rolled back is about to quarantine.              *)
LEMMA ActivationConflictsKeeps ==
  ASSUME IInv, NEW w \in Workers, ActivationConflicts(w)
  PROVE  IInv'
<1> DEFINE m == [worker[w] EXCEPT !.pc = "conflicted"]
<1>1. Types /\ Holds(w)
  BY Parts
<1>2. m \in WorkerRecords
  <2>1. worker[w] \in WorkerRecords
    BY <1>1 DEF Types
  <2> QED BY <2>1 DEF WorkerRecords
<1>3. worker' = [worker EXCEPT ![w] = m] /\ worker'[w] = m
  BY <1>1 DEF ActivationConflicts, Goes, Types
<1>4. Holds(w)' /\ Fresh(w)'
  BY <1>1, <1>3 DEF Holds, Fresh, Does, Importing, ActivationConflicts, StageOf, world, book, Types,
     WorkerRecords
<1>5. Importing(w) /\ m.snapshot = worker[w].snapshot
  BY DEF ActivationConflicts, Importing, Does
<1>6. incidents' \in 0..MaxIncidents /\ reads' \in 0..MaxReads
  BY <1>1 DEF ActivationConflicts, bounds, Types
<1>7. UNCHANGED <<world, stage, book, issues, locked, told>>
  BY DEF ActivationConflicts
<1> HIDE DEF m
<1> QED BY <1>2, <1>3, <1>4, <1>5, <1>6, <1>7, Unlocked, MemoryKeeps

(* A failed attestation leaves what is stored alone.                       *)
LEMMA AttestFailsKeeps ==
  ASSUME IInv, NEW w \in Workers, AttestFails(w)
  PROVE  IInv'
<1>1. incidents' \in 0..MaxIncidents /\ reads' \in 0..MaxReads
  BY Parts, BoundAssumption DEF AttestFails, Incident, Types
<1> QED BY <1>1, Unlocked, ReturnKeeps DEF AttestFails

(* A crash ends the call and releases its locks.                           *)
LEMMA CrashKeeps ==
  ASSUME IInv, NEW w \in Workers, Crash(w)
  PROVE  IInv'
<1>1. incidents' \in 0..MaxIncidents /\ reads' \in 0..MaxReads
  BY Parts, BoundAssumption DEF Crash, Incident, Types
<1>2. /\ told' \in [Snapshots -> SUBSET (0..MaxClock)]
      /\ \A s \in Snapshots : told'[s] \subseteq {usable[s]}
  BY Parts DEF Crash, Types, Staged
<1>3. {} \in SUBSET Snapshots
  OBVIOUS
<1> QED BY <1>1, <1>2, <1>3, ReturnKeeps DEF Crash

(* A refused activation reaches the caller and changes nothing.            *)
LEMMA ActivationRefusedKeeps ==
  ASSUME IInv, NEW w \in Workers, ActivationRefused(w)
  PROVE  IInv'
<1>1. incidents' \in 0..MaxIncidents /\ reads' \in 0..MaxReads
  BY Parts DEF ActivationRefused, bounds, Types
<1> QED BY <1>1, Unlocked, ReturnKeeps DEF ActivationRefused

(* A normalisation that commits releases its locks.                        *)
LEMMA PersistRunKeeps ==
  ASSUME IInv, NEW w \in Workers, PersistRun(w)
  PROVE  IInv'
<1>1. incidents' \in 0..MaxIncidents /\ reads' \in 0..MaxReads
  BY Parts DEF PersistRun, bounds, Types
<1>2. /\ told' \in [Snapshots -> SUBSET (0..MaxClock)]
      /\ \A s \in Snapshots : told'[s] \subseteq {usable[s]}
  BY Parts DEF PersistRun, Types, Staged
<1>3. {} \in SUBSET Snapshots
  OBVIOUS
<1> QED BY <1>1, <1>2, <1>3, ReturnKeeps DEF PersistRun

(* A sample that is not refused is neither in the future nor behind what   *)
(* it attests.                                                             *)
LEMMA SampleClockKeeps ==
  ASSUME IInv, NEW w \in Workers, SampleClock(w)
  PROVE  IInv'
<1> DEFINE s == worker[w].snapshot
           m == [worker[w] EXCEPT !.pc = "sampled", !.at = now]
<1>1. /\ Types /\ Holds(w) /\ s \in Snapshots /\ activated[s] # Unset /\ Staged(s)
  BY Parts DEF SampleClock, Holds
<1>2. incidents' \in 0..MaxIncidents /\ reads' \in 0..MaxReads
  BY <1>1 DEF SampleClock, bounds, Types
<1>3. UNCHANGED <<world, stage, book, issues, locked, told>>
  BY DEF SampleClock
<1>4. CASE Returns(w)
  BY <1>2, <1>3, <1>4, Unlocked, ReturnKeeps
<1>5. CASE ~Regressed(s, now) /\ worker' = [worker EXCEPT ![w] = m]
  <2>0. worker[w] \in WorkerRecords /\ now \in Times
    BY <1>1, BoundAssumption DEF Types, Times, Unset
  <2>1. m \in WorkerRecords
    BY <2>0 DEF WorkerRecords
  <2>2. worker'[w] = m
    BY <1>1, <1>5 DEF Types
  <2>3. m.at = now /\ m.pc = "sampled" /\ m.snapshot = s
    BY <1>1 DEF Types, WorkerRecords
  <2>4. /\ now \in 0..now /\ now >= activated[s] /\ now >= source[s].captured
    BY <1>1, <1>5, SourceType DEF Types, Staged, Regressed, Times, Unset
  <2>5. Holds(w)' /\ Fresh(w)' /\ ~Importing(w)'
    BY <1>1, <1>3, <2>2, <2>3, <2>4 DEF Holds, Fresh, Does, Importing, world, book
  <2> HIDE DEF m
  <2> QED BY <1>2, <1>3, <1>5, <2>1, <2>5, Unlocked, MemoryKeeps
<1> QED BY <1>4, <1>5 DEF SampleClock, SampleOf

(* A repair reports the attestation that stands, or sets out to attest.    *)
LEMMA BeginRepairKeeps ==
  ASSUME IInv, NEW w \in Workers, NEW s \in Snapshots, BeginRepair(w, s)
  PROVE  IInv'
<1> DEFINE m == [Idle EXCEPT !.pc = "repair", !.snapshot = s]
<1>1. Types /\ Holds(w) /\ Fresh(w) /\ activated[s] # Unset /\ \A r \in Snapshots : Staged(r)
  BY Parts DEF BeginRepair, Repairable, Batches
<1>2. incidents' \in 0..MaxIncidents /\ reads' \in 0..MaxReads
  BY <1>1 DEF BeginRepair, bounds, Types
<1>3. UNCHANGED <<world, stage, book, issues, locked>>
  BY DEF BeginRepair
<1>4. CASE s \in Attested
  <2>1. told' = [told EXCEPT ![s] = @ \cup {usable[s]}] /\ worker' = worker
    BY <1>4 DEF BeginRepair
  <2>2. usable[s] \in 0..MaxClock
    BY <1>1, <1>4 DEF Types, Attested, Times, Unset
  <2>3. /\ told' \in [Snapshots -> SUBSET (0..MaxClock)]
        /\ \A r \in Snapshots : told'[r] \subseteq {usable[r]}
    BY <1>1, <2>1, <2>2 DEF Types, Staged
  <2>4. /\ worker' = [worker EXCEPT ![w] = worker[w]] /\ worker[w] \in WorkerRecords
        /\ locked' = [locked EXCEPT ![w] = locked[w]] /\ locked[w] \in SUBSET Snapshots
    BY <1>1, <1>3, <2>1 DEF Types
  <2>5. Holds(w)' /\ Fresh(w)'
    BY <1>1, <1>3, <2>1 DEF Holds, Fresh, Does, Importing, Eligible, Blocking, world, book
  <2>6. Importing(w)' => Importing(w)
    BY <2>1 DEF Importing
  <2> QED BY <1>2, <1>3, <2>3, <2>4, <2>5, <2>6, MemoryKeeps
<1>5. CASE s \notin Attested
  <2>1. worker' = [worker EXCEPT ![w] = m] /\ told' = told
    BY <1>5 DEF BeginRepair
  <2>0. 0 \in Times
    BY BoundAssumption DEF Times, Unset
  <2>2. m \in WorkerRecords /\ m.pc = "repair" /\ m.snapshot = s
    BY <2>0 DEF Idle, WorkerRecords
  <2>3. worker'[w] = m
    BY <1>1, <2>1 DEF Types
  <2>4. Holds(w)' /\ Fresh(w)' /\ ~Importing(w)'
    BY <1>1, <1>3, <2>2, <2>3 DEF Holds, Fresh, Does, Importing, book
  <2> HIDE DEF m
  <2> QED BY <1>2, <1>3, <2>1, <2>2, <2>4, Unlocked, MemoryKeeps
<1> QED BY <1>4, <1>5

(* Rows are attested when they are read, and the choice is made from them. *)
LEMMA ReadRowsKeeps ==
  ASSUME IInv, NEW w \in Workers, NEW c \in AsOfTimes, ReadRows(w, c)
  PROVE  IInv'
<1> DEFINE m == [Idle EXCEPT !.pc = "rows", !.at = c, !.rows = Visible(c)]
<1>1. Types
  BY Parts
<1>2. incidents' \in 0..MaxIncidents /\ reads' \in 0..MaxReads
  BY <1>1, BoundAssumption DEF ReadRows, Types
<1>3. UNCHANGED <<world, stage, book, issues, locked, told>>
  BY DEF ReadRows
<1>4. c \in Times /\ Visible(c) \subseteq Snapshots /\ \A s \in Visible(c) : usable[s] # Unset
  BY BoundAssumption DEF Times, Unset, Visible, Batches, Attested
<1>5. m \in WorkerRecords /\ m.pc = "rows" /\ m.rows = Visible(c)
  BY <1>4 DEF Idle, WorkerRecords
<1>6. worker' = [worker EXCEPT ![w] = m] /\ worker'[w] = m
  BY <1>1 DEF ReadRows, Types
<1> HIDE DEF m
<1>7. Holds(w)' /\ Fresh(w)' /\ ~Importing(w)'
  BY <1>3, <1>4, <1>5, <1>6 DEF Holds, Fresh, Does, Importing, book
<1> QED BY <1>2, <1>3, <1>5, <1>6, <1>7, Unlocked, MemoryKeeps

(* What is chosen among rows is an eligible one of them, or none.          *)
LEMMA FirstIsEligible ==
  ASSUME NEW rows, NEW c
  PROVE  LET first == FirstEligible(rows, c) IN
           first # 0 => first \in rows /\ Eligible(first, c)
BY DEF FirstEligible, MostRecent

(* The choice is made under the locks of its rows.                         *)
LEMMA AssessKeeps ==
  ASSUME IInv, NEW w \in Workers, Assess(w)
  PROVE  IInv'
<1> DEFINE rows == worker[w].rows
           first == FirstEligible(rows, worker[w].at)
           m == [worker[w] EXCEPT !.pc = "persist", !.chosen = first]
<1>1. /\ Types /\ rows \subseteq Snapshots /\ worker[w] \in WorkerRecords
      /\ \A s \in rows : usable[s] # Unset
  BY Parts DEF Types, Holds, Assess, Does, WorkerRecords
<1>2. first # 0 => first \in rows /\ Eligible(first, worker[w].at)
  BY FirstIsEligible
<1>3. /\ m \in WorkerRecords /\ m.pc = "persist" /\ m.chosen = first
      /\ m.rows = rows /\ m.at = worker[w].at
  BY <1>1, <1>2 DEF WorkerRecords
<1>4. incidents' \in 0..MaxIncidents /\ reads' \in 0..MaxReads
  BY <1>1 DEF Assess, bounds, Types
<1>5. /\ UNCHANGED <<world, stage, book, issues, told>>
      /\ worker' = [worker EXCEPT ![w] = m] /\ locked' = [locked EXCEPT ![w] = rows]
  BY DEF Assess, LocksOf
<1>6. /\ told' \in [Snapshots -> SUBSET (0..MaxClock)]
      /\ \A s \in Snapshots : told'[s] \subseteq {usable[s]}
  BY <1>5, Parts DEF Types, Staged
<1>7. worker'[w] = m /\ locked'[w] = rows
  BY <1>1, <1>5 DEF Types
<1> HIDE DEF m, first
<1>8. Holds(w)' /\ ~Importing(w)'
  BY <1>1, <1>2, <1>3, <1>5, <1>7 DEF Holds, Importing, book
<1>9. Fresh(w)'
  BY <1>2, <1>3, <1>5, <1>7 DEF Fresh, Does, Eligible, Blocking, world
<1> QED BY <1>1, <1>3, <1>4, <1>5, <1>6, <1>8, <1>9, MemoryKeeps

-----------------------------------------------------------------------------
(* Steps of an import that move the stage of its snapshot.                 *)

StageNames == {"ABSENT", "STORED", "QUARANTINED", "FAILED_RETRYABLE", "QUALITY_PASSED", "USABLE"}

(* Nobody else imports a snapshot that w imports, or that is absent.       *)
LEMMA NobodyElse ==
  ASSUME IInv, NEW w \in Workers, NEW s \in Snapshots,
         stage[s] = "ABSENT" \/ (Importing(w) /\ worker[w].snapshot = s)
  PROVE  \A v \in Workers : v # w /\ Importing(v) => worker[v].snapshot # s
<1>1. CASE stage[s] = "ABSENT"
  BY <1>1, Parts DEF Holds, StageOf
<1>2. CASE Importing(w) /\ worker[w].snapshot = s
  BY <1>2, Parts DEF Alone
<1> QED BY <1>1, <1>2

(* A step of w's import of s: it moves s, which is not usable yet, to the  *)
(* stage t, leaves it with the issues i and may make it a batch.           *)
ImportStep(w, s, m, t, i, a, e) ==
  /\ m \in WorkerRecords /\ t \in StageNames /\ i \in Seq(IssueRecords)
  /\ a \in Times /\ e \in Times
  /\ stage[s] = "ABSENT" \/ (Importing(w) /\ worker[w].snapshot = s)
  /\ stage' = [stage EXCEPT ![s] = t] /\ worker' = [worker EXCEPT ![w] = m]
  /\ issues' = [issues EXCEPT ![s] = i]
  /\ activated' = [activated EXCEPT ![s] = a] /\ event' = [event EXCEPT ![s] = e]
  /\ UNCHANGED <<world, usable, locked, told, bounds>>
  /\ stage[s] # "USABLE" /\ (a # Unset <=> t = "USABLE") /\ a <= now
  /\ t = "QUARANTINED" => i # <<>>
  /\ Holds(w)' /\ ~Does(w, "persist")' /\ (Importing(w)' => m.snapshot = s)

(* Such a step keeps the invariant.                                        *)
LEMMA ImportKeeps ==
  ASSUME IInv, NEW w \in Workers, NEW s \in Snapshots, NEW m, NEW t, NEW i, NEW a, NEW e,
         ImportStep(w, s, m, t, i, a, e)
  PROVE  IInv'
<1> USE DEF ImportStep
<1>1. /\ Types
      /\ \A r \in Snapshots : Staged(r)
      /\ \A v \in Workers : Holds(v) /\ Fresh(v)
      /\ \A u, v \in Workers : Alone(u, v)
  BY Parts
<1>2. worker'[w] = m /\ \A v \in Workers : v # w => worker'[v] = worker[v]
  BY <1>1 DEF Types
<1>3. /\ stage'[s] = t /\ issues'[s] = i /\ activated'[s] = a
      /\ \A r \in Snapshots : r # s =>
           stage'[r] = stage[r] /\ issues'[r] = issues[r] /\ activated'[r] = activated[r]
  BY <1>1 DEF Types
<1>4. \A v \in Workers : v # w /\ Importing(v) => worker[v].snapshot # s
  BY NobodyElse
<1>5. activated[s] = Unset /\ usable[s] = Unset
  BY <1>1 DEF Staged
<1>6. Types'
  BY <1>1 DEF Types, StageNames, world, bounds
<1>7. ASSUME NEW r \in Snapshots PROVE Staged(r)'
  <2>1. CASE r = s
    BY <1>1, <1>3, <1>5, <2>1 DEF Staged, world
  <2>2. CASE r # s
    BY <1>1, <1>3, <2>2 DEF Staged, world
  <2> QED BY <2>1, <2>2
<1>8. ASSUME NEW v \in Workers PROVE Holds(v)' /\ Fresh(v)'
  <2>1. CASE v = w
    BY <2>1 DEF Fresh
  <2>2. CASE v # w
    <3>1. CASE Importing(v)
      <4>1. /\ worker[v].snapshot \in Snapshots /\ worker[v].snapshot # s
            /\ stage'[worker[v].snapshot] = stage[worker[v].snapshot]
        BY <1>1, <1>3, <1>4, <2>2, <3>1 DEF Holds
      <4> QED BY <1>1, <1>2, <2>2, <3>1, <4>1 DEF Holds, Importing, Fresh, Does
    <3>2. CASE ~Importing(v)
      <4>1. worker'[v] = worker[v] /\ ~Importing(v)'
        BY <1>2, <2>2, <3>2 DEF Importing
      <4>2. \A r \in Snapshots : activated[r] # Unset => activated'[r] = activated[r]
        BY <1>3, <1>5
      <4>3. \A r \in worker[v].rows : worker[v].pc \in {"rows", "persist"} => r # s
        BY <1>1, <1>5 DEF Holds
      <4>4. Holds(v)'
        BY <1>1, <3>2, <4>1, <4>2 DEF Holds, world
      <4>5. Fresh(v)'
        <5>1. SUFFICES ASSUME Does(v, "persist"), worker[v].chosen # 0
                       PROVE  Eligible(worker[v].chosen, worker[v].at)'
          BY <4>1 DEF Fresh, Does
        <5>2. /\ worker[v].chosen \in Snapshots /\ worker[v].chosen # s
              /\ Eligible(worker[v].chosen, worker[v].at)
          BY <1>1, <4>3, <5>1 DEF Holds, Fresh, Does, Types, WorkerRecords
        <5> QED BY <1>3, <4>1, <5>2 DEF Eligible, Blocking, world
      <4> QED BY <4>4, <4>5
    <3> QED BY <3>1, <3>2
  <2> QED BY <2>1, <2>2
<1>9. \A u, v \in Workers : Alone(u, v)'
  BY <1>1, <1>2, <1>4 DEF Alone, Importing
<1> QED BY <1>6, <1>7, <1>8, <1>9, PartsNext

(* The issues and the batch of a snapshot are what they are.               *)
LEMMA Untouched ==
  ASSUME Types, NEW s \in Snapshots
  PROVE  /\ issues = [issues EXCEPT ![s] = issues[s]] /\ issues[s] \in Seq(IssueRecords)
         /\ activated = [activated EXCEPT ![s] = activated[s]] /\ activated[s] \in Times
         /\ event = [event EXCEPT ![s] = event[s]] /\ event[s] \in Times
BY DEF Types

(* An import begins with a snapshot that nobody has stored.               *)
LEMMA BeginImportKeeps ==
  ASSUME IInv, NEW w \in Workers, NEW s \in Snapshots, BeginImport(w, s)
  PROVE  IInv'
<1> DEFINE at == ProcessingTime(s)
           m == [Idle EXCEPT !.pc = "stored", !.snapshot = s, !.at = at]
<1>1. Types /\ Staged(s)
  BY Parts
<1>2. at \in 0..MaxClock /\ at \in Times
  <2>1. source[s].processing \in Unset..MaxClock /\ now \in 0..MaxClock
    BY <1>1, SourceType DEF Types
  <2> QED BY <2>1, BoundAssumption DEF ProcessingTime, Times, Unset
<1>3. m \in WorkerRecords /\ m.pc = "stored" /\ m.snapshot = s /\ m.at = at
  BY <1>2 DEF Idle, WorkerRecords
<1>4. /\ worker' = [worker EXCEPT ![w] = m] /\ stage' = [stage EXCEPT ![s] = "STORED"]
      /\ UNCHANGED <<world, book, issues, locked, told, bounds>> /\ stage[s] = "ABSENT"
  BY DEF BeginImport, Stands
<1>5. worker'[w] = m /\ stage'[s] = "STORED"
  BY <1>1, <1>4 DEF Types
<1> HIDE DEF m, at
<1>6. Holds(w)' /\ ~Does(w, "persist")'
  BY <1>2, <1>3, <1>5 DEF Holds, Does, Importing, StageOf
<1>7. activated[s] = Unset /\ activated[s] <= now /\ "STORED" \in StageNames
  BY <1>1, <1>4 DEF Staged, StageNames
<1>8. UNCHANGED <<activated, event, usable, issues>>
  BY <1>4 DEF book
<1>10. ImportStep(w, s, m, "STORED", issues[s], activated[s], event[s])
  BY <1>1, <1>3, <1>4, <1>6, <1>7, <1>8, Untouched DEF ImportStep
<1> QED BY <1>1, <1>10, ImportKeeps

(* A quarantined snapshot has an issue that says why.                      *)
LEMMA QuarantineKeeps ==
  ASSUME IInv, NEW w \in Workers, Quarantine(w)
  PROVE  IInv'
<1> DEFINE s == worker[w].snapshot
           i == Append(issues[s], [detected |-> worker[w].at, resolved |-> Unset])
<1>1. /\ Types /\ Importing(w) /\ s \in Snapshots /\ Staged(s)
      /\ stage[s] \in {"STORED", "QUALITY_PASSED"} /\ worker[w].at \in 0..MaxClock
  BY Parts DEF Holds, Importing, Quarantine, Does, StageOf
<1>2. i \in Seq(IssueRecords) /\ i # <<>>
  <2>1. issues[s] \in Seq(IssueRecords) /\ Unset \in Times
    BY <1>1, BoundAssumption DEF Types, Times, Unset
  <2> QED BY <1>1, <2>1 DEF IssueRecords
<1>3. /\ worker' = [worker EXCEPT ![w] = Idle] /\ stage' = [stage EXCEPT ![s] = "QUARANTINED"]
      /\ issues' = [issues EXCEPT ![s] = i]
      /\ UNCHANGED <<world, activated, event, usable, locked, told, bounds>>
  BY DEF Quarantine, Stands, Returns, Raised, book
<1>4. Idle \in WorkerRecords
  BY BoundAssumption DEF Idle, WorkerRecords, Times, Unset
<1>5. Holds(w)' /\ ~Does(w, "persist")' /\ ~Importing(w)'
  BY <1>1, <1>3 DEF Holds, Does, Importing, Idle, Types
<1>6. activated[s] = Unset /\ activated[s] <= now /\ "QUARANTINED" \in StageNames
  BY <1>1 DEF Staged, StageNames
<1> HIDE DEF s, i
<1>9. worker[w].snapshot = s
  BY DEF s
<1>10. ImportStep(w, s, Idle, "QUARANTINED", i, activated[s], event[s])
  BY <1>1, <1>2, <1>3, <1>4, <1>5, <1>6, <1>9, Untouched DEF ImportStep
<1> QED BY <1>1, <1>10, ImportKeeps

(* A prepared snapshot has passed its checks.                             *)
LEMMA PrepareKeeps ==
  ASSUME IInv, NEW w \in Workers, Prepare(w)
  PROVE  IInv'
<1> DEFINE s == worker[w].snapshot
           m == [worker[w] EXCEPT !.pc = "prepared"]
<1>1. /\ Types /\ Importing(w) /\ s \in Snapshots /\ Staged(s) /\ stage[s] = "STORED"
      /\ worker[w].at \in 0..MaxClock /\ worker[w] \in WorkerRecords
  BY Parts DEF Holds, Importing, Prepare, Does, Types, StageOf
<1>2. m \in WorkerRecords /\ m.pc = "prepared" /\ m.snapshot = s /\ m.at = worker[w].at
  BY <1>1 DEF WorkerRecords
<1>3. /\ worker' = [worker EXCEPT ![w] = m] /\ stage' = [stage EXCEPT ![s] = "QUALITY_PASSED"]
      /\ UNCHANGED <<world, activated, event, usable, issues, locked, told, bounds>>
  BY DEF Prepare, Stands, Goes, book
<1>4. worker'[w] = m /\ stage'[s] = "QUALITY_PASSED"
  BY <1>1, <1>3 DEF Types
<1>5. activated[s] = Unset /\ activated[s] <= now /\ "QUALITY_PASSED" \in StageNames
  BY <1>1 DEF Staged, StageNames
<1> HIDE DEF s, m
<1>6. Holds(w)' /\ ~Does(w, "persist")'
  BY <1>1, <1>2, <1>4 DEF Holds, Does, Importing, StageOf
<1>9. worker[w].snapshot = s
  BY DEF s
<1>10. ImportStep(w, s, m, "QUALITY_PASSED", issues[s], activated[s], event[s])
  BY <1>1, <1>2, <1>3, <1>5, <1>6, <1>9, Untouched DEF ImportStep
<1> QED BY <1>1, <1>10, ImportKeeps

(* A retryable failure ends the import.                                   *)
LEMMA RecordRetryableFailureKeeps ==
  ASSUME IInv, NEW w \in Workers, RecordRetryableFailure(w)
  PROVE  IInv'
<1> DEFINE s == worker[w].snapshot
<1>1. /\ Types /\ Importing(w) /\ s \in Snapshots /\ Staged(s) /\ stage[s] = "STORED"
  BY Parts DEF Holds, Importing, RecordRetryableFailure, Does, StageOf
<1>2. /\ worker' = [worker EXCEPT ![w] = Idle]
      /\ stage' = [stage EXCEPT ![s] = "FAILED_RETRYABLE"]
      /\ UNCHANGED <<world, activated, event, usable, issues, locked, told, bounds>>
  BY DEF RecordRetryableFailure, Stands, Returns, book
<1>3. Idle \in WorkerRecords
  BY BoundAssumption DEF Idle, WorkerRecords, Times, Unset
<1>4. Holds(w)' /\ ~Does(w, "persist")' /\ ~Importing(w)'
  BY <1>1, <1>2 DEF Holds, Does, Importing, Idle, Types
<1>5. activated[s] = Unset /\ activated[s] <= now /\ "FAILED_RETRYABLE" \in StageNames
  BY <1>1 DEF Staged, StageNames
<1> HIDE DEF s
<1>9. worker[w].snapshot = s
  BY DEF s
<1>10. ImportStep(w, s, Idle, "FAILED_RETRYABLE", issues[s], activated[s], event[s])
  BY <1>1, <1>2, <1>3, <1>4, <1>5, <1>9, Untouched DEF ImportStep
<1> QED BY <1>1, <1>10, ImportKeeps

(* Activation makes the snapshot a batch, at the time of the commit.      *)
LEMMA ActivateKeeps ==
  ASSUME IInv, NEW w \in Workers, Activate(w)
  PROVE  IInv'
<1> DEFINE s == worker[w].snapshot
           m == [worker[w] EXCEPT !.pc = "activated"]
<1>1. /\ Types /\ Importing(w) /\ s \in Snapshots /\ stage[s] = "QUALITY_PASSED"
      /\ worker[w].at \in 0..MaxClock /\ worker[w] \in WorkerRecords
  BY Parts DEF Holds, Importing, Activate, Does, Types, StageOf
<1>2. m \in WorkerRecords /\ m.pc = "activated" /\ m.snapshot = s
  BY <1>1 DEF WorkerRecords
<1>3. /\ worker' = [worker EXCEPT ![w] = m] /\ stage' = [stage EXCEPT ![s] = "USABLE"]
      /\ activated' = [activated EXCEPT ![s] = now]
      /\ event' = [event EXCEPT ![s] = worker[w].at]
      /\ UNCHANGED <<world, usable, issues, locked, told, bounds>>
  BY DEF Activate, Stands, Goes
<1>4. /\ now \in Times /\ now # Unset /\ now <= now /\ worker[w].at \in Times
      /\ "USABLE" \in StageNames
  BY <1>1, BoundAssumption DEF Types, Times, Unset, StageNames
<1>5. worker'[w] = m /\ activated'[s] = now
  BY <1>1, <1>3 DEF Types
<1> HIDE DEF s, m
<1>6. Holds(w)' /\ ~Does(w, "persist")' /\ ~Importing(w)'
  BY <1>1, <1>2, <1>4, <1>5 DEF Holds, Does, Importing
<1>9. worker[w].snapshot = s
  BY DEF s
<1>10. ImportStep(w, s, m, "USABLE", issues[s], now, worker[w].at)
  BY <1>1, <1>2, <1>3, <1>4, <1>6, <1>9, Untouched DEF ImportStep
<1> QED BY <1>1, <1>10, ImportKeeps

-----------------------------------------------------------------------------
(* Attestations, issues and the clock.                                     *)

(* Whoever attests second is told what the first has written.              *)
LEMMA AttestKeeps ==
  ASSUME IInv, NEW w \in Workers, Attest(w)
  PROVE  IInv'
<1> DEFINE s == worker[w].snapshot
           t == worker[w].at
<1>1. /\ Types
      /\ \A r \in Snapshots : Staged(r)
      /\ \A v \in Workers : Holds(v) /\ Fresh(v)
      /\ \A u, v \in Workers : Alone(u, v)
  BY Parts
<1>2. /\ s \in Snapshots /\ activated[s] # Unset
      /\ t \in 0..now /\ t >= activated[s] /\ t >= source[s].captured
  BY <1>1 DEF Attest, Does, Holds
<1>3. t \in 0..MaxClock /\ t # Unset
  BY <1>1, <1>2, BoundAssumption DEF Types, Unset
<1>4. /\ usable' = IF s \in Attested THEN usable ELSE [usable EXCEPT ![s] = t]
      /\ told' = [told EXCEPT ![s] = @ \cup {AttestedTime(s, t)}]
      /\ worker' = [worker EXCEPT ![w] = Idle]
      /\ UNCHANGED <<world, stage, activated, event, issues, locked, bounds>>
  BY DEF Attest, Returns
<1> HIDE DEF s, t
<1>5. /\ usable' \in [Snapshots -> Times]
      /\ \A r \in Snapshots : r # s => usable'[r] = usable[r]
      /\ usable'[s] = AttestedTime(s, t) /\ usable'[s] \in 0..MaxClock
      /\ usable[s] # Unset => usable'[s] = usable[s]
      /\ usable[s] = Unset => usable'[s] = t
  BY <1>1, <1>2, <1>3, <1>4 DEF Types, Attested, AttestedTime, Times, Unset
<1>6. Idle \in WorkerRecords
  BY BoundAssumption DEF Idle, WorkerRecords, Times, Unset
<1>7. Types'
  <2>1. told' \in [Snapshots -> SUBSET (0..MaxClock)]
    BY <1>1, <1>2, <1>4, <1>5 DEF Types
  <2> QED BY <1>1, <1>4, <1>5, <1>6, <2>1 DEF Types, world, bounds
<1>8. ASSUME NEW r \in Snapshots PROVE Staged(r)'
  <2>1. CASE r # s
    BY <1>1, <1>4, <1>5, <2>1 DEF Staged, world, Types
  <2>2. CASE r = s
    <3>1. told'[s] \subseteq {usable'[s]}
      <4>1. told'[s] = told[s] \cup {usable'[s]}
        BY <1>1, <1>2, <1>4, <1>5 DEF Types
      <4>2. told[s] \subseteq {usable[s]} /\ told[s] \subseteq 0..MaxClock
        BY <1>1, <1>2 DEF Types, Staged
      <4>3. CASE usable[s] = Unset
        <5>1. told[s] = {}
          BY <4>2, <4>3, BoundAssumption DEF Unset
        <5> QED BY <4>1, <5>1
      <4>4. CASE usable[s] # Unset
        BY <1>5, <4>1, <4>2, <4>4
      <4> QED BY <4>3, <4>4
    <3>2. usable'[s] >= activated[s] /\ usable'[s] >= source[s].captured
      BY <1>1, <1>2, <1>5 DEF Staged
    <3> QED BY <1>1, <1>2, <1>4, <2>2, <3>1, <3>2 DEF Staged, world
  <2> QED BY <2>1, <2>2
<1>9. ASSUME NEW v \in Workers PROVE Holds(v)' /\ Fresh(v)'
  <2>1. CASE v = w
    BY <1>1, <1>4, <2>1 DEF Holds, Fresh, Does, Importing, Idle, Types
  <2>2. CASE v # w
    <3>1. worker'[v] = worker[v] /\ \A r \in Snapshots : usable[r] # Unset => usable'[r] # Unset
      BY <1>1, <1>4, <1>5, <2>2 DEF Types
    <3>2. worker[v].rows \subseteq Snapshots
      BY <1>1 DEF Types, WorkerRecords
    <3>3. Holds(v)'
      BY <1>1, <1>4, <3>1, <3>2 DEF Holds, Importing, world
    <3>4. Fresh(v)'
      BY <1>1, <1>4, <3>1 DEF Fresh, Does, Eligible, Blocking, world
    <3> QED BY <3>3, <3>4
  <2> QED BY <2>1, <2>2
<1>10. \A u, v \in Workers : Alone(u, v)'
  BY <1>1, <1>4 DEF Alone, Importing, Idle, Types
<1> QED BY <1>7, <1>8, <1>9, <1>10, PartsNext

(* What a reviewer writes: the issues of one snapshot that nobody holds.   *)
LEMMA IssueWrites ==
  ASSUME Types, NEW s \in Snapshots, NEW t \in 0..MaxClock,
         RaiseIssue(s, t) \/ \E k \in DOMAIN issues[s] : ResolveIssue(s, k, t)
  PROVE  /\ issues' \in [Snapshots -> Seq(IssueRecords)] /\ issues'[s] # <<>>
         /\ \A r \in Snapshots : r # s => issues'[r] = issues[r]
         /\ SubjectFree(s)
         /\ UNCHANGED <<world, stage, book, worker, locked, told>>
         /\ incidents' \in 0..MaxIncidents /\ reads' \in 0..MaxReads
<1>1. t \in Times /\ Unset \in Times /\ issues[s] \in Seq(IssueRecords)
  BY BoundAssumption DEF Types, Times, Unset
<1>2. CASE RaiseIssue(s, t)
  <2>1. [detected |-> t, resolved |-> Unset] \in IssueRecords
    BY <1>1 DEF IssueRecords
  <2>2. incidents' \in 0..MaxIncidents /\ reads' \in 0..MaxReads
    BY <1>2, BoundAssumption DEF RaiseIssue, Incident, Types
  <2>3. issues' = [issues EXCEPT ![s] = Append(@, [detected |-> t, resolved |-> Unset])]
    BY <1>2 DEF RaiseIssue, Raised
  <2>4. /\ issues'[s] = Append(issues[s], [detected |-> t, resolved |-> Unset])
        /\ \A r \in Snapshots : r # s => issues'[r] = issues[r]
        /\ DOMAIN issues' = Snapshots
    BY <2>3 DEF Types
  <2>5. issues'[s] \in Seq(IssueRecords) /\ issues'[s] # <<>>
    BY <1>1, <2>1, <2>4
  <2>6. issues' \in [Snapshots -> Seq(IssueRecords)]
    BY <2>3, <2>4, <2>5 DEF Types
  <2> QED BY <1>2, <2>2, <2>4, <2>5, <2>6 DEF RaiseIssue
<1>3. ASSUME NEW k \in DOMAIN issues[s], ResolveIssue(s, k, t)
      PROVE  /\ issues' \in [Snapshots -> Seq(IssueRecords)] /\ issues'[s] # <<>>
             /\ \A r \in Snapshots : r # s => issues'[r] = issues[r]
             /\ SubjectFree(s)
             /\ UNCHANGED <<world, stage, book, worker, locked, told>>
             /\ incidents' \in 0..MaxIncidents /\ reads' \in 0..MaxReads
  <2>1. issues'[s] = [issues[s] EXCEPT ![k].resolved = t] /\ issues[s][k] \in IssueRecords
    BY <1>1, <1>3 DEF ResolveIssue, Types
  <2>2. [issues[s][k] EXCEPT !.resolved = t] \in IssueRecords
    BY <1>1, <2>1 DEF IssueRecords
  <2>3. issues'[s] \in Seq(IssueRecords) /\ issues'[s] # <<>>
    BY <1>1, <2>1, <2>2
  <2> QED BY <1>1, <1>3, <2>3 DEF ResolveIssue, Types, bounds
<1> QED BY <1>2, <1>3

(* No issue is written on a book that anybody holds.                       *)
LEMMA IssueKeeps ==
  ASSUME IInv, NEW s \in Snapshots, NEW t \in 0..MaxClock,
         RaiseIssue(s, t) \/ \E k \in DOMAIN issues[s] : ResolveIssue(s, k, t)
  PROVE  IInv'
<1>1. /\ Types
      /\ \A r \in Snapshots : Staged(r)
      /\ \A v \in Workers : Holds(v) /\ Fresh(v)
      /\ \A u, v \in Workers : Alone(u, v)
  BY Parts
<1>2. /\ issues' \in [Snapshots -> Seq(IssueRecords)] /\ issues'[s] # <<>>
      /\ \A r \in Snapshots : r # s => issues'[r] = issues[r]
      /\ SubjectFree(s)
      /\ UNCHANGED <<world, stage, book, worker, locked, told>>
      /\ incidents' \in 0..MaxIncidents /\ reads' \in 0..MaxReads
  BY <1>1, IssueWrites
<1>3. Types'
  BY <1>1, <1>2 DEF Types, world, book
<1>4. ASSUME NEW r \in Snapshots PROVE Staged(r)'
  BY <1>1, <1>2 DEF Staged, world, book
<1>5. ASSUME NEW v \in Workers PROVE Holds(v)'
  BY <1>1, <1>2 DEF Holds, Importing, world, book
<1>6. ASSUME NEW v \in Workers PROVE Fresh(v)'
  <2> DEFINE r == worker[v].chosen
  <2>1. SUFFICES ASSUME Does(v, "persist"), r # 0 PROVE Eligible(r, worker[v].at)'
    BY <1>2 DEF Fresh, Does
  <2>2. Eligible(r, worker[v].at) /\ r \in Snapshots /\ r \in locked[v]
    BY <1>1, <2>1 DEF Fresh, Holds, Does, Types, WorkerRecords
  <2>3. r # s
    BY <1>2, <2>2 DEF SubjectFree
  <2> QED BY <1>2, <2>2, <2>3 DEF Eligible, Blocking, world
<1>7. \A u, v \in Workers : Alone(u, v)'
  BY <1>1, <1>2 DEF Alone, Importing
<1> QED BY <1>3, <1>4, <1>5, <1>6, <1>7, PartsNext

(* The clock only moves on; nothing changes in a stuttering step.          *)
LEMMA TickKeeps ==
  ASSUME IInv, Tick \/ UNCHANGED vars
  PROVE  IInv'
<1>1. /\ Types
      /\ \A r \in Snapshots : Staged(r)
      /\ \A v \in Workers : Holds(v) /\ Fresh(v)
      /\ \A u, v \in Workers : Alone(u, v)
  BY Parts
<1>2. /\ UNCHANGED <<source, stage, book, issues, worker, locked, told, bounds>>
      /\ now' \in 0..MaxClock /\ now <= now'
  BY <1>1, BoundAssumption DEF Tick, vars, world, Types
<1>3. Types'
  BY <1>1, <1>2 DEF Types, book, bounds
<1>4. ASSUME NEW r \in Snapshots PROVE Staged(r)'
  BY <1>1, <1>2, BoundAssumption DEF Staged, book, Types, Times, Unset
<1>5. ASSUME NEW v \in Workers PROVE Holds(v)' /\ Fresh(v)'
  <2>1. worker[v].pc = "sampled" => worker[v].at \in 0..now'
    BY <1>1, <1>2 DEF Holds, Types
  <2>2. Holds(v)'
    BY <1>1, <1>2, <2>1 DEF Holds, Importing, book
  <2>3. Fresh(v)'
    BY <1>1, <1>2 DEF Fresh, Does, Eligible, Blocking
  <2> QED BY <2>2, <2>3
<1>6. \A u, v \in Workers : Alone(u, v)'
  BY <1>1, <1>2 DEF Alone, Importing
<1> QED BY <1>3, <1>4, <1>5, <1>6, PartsNext

-----------------------------------------------------------------------------
(* The invariants.                                                         *)

(* Nothing is stored and everybody is idle.                                *)
LEMMA InitKeeps ==
  ASSUME Init
  PROVE  IInv
<1>1. 0 \in Times /\ Unset \in Times /\ 0 # Unset /\ Unset <= 0
  BY BoundAssumption DEF Times, Unset
<1>2. Idle \in WorkerRecords
  BY <1>1 DEF Idle, WorkerRecords
<1>3. Types
  BY <1>1, <1>2, BoundAssumption DEF Init, Types
<1>4. \A s \in Snapshots : Staged(s)
  BY <1>1 DEF Init, Staged
<1>5. \A w \in Workers : Holds(w) /\ Fresh(w) /\ ~Importing(w)
  BY DEF Init, Holds, Fresh, Does, Importing, Idle
<1>6. \A v, w \in Workers : Alone(v, w)
  BY <1>5 DEF Alone
<1> QED BY <1>3, <1>4, <1>5, <1>6, Parts

(* Every step of every worker, reviewer and the clock keeps the invariant. *)
LEMMA StepKeeps ==
  ASSUME IInv, [Next]_vars
  PROVE  IInv'
<1>1. ASSUME NEW w \in Workers, NEW s \in Snapshots, BeginImport(w, s) \/ BeginRepair(w, s)
      PROVE  IInv'
  BY <1>1, BeginImportKeeps, BeginRepairKeeps
<1>2. ASSUME NEW w \in Workers, NEW c \in AsOfTimes, ReadRows(w, c)
      PROVE  IInv'
  BY <1>2, ReadRowsKeeps
<1>3. ASSUME NEW w \in Workers, Step(w)
      PROVE  IInv'
  BY <1>3, QuarantineKeeps, PrepareKeeps, RecordRetryableFailureKeeps, ActivationRefusedKeeps,
     ActivationConflictsKeeps, ActivateKeeps, SampleClockKeeps, AttestKeeps, AssessKeeps, PersistRunKeeps DEF Step
<1>4. ASSUME NEW w \in Workers, LockTimesOut(w) \/ AttestFails(w) \/ Crash(w)
      PROVE  IInv'
  BY <1>4, LockTimesOutKeeps, AttestFailsKeeps, CrashKeeps
<1>5. ASSUME NEW s \in Snapshots, NEW t \in 0..MaxClock,
             RaiseIssue(s, t) \/ \E k \in DOMAIN issues[s] : ResolveIssue(s, k, t)
      PROVE  IInv'
  BY <1>5, IssueKeeps
<1>6. CASE Tick \/ UNCHANGED vars
  BY <1>6, TickKeeps
<1> QED BY <1>1, <1>2, <1>3, <1>4, <1>5, <1>6 DEF Next

(* The inductive invariant holds in every reachable state.                 *)
LEMMA Inductive == Spec => []IInv
<1>1. Init => IInv
  BY InitKeeps
<1>2. IInv /\ [Next]_vars => IInv'
  BY StepKeeps
<1> QED BY <1>1, <1>2, PTL DEF Spec

(* Types, the agreement of stages, batches, attestations and issues, and   *)
(* what a worker between two transactions may rely on (_promote,           *)
(* repair_publication_attestation, normalise).                             *)
THEOREM PublicationInvariantHolds == Spec => []PublicationInvariant
<1>1. IInv => PublicationInvariant
  BY DEF IInv
<1> QED BY <1>1, Inductive, PTL

(* No book is usable before the transaction that published it committed,   *)
(* whoever attests it and whatever processing time its import was given    *)
(* (attest_publication_batch).                                             *)
THEOREM NobodyLooksAhead == Spec => []NoLookAhead
<1>1. IInv => NoLookAhead
  BY DEF IInv
<1> QED BY <1>1, Inductive, PTL

(* Importers and repairers of one batch report one usable time, the one    *)
(* that as-of queries use (_promote, repair_publication_attestation).      *)
THEOREM AnswersAlwaysAgree == Spec => []AnswersAgree
<1>1. IInv => AnswersAgree
  BY DEF IInv
<1> QED BY <1>1, Inductive, PTL

(* The book that a normalisation has chosen is eligible until it commits   *)
(* (_lock_quality_subjects, guard_odds_quality_subject).                   *)
THEOREM ChoiceIsNeverStale == Spec => []ChosenStaysEligible
<1>1. IInv => ChosenStaysEligible
  BY DEF IInv
<1> QED BY <1>1, Inductive, PTL

-----------------------------------------------------------------------------
(* Answers that have settled.                                              *)

(* The choice depends on the visible rows, their times and their issues.   *)
LEMMA ChoiceKept ==
  ASSUME NEW c, source' = source, Visible(c)' = Visible(c),
         \A s \in Visible(c) : usable'[s] = usable[s] /\ (Blocking(s, c)' <=> Blocking(s, c))
  PROVE  Chosen(c)' = Chosen(c)
<1> DEFINE rows == Visible(c)
           candidates == {s \in rows : Eligible(s, c)}
<1>1. candidates' = candidates
  BY DEF Eligible
<1>2. \A s, r \in candidates : MoreRecent(s, r)' <=> MoreRecent(s, r)
  BY DEF MoreRecent
<1>3. MostRecent(Visible(c), c)' = MostRecent(Visible(c), c)
  BY <1>1, <1>2 DEF MostRecent
<1> QED BY <1>3 DEF Chosen, FirstEligible

(* An attestation is written at the time that was sampled for it, which is *)
(* later than a settled time; an issue counts from the date it is given.   *)
LEMMA SettledKept ==
  ASSUME IInv, [Next]_vars, NEW c \in 0..MaxClock, SettledAsOf(c),
         \A s \in Visible(c) : ~Backdated(s, c)
  PROVE  Chosen(c)' = Chosen(c)
<1>1. /\ Types /\ now \in Int /\ c \in Int /\ c < now
      /\ \A s \in Snapshots : Staged(s) /\ usable[s] \in Int /\ issues[s] \in Seq(IssueRecords)
      /\ \A w \in Workers : Holds(w)
  BY Parts, BoundAssumption DEF Types, Times, Unset, SettledAsOf
<1>2. Visible(c) = {s \in Snapshots : activated[s] # Unset /\ usable[s] # Unset /\ usable[s] <= c}
  BY DEF Visible, Batches, Attested
<1>3. Visible(c)' =
        {s \in Snapshots : activated'[s] # Unset /\ usable'[s] # Unset /\ usable'[s] <= c}
  BY DEF Visible, Batches, Attested
<1>4. CASE UNCHANGED <<source, book, issues>>
  BY <1>2, <1>3, <1>4, ChoiceKept DEF book, Blocking
<1>5. ASSUME NEW w \in Workers, NEW s \in Snapshots,
             BeginImport(w, s) \/ (worker[w].snapshot = s /\ (Quarantine(w) \/ Activate(w)))
      PROVE  Chosen(c)' = Chosen(c)
  <2>1. usable[s] = Unset /\ UNCHANGED <<source, usable>>
    BY <1>1, <1>5 DEF BeginImport, Quarantine, Activate, Staged, Holds, Importing, StageOf, Does,
       book, world
  <2>2. \A r \in Snapshots : r # s => activated'[r] = activated[r] /\ issues'[r] = issues[r]
    BY <1>1, <1>5 DEF BeginImport, Quarantine, Activate, Raised, Types, book
  <2> QED BY <1>2, <1>3, <2>1, <2>2, ChoiceKept DEF Blocking
<1>6. ASSUME NEW w \in Workers, Attest(w)
      PROVE  Chosen(c)' = Chosen(c)
  <2> DEFINE s == worker[w].snapshot
  <2>1. /\ s \in Snapshots /\ worker[w].at > c /\ worker[w].at \in Int
        /\ usable' = IF s \in Attested THEN usable ELSE [usable EXCEPT ![s] = worker[w].at]
        /\ UNCHANGED <<source, activated, issues>>
    BY <1>1, <1>6 DEF Attest, Holds, Does, SettledAsOf, world, Types
  <2>2. \A r \in Snapshots :
          usable'[r] = usable[r] \/ (usable[r] = Unset /\ usable'[r] = worker[w].at)
    BY <1>1, <2>1 DEF Types, Attested
  <2>3. Visible(c)' = Visible(c)
    BY <1>1, <1>2, <1>3, <2>1, <2>2
  <2>4. \A r \in Visible(c) : usable'[r] = usable[r]
    BY <1>2, <2>2
  <2> QED BY <2>1, <2>3, <2>4, ChoiceKept DEF Blocking
<1>7. ASSUME NEW s \in Snapshots, NEW t \in 0..MaxClock,
             RaiseIssue(s, t) \/ \E k \in DOMAIN issues[s] : ResolveIssue(s, k, t)
      PROVE  Chosen(c)' = Chosen(c)
  <2>1. /\ UNCHANGED <<source, book>>
        /\ \A r \in Snapshots : r # s => issues'[r] = issues[r]
    BY <1>1, <1>7, IssueWrites DEF world
  <2>2. s \in Visible(c) => (Blocking(s, c)' <=> Blocking(s, c))
    <3>1. CASE RaiseIssue(s, t)
      <4> DEFINE i == [detected |-> t, resolved |-> Unset]
                 n == Len(issues[s]) + 1
      <4>1. /\ DOMAIN issues'[s] = DOMAIN issues[s] \cup {n} /\ n \notin DOMAIN issues[s]
            /\ issues'[s][n] = i /\ \A k \in DOMAIN issues[s] : issues'[s][k] = issues[s][k]
        BY <1>1, <3>1 DEF RaiseIssue, Raised, Types
      <4>2. s \in Visible(c) => ~(t <= c)
        BY <4>1 DEF Backdated, Dated, Unresolved
      <4> QED BY <4>1, <4>2 DEF Blocking
    <3>2. ASSUME NEW n \in DOMAIN issues[s], ResolveIssue(s, n, t)
          PROVE  s \in Visible(c) => (Blocking(s, c)' <=> Blocking(s, c))
      <4>1. /\ DOMAIN issues'[s] = DOMAIN issues[s]
            /\ issues'[s][n] = [issues[s][n] EXCEPT !.resolved = t]
            /\ \A k \in DOMAIN issues[s] : k # n => issues'[s][k] = issues[s][k]
            /\ issues[s][n].resolved = Unset /\ t >= issues[s][n].detected
            /\ issues[s][n] \in IssueRecords
        BY <1>1, <3>2 DEF ResolveIssue, Unresolved, Types
      <4>2. /\ issues[s][n].detected \in Int /\ t \in Int /\ t # Unset
            /\ issues'[s][n].detected = issues[s][n].detected /\ issues'[s][n].resolved = t
        BY <4>1, BoundAssumption DEF IssueRecords, Unset
      <4>3. s \in Visible(c) => ~(t <= c)
        BY <4>1, <4>2 DEF Backdated, Dated, Unresolved
      <4> DEFINE blocks(i) == i.detected <= c /\ (Unresolved(i) \/ i.resolved > c)
      <4>4. ASSUME ~(t <= c), NEW k \in DOMAIN issues[s]
            PROVE  blocks(issues'[s][k]) <=> blocks(issues[s][k])
        <5>1. CASE k # n
          <6>1. issues'[s][k] = issues[s][k]
            BY <4>1, <5>1
          <6> QED BY <6>1
        <5>2. CASE k = n
          <6>1. t > c /\ issues[s][n].resolved = Unset
            BY <1>1, <4>1, <4>2, <4>4
          <6> QED BY <4>2, <5>2, <6>1 DEF Unresolved
        <5> QED BY <5>1, <5>2
      <4>5. ~(t <= c) => (Blocking(s, c)' <=> Blocking(s, c))
        BY <4>1, <4>4 DEF Blocking, Unresolved
      <4> QED BY <4>3, <4>5
    <3> QED BY <1>7, <3>1, <3>2
  <2>3. Visible(c)' = Visible(c)
    BY <1>2, <1>3, <2>1 DEF book
  <2>4. \A r \in Visible(c) : usable'[r] = usable[r] /\ (Blocking(r, c)' <=> Blocking(r, c))
    BY <1>2, <2>1, <2>2 DEF Blocking, book
  <2> QED BY <2>1, <2>3, <2>4, ChoiceKept
<1>8. ASSUME NEW w \in Workers,
             Prepare(w) \/ RecordRetryableFailure(w) \/ ActivationRefused(w)
             \/ ActivationConflicts(w) \/ SampleClock(w) \/ Assess(w) \/ PersistRun(w) \/ LockTimesOut(w) \/ AttestFails(w) \/ Crash(w)
      PROVE  Chosen(c)' = Chosen(c)
  <2>1. UNCHANGED <<source, book, issues>>
    BY <1>8 DEF Prepare, RecordRetryableFailure, ActivationRefused, ActivationConflicts,
       SampleClock, Assess, PersistRun, LockTimesOut, AttestFails, Crash, world
  <2> QED BY <1>4, <2>1
<1>9. CASE Tick \/ UNCHANGED vars
  <2>1. UNCHANGED <<source, book, issues>>
    BY <1>9 DEF Tick, vars, world
  <2> QED BY <1>4, <2>1
<1>10. ASSUME NEW w \in Workers, NEW s \in Snapshots, BeginRepair(w, s)
       PROVE  Chosen(c)' = Chosen(c)
  <2>1. UNCHANGED <<source, book, issues>>
    BY <1>10 DEF BeginRepair, world
  <2> QED BY <1>4, <2>1
<1>11. ASSUME NEW w \in Workers, NEW d \in AsOfTimes, ReadRows(w, d)
       PROVE  Chosen(c)' = Chosen(c)
  <2>1. UNCHANGED <<source, book, issues>>
    BY <1>11 DEF ReadRows, world
  <2> QED BY <1>4, <2>1
<1>12. ASSUME NEW w \in Workers, Step(w)
       PROVE  Chosen(c)' = Chosen(c)
  <2>1. Quarantine(w) \/ Activate(w) => worker[w].snapshot \in Snapshots
    BY <1>1 DEF Quarantine, Activate, Holds, Importing, Does
  <2> QED BY <1>5, <1>6, <1>8, <1>12, <2>1 DEF Step
<1> QED BY <1>5, <1>7, <1>8, <1>9, <1>10, <1>11, <1>12 DEF Next

(* The answer as of a time that has settled changes only by an issue of a  *)
(* book in it that is raised or resolved under a date before that time: no *)
(* import, repair or crash, and no issue of a later date, rewrites it      *)
(* (normalisation_input, _observation_rows, attest_publication_batch).     *)
THEOREM SettledReadsStand == Spec => ReadsSettle
<1>1. IInv /\ [Next]_vars =>
        [\A c \in 0..MaxClock :
           SettledAsOf(c) /\ Chosen(c)' # Chosen(c) => \E s \in Visible(c) : Backdated(s, c)]_vars
  BY SettledKept
<1> QED BY <1>1, Inductive, PTL DEF Spec, ReadsSettle

=============================================================================
