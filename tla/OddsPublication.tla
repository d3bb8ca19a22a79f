--------------------------- MODULE OddsPublication ---------------------------
(***************************************************************************)
(* How an odds snapshot becomes usable and what as-of queries see of it:   *)
(* OddsIngestionService._ingest, _promote, _quarantine and                 *)
(* repair_publication_attestation, the publication batch and attestation   *)
(* tables with their guards, and the normalisation that reads them.        *)
(*                                                                         *)
(*   - An import commits its envelope, then everything up to               *)
(*     QUALITY_PASSED, then in one activation transaction the USABLE       *)
(*     event, the publication batch and the book.                          *)
(*   - Only after that commit does it sample the clock; the sample is      *)
(*     written as the batch's usable_at in a transaction of its own.  The  *)
(*     first attestation of a batch stands; a second one is told the first.*)
(*   - A crash or an error between the two leaves a batch that no as-of    *)
(*     query sees until a repair attests it, at a newly sampled time.      *)
(*   - A normalisation reads the books attested by its as-of time, locks   *)
(*     their quality subjects, chooses the most recent eligible one and    *)
(*     persists a run; whoever writes an issue takes the same lock.        *)
(*   - The times an issue is detected and resolved are the writer's own.   *)
(*                                                                         *)
(* The snapshots carry one book each, all of one operator and fixture.     *)
(* Rights and mapping decisions are those at import time; a payload that   *)
(* does not map is a description of the snapshot.  Issues are blocking and *)
(* of one snapshot.  Processes share one clock that never goes back.       *)
(***************************************************************************)
EXTENDS Integers, Sequences

CONSTANTS
  Snapshots,     \* the payloads offered for import, numbered in uuid order
  Workers,       \* processes that import, repair and normalise
  Sources,       \* the assignments of descriptions to payloads considered
  StaleAfter,    \* age at which a book is too old to be chosen
  MaxClock,      \* bound on the clock
  AsOfTimes,     \* the times normalisations are asked for
  MaxIncidents,  \* bound on crashes, failed transactions and raised issues
  MaxReads       \* bound on normalisations

ASSUME SnapshotAssumption == Snapshots \subseteq Nat \ {0}

ASSUME BoundAssumption ==
  {StaleAfter, MaxClock, MaxIncidents, MaxReads} \subseteq Nat /\ AsOfTimes \subseteq 0..MaxClock

(* A payload is received and its prices were last updated at given times;  *)
(* an import may be given its processing time; a payload that does not     *)
(* parse or map cannot be promoted; what one that is conflicting would     *)
(* publish contradicts what is stored; an incomplete book is never chosen. *)
Unset == -1

SourceRecords ==
  [ captured : 0..MaxClock, observed : 0..MaxClock, processing : Unset..MaxClock,
    promotable : BOOLEAN, conflicting : BOOLEAN, complete : BOOLEAN ]

ASSUME SourceAssumption ==
  \A assigned \in Sources : \A s \in Snapshots :
    assigned[s] \in SourceRecords /\ assigned[s].observed <= assigned[s].captured

VARIABLES
  now,         \* the clock
  source,      \* source[s]: what s is
  stage,       \* stage[s]: its lifecycle state
  activated,   \* activated[s]: commit time of its publication batch
  event,       \* event[s]: event_at of its USABLE event
  usable,      \* usable[s]: usable_at of its attestation
  issues,      \* issues[s]: its blocking issues, as written: when detected and resolved
  worker,      \* worker[w]: what w is doing
  locked,      \* locked[w]: quality subjects w holds
  told,        \* told[s]: usable times reported to importers and repairers
  incidents,   \* crashes, failures and raised issues so far
  reads        \* normalisations begun so far

world == <<now, source>>
book == <<activated, event, usable>>
bounds == <<incidents, reads>>

vars == <<world, stage, book, issues, worker, locked, told, bounds>>

Idle == [pc |-> "idle", snapshot |-> 0, at |-> 0, rows |-> {}, chosen |-> 0]

Init ==
  /\ now = 0
  /\ source \in Sources
  /\ stage = [s \in Snapshots |-> "ABSENT"]
  /\ activated = [s \in Snapshots |-> Unset]
  /\ event = [s \in Snapshots |-> Unset]
  /\ usable = [s \in Snapshots |-> Unset]
  /\ issues = [s \in Snapshots |-> <<>>]
  /\ worker = [w \in Workers |-> Idle]
  /\ locked = [w \in Workers |-> {}]
  /\ told = [s \in Snapshots |-> {}]
  /\ incidents = 0 /\ reads = 0

Batches == {s \in Snapshots : activated[s] # Unset}
Attested == {s \in Snapshots : usable[s] # Unset}

Does(w, pc) == worker[w].pc = pc
Goes(w, pc) == worker' = [worker EXCEPT ![w].pc = pc]
Returns(w) == worker' = [worker EXCEPT ![w] = Idle]

Unresolved(i) == i.resolved = Unset

Open(s) == \E k \in DOMAIN issues[s] : Unresolved(issues[s][k])

Raised(s, t) ==
  issues' = [issues EXCEPT ![s] = Append(@, [detected |-> t, resolved |-> Unset])]

(* Who writes an issue or a book waits for the lock of its subject.        *)
SubjectFree(s) == \A w \in Workers : s \notin locked[w]

Incident == incidents < MaxIncidents /\ incidents' = incidents + 1

Stands(s, t) == stage' = [stage EXCEPT ![s] = t]

-----------------------------------------------------------------------------
(* An import.  Its processing time is fixed when it begins.                *)

ProcessingTime(s) == IF source[s].processing # Unset THEN source[s].processing ELSE now

BeginImport(w, s) ==
  /\ Does(w, "idle")
  /\ stage[s] = "ABSENT"
  /\ ProcessingTime(s) >= source[s].captured
  /\ Stands(s, "STORED")
  /\ worker' = [worker EXCEPT ![w] =
       [Idle EXCEPT !.pc = "stored", !.snapshot = s, !.at = ProcessingTime(s)]]
  /\ UNCHANGED <<world, book, issues, locked, told, bounds>>

(* The payload does not parse, or the promotion transaction meets a        *)
(* mapping error or the activation transaction a conflict and is rolled    *)
(* back: the issue and the state are recorded in a transaction of its own. *)
Quarantine(w) ==
  LET s == worker[w].snapshot IN
    /\ (Does(w, "stored") /\ ~source[s].promotable) \/ Does(w, "conflicted")
    /\ SubjectFree(s)
    /\ Raised(s, worker[w].at)
    /\ Stands(s, "QUARANTINED")
    /\ Returns(w)
    /\ UNCHANGED <<world, book, locked, told, bounds>>

Prepare(w) ==
  LET s == worker[w].snapshot IN
    /\ Does(w, "stored")
    /\ source[s].promotable
    /\ Stands(s, "QUALITY_PASSED")
    /\ Goes(w, "prepared")
    /\ UNCHANGED <<world, book, issues, locked, told, bounds>>

(* A mapping lock is not granted in time: the promotion is rolled back.    *)
LockTimesOut(w) ==
  /\ Does(w, "stored")
  /\ source[worker[w].snapshot].promotable
  /\ Incident
  /\ Goes(w, "retryable")
  /\ UNCHANGED <<world, stage, book, issues, locked, told, reads>>

RecordRetryableFailure(w) ==
  /\ Does(w, "retryable")
  /\ Stands(worker[w].snapshot, "FAILED_RETRYABLE")
  /\ Returns(w)
  /\ UNCHANGED <<world, book, issues, locked, told, bounds>>

(* The book's guard refuses a snapshot with an open blocking issue.  The   *)
(* error is not an ingestion error: it reaches the caller, and nothing     *)
(* takes the snapshot further.                                             *)
ActivationRefused(w) ==
  /\ Does(w, "prepared")
  /\ Open(worker[w].snapshot)
  /\ Returns(w)
  /\ UNCHANGED <<world, stage, book, issues, locked, told, bounds>>

(* A mapping dependency, which is compared before the guard looks at the   *)
(* issues, or the book contradicts the one that is stored.                 *)
ActivationConflicts(w) ==
  /\ Does(w, "prepared")
  /\ source[worker[w].snapshot].conflicting
  /\ Goes(w, "conflicted")
  /\ UNCHANGED <<world, stage, book, issues, locked, told, bounds>>

Activate(w) ==
  LET s == worker[w].snapshot IN
    /\ Does(w, "prepared")
    /\ ~Open(s) /\ ~source[s].conflicting
    /\ SubjectFree(s)
    /\ Stands(s, "USABLE")
    /\ activated' = [activated EXCEPT ![s] = now]
    /\ event' = [event EXCEPT ![s] = worker[w].at]
    /\ Goes(w, "activated")
    /\ UNCHANGED <<world, usable, issues, locked, told, bounds>>

-----------------------------------------------------------------------------
(* Attestation: by the importer, or by a repair of a batch without one.    *)

(* Mutation: the usable time is the one the import began with.             *)
SampleOfImport(w) == event[worker[w].snapshot]

SampleOf(w) == now

Regressed(s, t) == t < source[s].captured \/ t < event[s]

SampleClock(w) ==
  /\ worker[w].pc \in {"activated", "repair"}
  /\ IF Regressed(worker[w].snapshot, SampleOf(w))
     THEN Returns(w)
     ELSE worker' = [worker EXCEPT ![w].pc = "sampled", ![w].at = SampleOf(w)]
  /\ UNCHANGED <<world, stage, book, issues, locked, told, bounds>>

(* Mutation: the caller is told its own sample.                            *)
AttestedAnew(s, t) == t

AttestedTime(s, t) == IF s \in Attested THEN usable[s] ELSE t

(* Insert or, on conflict, read the attestation that stands.               *)
Attest(w) ==
  LET s == worker[w].snapshot
      t == worker[w].at IN
    /\ Does(w, "sampled")
    /\ usable' = IF s \in Attested THEN usable ELSE [usable EXCEPT ![s] = t]
    /\ told' = [told EXCEPT ![s] = @ \cup {AttestedTime(s, t)}]
    /\ Returns(w)
    /\ UNCHANGED <<world, stage, activated, event, issues, locked, bounds>>

AttestFails(w) ==
  /\ Does(w, "sampled")
  /\ Incident
  /\ Returns(w)
  /\ UNCHANGED <<world, stage, book, issues, locked, told, reads>>

(* Mutation: only the batches whose import still runs are repaired.        *)
RepairableInCall(s) == s \in Batches /\ \E w \in Workers : worker[w].snapshot = s

(* Mutation: a snapshot that has passed its checks is attested at once.    *)
RepairableEarly(s) == stage[s] \in {"QUALITY_PASSED", "USABLE"}

Repairable(s) == s \in Batches

BeginRepair(w, s) ==
  /\ Does(w, "idle")
  /\ Repairable(s)
  /\ IF s \in Attested
     THEN told' = [told EXCEPT ![s] = @ \cup {usable[s]}] /\ UNCHANGED worker
     ELSE /\ worker' = [worker EXCEPT ![w] = [Idle EXCEPT !.pc = "repair", !.snapshot = s]]
          /\ UNCHANGED told
  /\ UNCHANGED <<world, stage, book, issues, locked, bounds>>

-----------------------------------------------------------------------------
(* Reading as of a time.                                                   *)

Visible(c) == {s \in Batches : s \in Attested /\ usable[s] <= c}

(* Mutation: what counts is whether the issue is open today.               *)
OpenToday(s, c) ==
  \E k \in DOMAIN issues[s] : issues[s][k].detected <= c /\ Unresolved(issues[s][k])

(* An issue blocks as of c if it was known by c and not resolved by c.     *)
Blocking(s, c) ==
  \E k \in DOMAIN issues[s] :
    LET i == issues[s][k] IN i.detected <= c /\ (Unresolved(i) \/ i.resolved > c)

Eligible(s, c) ==
  /\ ~Blocking(s, c)
  /\ source[s].complete
  /\ source[s].observed <= c /\ c - source[s].observed <= StaleAfter

(* The most recent first: by usable time, then observed time, then id.     *)
MoreRecent(s, r) ==
  \/ usable[s] > usable[r]
  \/ usable[s] = usable[r] /\ source[s].observed > source[r].observed
  \/ usable[s] = usable[r] /\ source[s].observed = source[r].observed /\ s > r

MostRecent(rows, c) ==
  LET candidates == {s \in rows : Eligible(s, c)} IN
    {s \in candidates : \A r \in candidates \ {s} : MoreRecent(s, r)}

FirstEligible(rows, c) ==
  IF MostRecent(rows, c) = {} THEN 0 ELSE CHOOSE s \in MostRecent(rows, c) : TRUE

Chosen(c) == FirstEligible(Visible(c), c)

ReadRows(w, c) ==
  /\ Does(w, "idle")
  /\ reads < MaxReads /\ reads' = reads + 1
  /\ worker' = [worker EXCEPT ![w] = [Idle EXCEPT !.pc = "rows", !.at = c, !.rows = Visible(c)]]
  /\ UNCHANGED <<world, stage, book, issues, locked, told, incidents>>

(* Mutation: the eligibility is assessed without the locks.                *)
NothingLocked(w) == {}

LocksOf(w) == worker[w].rows

(* The locks are taken in uuid order, then the eligibility is read.        *)
Assess(w) ==
  LET rows == worker[w].rows IN
    /\ Does(w, "rows")
    /\ \A s \in rows : SubjectFree(s)
    /\ locked' = [locked EXCEPT ![w] = LocksOf(w)]
    /\ worker' = [worker EXCEPT ![w].pc = "persist", ![w].chosen = FirstEligible(rows, worker[w].at)]
    /\ UNCHANGED <<world, stage, book, issues, told, bounds>>

(* The run is written (nothing here reads it) and the locks end with the   *)
(* transaction.                                                            *)
PersistRun(w) ==
  /\ Does(w, "persist")
  /\ locked' = [locked EXCEPT ![w] = {}]
  /\ Returns(w)
  /\ UNCHANGED <<world, stage, book, issues, told, bounds>>

-----------------------------------------------------------------------------
(* Reviewers, time and crashes.                                            *)

(* A reviewer states when an issue was detected and when it was resolved.  *)
RaiseIssue(s, t) ==
  /\ stage[s] # "ABSENT"
  /\ Incident
  /\ SubjectFree(s)
  /\ Raised(s, t)
  /\ UNCHANGED <<world, stage, book, worker, locked, told, reads>>

ResolveIssue(s, k, t) ==
  /\ Unresolved(issues[s][k]) /\ t >= issues[s][k].detected
  /\ SubjectFree(s)
  /\ issues' = [issues EXCEPT ![s][k].resolved = t]
  /\ UNCHANGED <<world, stage, book, worker, locked, told, bounds>>

Tick ==
  /\ now < MaxClock
  /\ now' = now + 1
  /\ UNCHANGED <<source, stage, book, issues, worker, locked, told, bounds>>

Crash(w) ==
  /\ ~Does(w, "idle")
  /\ Incident
  /\ Returns(w)
  /\ locked' = [locked EXCEPT ![w] = {}]
  /\ UNCHANGED <<world, stage, book, issues, told, reads>>

Step(w) ==
  \/ Quarantine(w) \/ Prepare(w) \/ RecordRetryableFailure(w)
  \/ ActivationRefused(w) \/ ActivationConflicts(w) \/ Activate(w)
  \/ SampleClock(w) \/ Attest(w)
  \/ Assess(w) \/ PersistRun(w)

Next ==
  \/ \E w \in Workers, s \in Snapshots : BeginImport(w, s) \/ BeginRepair(w, s)
  \/ \E w \in Workers, c \in AsOfTimes : ReadRows(w, c)
  \/ \E w \in Workers : Step(w) \/ LockTimesOut(w) \/ AttestFails(w) \/ Crash(w)
  \/ \E s \in Snapshots, t \in 0..MaxClock :
       RaiseIssue(s, t) \/ \E k \in DOMAIN issues[s] : ResolveIssue(s, k, t)
  \/ Tick

Spec == Init /\ [][Next]_vars

(* An import or query runs to its end; someone asks for the repair of      *)
(* every batch again and again; time passes.                               *)
FairSpec ==
  /\ Spec
  /\ WF_vars(Tick)
  /\ \A w \in Workers : WF_vars(Step(w))
  /\ \A s \in Snapshots : SF_vars(\E w \in Workers : BeginRepair(w, s))

-----------------------------------------------------------------------------
(* Properties.                                                             *)

Times == Unset..MaxClock

IssueRecords == [detected : 0..MaxClock, resolved : Times]

WorkerRecords ==
  [ pc : {"idle", "stored", "prepared", "retryable", "conflicted", "activated", "repair",
          "sampled", "rows", "persist"},
    snapshot : Snapshots \cup {0}, at : Times, rows : SUBSET Snapshots,
    chosen : Snapshots \cup {0} ]

(* Types, and that the rows agree: a snapshot is USABLE when it has a      *)
(* publication batch, only batches are attested, and a quarantined one     *)
(* has an issue that says why.                                             *)
TypeOK ==
  /\ now \in 0..MaxClock /\ source \in Sources
  /\ stage \in [Snapshots -> {"ABSENT", "STORED", "QUARANTINED", "FAILED_RETRYABLE",
                              "QUALITY_PASSED", "USABLE"}]
  /\ {activated, event, usable} \subseteq [Snapshots -> Times]
  /\ issues \in [Snapshots -> Seq(IssueRecords)] /\ worker \in [Workers -> WorkerRecords]
  /\ locked \in [Workers -> SUBSET Snapshots]
  /\ told \in [Snapshots -> SUBSET (0..MaxClock)]
  /\ incidents \in 0..MaxIncidents /\ reads \in 0..MaxReads
  /\ \A s \in Snapshots :
       /\ s \in Batches <=> stage[s] = "USABLE"
       /\ s \in Attested => s \in Batches
       /\ stage[s] = "QUARANTINED" => issues[s] # <<>>

Importing(w) == worker[w].pc \in {"stored", "prepared", "retryable", "conflicted"}

StageOf(m) == IF m.pc \in {"prepared", "conflicted"} THEN "QUALITY_PASSED" ELSE "STORED"

(* What a worker between two transactions may rely on: the stage of the    *)
(* snapshot it imports, which no other import works on; a sample that is   *)
(* not behind what it attests; rows that stay attested and stay locked.    *)
WorkersHoldTheirGround ==
  /\ \A s \in Snapshots : activated[s] <= now
  /\ \A w \in Workers :
       LET m == worker[w] IN
         /\ Importing(w) =>
              /\ m.snapshot \in Snapshots /\ m.at \in 0..MaxClock
              /\ stage[m.snapshot] = StageOf(m)
         /\ m.pc \in {"activated", "repair", "sampled"} => m.snapshot \in Batches
         /\ m.pc = "sampled" =>
              m.at \in 0..now /\ m.at >= activated[m.snapshot] /\ m.at >= source[m.snapshot].captured
         /\ m.pc \in {"rows", "persist"} => m.rows \subseteq Attested
         /\ m.pc = "persist" => locked[w] = m.rows /\ m.chosen \in m.rows \cup {0}
  /\ \A v, w \in Workers :
       Importing(v) /\ Importing(w) /\ v # w => worker[v].snapshot # worker[w].snapshot

PublicationInvariant == TypeOK /\ WorkersHoldTheirGround

(* What a query may use as of a time was committed by that time: a batch's *)
(* usable time is never before the commit of its activation transaction,   *)
(* whoever attests it and whatever processing time its import was given.   *)
NoLookAhead == \A s \in Attested : usable[s] >= activated[s] /\ usable[s] >= source[s].captured

(* An importer and repairers that race to attest one batch all report the  *)
(* usable time that as-of queries will use.                                *)
AnswersAgree == \A s \in Snapshots : told[s] \subseteq {usable[s]}

(* While a normalisation holds its locks, no attested book it read becomes *)
(* ineligible as of its time, so what it persists is not stale.            *)
ChosenStaysEligible ==
  \A w \in Workers :
    Does(w, "persist") /\ worker[w].chosen # 0 => Eligible(worker[w].chosen, worker[w].at)

(* Once a time has passed and no attestation sampled by then is still to   *)
(* be committed, the answer as of that time changes only when a reviewer   *)
(* raises or resolves an issue of a book in it under a date before that    *)
(* time: no import, repair or crash, and no issue of a later date, ever    *)
(* rewrites it.                                                            *)
SettledAsOf(c) ==
  /\ c < now
  /\ \A w \in Workers : Does(w, "sampled") => worker[w].at > c

Dated(i) == IF Unresolved(i) THEN i.detected ELSE i.resolved

Backdated(s, c) ==
  \E k \in DOMAIN issues'[s] :
    /\ k \in DOMAIN issues[s] => issues'[s][k] # issues[s][k]
    /\ Dated(issues'[s][k]) <= c

ReadsSettle ==
  [][\A c \in 0..MaxClock :
       SettledAsOf(c) /\ Chosen(c)' # Chosen(c) => \E s \in Visible(c) : Backdated(s, c)]_vars

(* A batch left without an attestation by a crash, a failed transaction or *)
(* a clock behind its processing time is attested in the end.              *)
EveryBatchAttested == \A s \in Snapshots : s \in Batches ~> s \in Attested

=============================================================================
