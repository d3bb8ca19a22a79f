--------------------------- MODULE FplPairIngestion ---------------------------
(***************************************************************************)
(* The retained FPL ingestion service: imports and resumes of              *)
(* bootstrap/fixtures pairs by concurrent processes over one PostgreSQL    *)
(* database (ingestion/fpl/service.py, persistence.py, repository.py and   *)
(* the guards of migrations 0002 and 0003).                                *)
(*                                                                         *)
(* One action is one database transaction.  Every transaction of a pair    *)
(* holds the advisory lock of that pair until it commits, and those that   *)
(* touch canonical tables hold the provider lock too, so transactions are  *)
(* the unit of interleaving; what a process keeps in memory between two of *)
(* its transactions is in worker.                                          *)
(*                                                                         *)
(* Time is coarse: the microsecond offsets by which the service spaces the *)
(* events of one call are one tick, so an event planned in tick t lies     *)
(* after the instant t and before the instant t + 1.                       *)
(***************************************************************************)
EXTENDS Integers, Sequences

CONSTANTS
  Pairs,      \* source pairs: what one import invocation captures
  Workers,    \* processes that import and resume
  Sources,    \* the descriptions a pair may have (see SourcesAssumption)
  Keys,       \* provider identifiers (fpl.element.id, fpl.element.code, ...)
  MaxInstant, \* bound on every instant
  MaxClock,   \* bound on the wall clock, at most MaxInstant
  MaxFaults,  \* bound on crashes and retryable database errors together
  NoPair      \* not a pair

(* A source: its rights profile, what its two bodies hold, the keys of one *)
(* entity, the captured and cutoff instants, the operation-time policy,    *)
(* the Gameweek it assigns to one fixture and its reading of one player.   *)
SourceRecords ==
  [ profile  : {"synthetic", "manual"},
    body     : {"valid", "malformed", "inconsistent"},
    keys     : SUBSET Keys,
    captured : 0..MaxInstant,
    cutoff   : Nat,
    frozen   : BOOLEAN,
    gameweek : Nat \ {0},
    reading  : Nat ]

ASSUME SourcesAssumption == Sources \subseteq SourceRecords
ASSUME BoundsAssumption  == MaxInstant \in Nat /\ MaxClock \in 0..MaxInstant /\ MaxFaults \in Nat
ASSUME NoPairAssumption  == NoPair \notin Pairs

Resources == {"bootstrap", "fixtures"}

Escapes  == {"QUARANTINED", "REJECTED", "FAILED_PERMANENT", "FAILED_RETRYABLE"}
Terminal == {"USABLE", "QUARANTINED", "REJECTED", "FAILED_PERMANENT"}

Stages ==
  {"RECEIVED", "STORED", "RAW_DISCARDED", "PARSED", "VALIDATED", "MAPPED",
   "PROMOTED", "QUALITY_PASSED", "USABLE"} \cup Escapes

VARIABLES
  clock,     \* the wall clock
  source,    \* source[p]: the immutable description of pair p
  log,       \* log[p][r]: the processing events of member r of pair p
  worker,    \* worker[w]: the memory of process w
  reserved,  \* reserved[k]: the identity reserved for key k, or NoPair;
             \* the fresh identity a mapping makes is named after its pair
  plan,      \* plan[p]: the identity in the mapping artifact of p, or NoPair
  fact,      \* the current Gameweek assignment of the fixture
  claims,    \* the semantic claims on the player, one per captured instant
  observed,  \* the pairs whose observations are recorded
  issues,    \* issues[p]: the blocking quality issues recorded for p
  bundle,    \* the pairs with a published source bundle
  faults     \* crashes and retryable errors so far

vars == <<clock, source, log, worker, reserved, plan, fact, claims,
          observed, issues, bundle, faults>>

-----------------------------------------------------------------------------
(* Processing events.                                                      *)

Later(a, b) == IF a >= b THEN a ELSE b

(* seen is the wall clock when the event committed; no row stores it.      *)
Events == [stage : Stages, at : 0..MaxInstant, seen : 0..MaxClock]

HasStage(s, stage) == \E i \in DOMAIN s : s[i].stage = stage

Good(s) == {i \in DOMAIN s : s[i].stage # "FAILED_RETRYABLE"}

(* _pair_state looks through retryable failures at the last good stage.    *)
LastGood(s) == s[CHOOSE i \in Good(s) : \A j \in Good(s) : j <= i].stage

Current(s) == s[Len(s)].stage

(* STAGE_INDEX; an escape stage has no index and counts as -1.             *)
Rank(stage) ==
  CASE stage = "RECEIVED" -> 1
    [] stage \in {"STORED", "RAW_DISCARDED"} -> 2
    [] stage = "PARSED" -> 3
    [] stage = "VALIDATED" -> 4
    [] stage = "MAPPED" -> 5
    [] stage = "PROMOTED" -> 6
    [] stage = "QUALITY_PASSED" -> 7
    [] stage = "USABLE" -> 8
    [] OTHER -> -1

Successor ==
  { <<"RECEIVED", "STORED">>, <<"RECEIVED", "RAW_DISCARDED">>,
    <<"STORED", "PARSED">>, <<"RAW_DISCARDED", "PARSED">>,
    <<"PARSED", "VALIDATED">>, <<"VALIDATED", "MAPPED">>,
    <<"MAPPED", "PROMOTED">>, <<"PROMOTED", "QUALITY_PASSED">>,
    <<"QUALITY_PASSED", "USABLE">> }

(* Mutation: a guard that forgets that terminal events are final.          *)
GuardAllowsAfterEnd(s, stage) ==
  stage \in Escapes \/ <<LastGood(s), stage>> \in Successor

(* guard_processing_event: nothing follows a terminal event; an escape may *)
(* follow any open stage; a success follows its predecessor, retryable     *)
(* failures in between not counted.                                        *)
GuardAllows(s, stage) ==
  /\ \A i \in DOMAIN s : s[i].stage \notin Terminal
  /\ stage \in Escapes \/ <<LastGood(s), stage>> \in Successor

(* append_processing_event_idempotent: a stage that is already recorded is *)
(* returned as it is, whatever came after it.                              *)
Recorded(s, stage) == stage # "FAILED_RETRYABLE" /\ HasStage(s, stage)

Accepts(s, stage) == Recorded(s, stage) \/ GuardAllows(s, stage)

Recording(s, stage, at) ==
  IF Recorded(s, stage) THEN s
  ELSE Append(s, [stage |-> stage, at |-> Later(at, s[Len(s)].at), seen |-> clock])

(* One member's part of _append_pair_stage_in_session: a member that is    *)
(* already there is skipped.                                               *)
Reached(s, stage) == Rank(Current(s)) >= Rank(stage)

Lifted(s, stage, at) == IF Reached(s, stage) THEN s ELSE Recording(s, stage, at)

LiftAccepted(p, stage) ==
  \A r \in Resources : Reached(log[p][r], stage) \/ Accepts(log[p][r], stage)

-----------------------------------------------------------------------------
(* Initial state.                                                          *)

NoFact == [gameweek |-> 0, at |-> -1, by |-> NoPair]

Idle == [pc |-> "idle", pair |-> NoPair, opAt |-> 0, bodies |-> FALSE, tries |-> 0]

Init ==
  /\ clock = 0
  /\ source \in [Pairs -> Sources]
  /\ log = [p \in Pairs |-> [r \in Resources |-> <<>>]]
  /\ worker = [w \in Workers |-> Idle]
  /\ reserved = [k \in Keys |-> NoPair]
  /\ plan = [p \in Pairs |-> NoPair]
  /\ fact = NoFact
  /\ claims = {}
  /\ observed = {}
  /\ issues = [p \in Pairs |-> {}]
  /\ bundle = {}
  /\ faults = 0

-----------------------------------------------------------------------------
(* What a transaction finds.                                               *)

Started(p) == \A r \in Resources : log[p][r] # <<>>

Manual(p) == source[p].profile = "manual"

Diverged(p) == LastGood(log[p]["bootstrap"]) # LastGood(log[p]["fixtures"])

(* Mutation: retryable failures are not looked through.                    *)
EffectiveCurrent(p) == Current(log[p]["bootstrap"])

Effective(p) == LastGood(log[p]["bootstrap"])

Below(p, stage) == Rank(Effective(p)) < Rank(stage)

(* The operation time is fixed when the call begins and kept to its end.   *)
OperationTime(p) ==
  IF source[p].frozen THEN source[p].captured ELSE Later(source[p].captured, clock)

(* Mutation: the second member is left to a later transaction.             *)
RewriteFirstMember(p, members) ==
  [log EXCEPT ![p]["bootstrap"] = members["bootstrap"]]

(* A stage is written to both members in one transaction.                  *)
Rewrite(p, members) == [log EXCEPT ![p] = members]

(* A transaction commits ("ok"), rolls back on a quarantine-class error    *)
(* ("quarantine") or rolls back on any other error ("abort").              *)
Advance(w, outcome, next) ==
  worker' = [worker EXCEPT ![w] =
    IF outcome = "abort" \/ (outcome = "ok" /\ next = "idle") THEN Idle
    ELSE [@ EXCEPT !.pc = IF outcome = "ok" THEN next ELSE "quarantine"]]

-----------------------------------------------------------------------------
(* Starting: import, resume.                                               *)

Memory(pc, p, bodies) ==
  [pc |-> pc, pair |-> p, opAt |-> OperationTime(p), bodies |-> bodies, tries |-> 0]

(* Mutation: a pair key that two imports of the same files share.          *)
BeginImportOfSharedPair(w, p) ==
  /\ worker[w] = Idle
  /\ worker' = [worker EXCEPT ![w] = Memory("envelope", p, TRUE)]
  /\ UNCHANGED <<clock, source, log, reserved, plan, fact, claims, observed,
                 issues, bundle, faults>>

(* Every import invocation has its own retrieval pair identifier, so only  *)
(* one import ever writes a pair; resumes share it.                        *)
BeginImport(w, p) ==
  /\ worker[w] = Idle
  /\ ~Started(p)
  /\ \A v \in Workers : worker[v].pair # p
  /\ worker' = [worker EXCEPT ![w] = Memory("envelope", p, TRUE)]
  /\ UNCHANGED <<clock, source, log, reserved, plan, fact, claims, observed,
                 issues, bundle, faults>>

(* Mutation: the storage event is left to a later transaction.             *)
EnvelopeOnly(p, stage, opAt) ==
  << [stage |-> "RECEIVED", at |-> source[p].captured, seen |-> clock] >>

FirstEvents(p, stage, opAt) ==
  << [stage |-> "RECEIVED", at |-> source[p].captured, seen |-> clock],
     [stage |-> stage, at |-> opAt, seen |-> clock] >>

(* A synthetic pair keeps its raw bodies and goes on; a manual pair keeps  *)
(* none and is parsed in memory before its next transaction.               *)
CreateEnvelopes(w) ==
  /\ worker[w].pc = "envelope"
  /\ LET p == worker[w].pair IN
       /\ log' = [log EXCEPT ![p] = [r \in Resources |->
            FirstEvents(p, IF Manual(p) THEN "RAW_DISCARDED" ELSE "STORED",
                        worker[w].opAt)]]
       /\ Advance(w, IF Manual(p) /\ source[p].body # "valid" THEN "quarantine" ELSE "ok",
                  IF Manual(p) THEN "manual" ELSE "parse")
  /\ UNCHANGED <<clock, source, reserved, plan, fact, claims, observed,
                 issues, bundle, faults>>

(* resume reads the pair without its lock: the bodies only when the pair   *)
(* is not parsed yet.  A manual pair lacks the context a resume needs.     *)
Resumable(p) ==
  /\ Started(p) /\ ~Manual(p) /\ ~Diverged(p)
  /\ Effective(p) \notin {"QUARANTINED", "REJECTED", "FAILED_PERMANENT"}

Resumption(p, pc) == Memory(pc, p, Below(p, "PARSED"))

BeginResume(w, p) ==
  /\ worker[w] = Idle
  /\ Resumable(p)
  /\ worker' = [worker EXCEPT ![w] = Resumption(p, "parse")]
  /\ UNCHANGED <<clock, source, log, reserved, plan, fact, claims, observed,
                 issues, bundle, faults>>

-----------------------------------------------------------------------------
(* The transactions of _continue_pair.  An outcome tries the checks of the *)
(* code in their order.                                                    *)

ParseOutcome(w, p) ==
  IF Diverged(p) THEN "abort"
  ELSE IF ~Below(p, "PARSED") THEN "ok"
  ELSE IF ~worker[w].bodies THEN "abort"
  ELSE IF source[p].body = "malformed" THEN "quarantine"
  ELSE IF LiftAccepted(p, "PARSED") THEN "ok" ELSE "abort"

ParsePair(w) ==
  /\ worker[w].pc = "parse"
  /\ LET p       == worker[w].pair
         outcome == ParseOutcome(w, p)
         members == [r \in Resources |-> Lifted(log[p][r], "PARSED", worker[w].opAt)]
     IN /\ log' = IF outcome = "ok" /\ Below(p, "PARSED") THEN Rewrite(p, members) ELSE log
        /\ Advance(w, outcome, "validate")
  /\ UNCHANGED <<clock, source, reserved, plan, fact, claims, observed,
                 issues, bundle, faults>>

ValidateOutcome(p) ==
  IF Diverged(p) THEN "abort"
  ELSE IF ~Below(p, "VALIDATED") THEN "ok"
  ELSE IF source[p].body = "inconsistent" THEN "quarantine"
  ELSE IF LiftAccepted(p, "VALIDATED") THEN "ok" ELSE "abort"

ValidatePair(w) ==
  /\ worker[w].pc = "validate"
  /\ LET p       == worker[w].pair
         outcome == ValidateOutcome(p)
         members == [r \in Resources |-> Lifted(log[p][r], "VALIDATED", worker[w].opAt)]
     IN /\ log' = IF outcome = "ok" /\ Below(p, "VALIDATED") THEN Rewrite(p, members) ELSE log
        /\ Advance(w, outcome, "map")
  /\ UNCHANGED <<clock, source, reserved, plan, fact, claims, observed,
                 issues, bundle, faults>>

(* _reserve_identity: the keys of one entity must not already resolve to   *)
(* two identities; a key once reserved keeps its identity.                 *)
Resolved(p) == {reserved[k] : k \in source[p].keys} \ {NoPair}

(* Mutation: every mapping makes a new identity.                           *)
FreshIdentity(p) == p

Identity(p) == IF Resolved(p) = {} THEN p ELSE CHOOSE q \in Resolved(p) : TRUE

PlanHolds(p) == \A k \in source[p].keys : reserved[k] = plan[p]

MapOutcome(p) ==
  IF Diverged(p) THEN "abort"
  ELSE IF ~Below(p, "MAPPED") THEN (IF PlanHolds(p) THEN "ok" ELSE "abort")
  ELSE IF \E i, j \in Resolved(p) : i # j THEN "quarantine"
  ELSE IF LiftAccepted(p, "MAPPED") THEN "ok" ELSE "abort"

MapPair(w) ==
  /\ worker[w].pc = "map"
  /\ LET p       == worker[w].pair
         outcome == MapOutcome(p)
         maps    == outcome = "ok" /\ Below(p, "MAPPED")
         members == [r \in Resources |-> Lifted(log[p][r], "MAPPED", worker[w].opAt)]
     IN /\ log' = IF maps THEN Rewrite(p, members) ELSE log
        /\ reserved' = IF maps THEN [k \in Keys |-> IF k \in source[p].keys
                                                    THEN Identity(p) ELSE reserved[k]]
                       ELSE reserved
        /\ plan' = IF maps THEN [plan EXCEPT ![p] = Identity(p)] ELSE plan
        /\ Advance(w, outcome, "promote")
  /\ UNCHANGED <<clock, source, fact, claims, observed, issues, bundle, faults>>

(* _fixture_assignment: an equal value is reused as it stands, an older    *)
(* capture is ignored, an equal-time contradiction is a mapping conflict.  *)
FactConflict(p) ==
  source[p].gameweek # fact.gameweek /\ source[p].captured = fact.at

(* Mutation: an older replay supersedes.                                   *)
AssignedWhateverAge(p) ==
  [gameweek |-> source[p].gameweek, at |-> source[p].captured, by |-> p]

Assigned(p) ==
  IF source[p].gameweek = fact.gameweek \/ source[p].captured < fact.at THEN fact
  ELSE [gameweek |-> source[p].gameweek, at |-> source[p].captured, by |-> p]

(* _claim_observation_semantic: one reading per subject and instant.       *)
Claim(p) == [at |-> source[p].captured, reading |-> source[p].reading]

(* Mutation: only recorded observations are compared, not claims.          *)
ConflictWithObserved(p) ==
  \E q \in observed : /\ source[q].captured = source[p].captured
                      /\ source[q].reading # source[p].reading

ClaimConflict(p) ==
  \E c \in claims : c.at = source[p].captured /\ c.reading # source[p].reading

PromoteOutcome(p) ==
  IF Diverged(p) \/ ~PlanHolds(p) THEN "abort"
  ELSE IF ~Below(p, "PROMOTED") THEN "ok"
  ELSE IF Effective(p) # "MAPPED" THEN "abort"
  ELSE IF FactConflict(p) \/ ClaimConflict(p) THEN "quarantine"
  ELSE IF LiftAccepted(p, "PROMOTED") THEN "ok" ELSE "abort"

PromotePair(w) ==
  /\ worker[w].pc = "promote"
  /\ LET p        == worker[w].pair
         outcome  == PromoteOutcome(p)
         promotes == outcome = "ok" /\ Below(p, "PROMOTED")
         members == [r \in Resources |-> Lifted(log[p][r], "PROMOTED", worker[w].opAt)]
     IN /\ log' = IF promotes THEN Rewrite(p, members) ELSE log
        /\ fact' = IF promotes THEN Assigned(p) ELSE fact
        /\ claims' = IF promotes THEN claims \cup {Claim(p)} ELSE claims
        /\ Advance(w, outcome, "finish")
  /\ UNCHANGED <<clock, source, reserved, plan, observed, issues, bundle, faults>>

(* Mutation: the cutoff is compared with the captured instant.             *)
CapturedAt(s) == s[1].at

(* The last transaction: quality, usability, observations and the bundle.  *)
(* A usable time lies inside its tick, so it meets a cutoff at a later     *)
(* tick only.                                                              *)
UsableAt(s) == (CHOOSE e \in {s[i] : i \in DOMAIN s} : e.stage = "USABLE").at

FinishOutcome(p) ==
  IF Diverged(p) \/ Below(p, "PROMOTED") \/ ~PlanHolds(p) THEN "abort"
  ELSE IF ~LiftAccepted(p, "QUALITY_PASSED") THEN "abort"
  ELSE IF ClaimConflict(p) THEN "quarantine"
  ELSE IF "QUARANTINE" \in issues[p] THEN "abort" ELSE "ok"

FinishPair(w) ==
  /\ worker[w].pc = "finish"
  /\ LET p        == worker[w].pair
         outcome  == FinishOutcome(p)
         members  == [r \in Resources |->
                        Lifted(Lifted(log[p][r], "QUALITY_PASSED", worker[w].opAt),
                               "USABLE", worker[w].opAt)]
         inTime   == \A r \in Resources : UsableAt(members[r]) < source[p].cutoff
         closes   == outcome = "ok"
     IN /\ log' = IF closes THEN Rewrite(p, members) ELSE log
        /\ claims' = IF closes THEN claims \cup {Claim(p)} ELSE claims
        /\ observed' = IF closes THEN observed \cup {p} ELSE observed
        /\ bundle' = IF closes /\ inTime THEN bundle \cup {p} ELSE bundle
        /\ issues' = IF closes /\ ~inTime
                     THEN [issues EXCEPT ![p] = @ \cup {"POST_CUTOFF"}] ELSE issues
        /\ Advance(w, outcome, "idle")
  /\ UNCHANGED <<clock, source, reserved, plan, fact, faults>>

-----------------------------------------------------------------------------
(* The transactions that record an error.                                  *)

(* _quarantine runs after the failed transaction has rolled back, so it    *)
(* meets whatever committed in between; it leaves settled members alone.   *)
Settled(s) == Current(s) \in {"QUARANTINED", "REJECTED", "FAILED_PERMANENT"}

QuarantineOutcome(p) ==
  IF \A r \in Resources :
       Settled(log[p][r]) \/ (p \notin bundle /\ Accepts(log[p][r], "QUARANTINED"))
  THEN "ok" ELSE "abort"

QuarantinePair(w) ==
  /\ worker[w].pc = "quarantine"
  /\ LET p       == worker[w].pair
         writes  == QuarantineOutcome(p) = "ok" /\ \E r \in Resources : ~Settled(log[p][r])
         members == [r \in Resources |->
                       IF Settled(log[p][r]) THEN log[p][r]
                       ELSE Recording(log[p][r], "QUARANTINED", worker[w].opAt)]
     IN /\ log' = IF writes THEN Rewrite(p, members) ELSE log
        /\ issues' = IF writes THEN [issues EXCEPT ![p] = @ \cup {"QUARANTINE"}] ELSE issues
        /\ Advance(w, QuarantineOutcome(p), "idle")
  /\ UNCHANGED <<clock, source, reserved, plan, fact, claims, observed,
                 bundle, faults>>

(* _record_retryable_failure; an error while recording is suppressed.      *)
RecordRetryableFailure(w) ==
  /\ worker[w].pc = "failed"
  /\ LET p       == worker[w].pair
         allowed == /\ ~Diverged(p)
                    /\ \A r \in Resources : GuardAllows(log[p][r], "FAILED_RETRYABLE")
         members == [r \in Resources |->
                       Recording(log[p][r], "FAILED_RETRYABLE", worker[w].opAt)]
     IN log' = IF allowed THEN Rewrite(p, members) ELSE log
  /\ Advance(w, "ok", "idle")
  /\ UNCHANGED <<clock, source, reserved, plan, fact, claims, observed,
                 issues, bundle, faults>>

(* Mutation: a manual pair is expected to be STORED.                       *)
ManualAcceptedOnceStored(p) ==
  /\ \A r \in Resources : Current(log[p][r]) = "STORED"
  /\ LiftAccepted(p, "PARSED")

(* _finish_manual_validation: validated in one transaction, then rejected  *)
(* because the profile grants no derived storage.                          *)
ManualAccepted(p) ==
  /\ \A r \in Resources : Current(log[p][r]) = Current(log[p]["bootstrap"])
  /\ LiftAccepted(p, "PARSED")

ValidateManual(w) ==
  /\ worker[w].pc = "manual"
  /\ LET p       == worker[w].pair
         opAt    == worker[w].opAt
         already == \A r \in Resources : Current(log[p][r]) = "REJECTED"
         members == [r \in Resources |->
                       Recording(Lifted(Lifted(log[p][r], "PARSED", opAt), "VALIDATED", opAt),
                                 "REJECTED", opAt)]
     IN /\ log' = IF ~already /\ ManualAccepted(p) THEN Rewrite(p, members) ELSE log
        /\ Advance(w, IF already \/ ManualAccepted(p) THEN "ok" ELSE "abort", "idle")
  /\ UNCHANGED <<clock, source, reserved, plan, fact, claims, observed,
                 issues, bundle, faults>>

(* _record_manual_permanent_failure, after the third failed attempt.       *)
RecordPermanentFailure(w) ==
  /\ worker[w].pc = "exhausted"
  /\ LET p       == worker[w].pair
         Skipped(s) == Current(s) \in {"REJECTED", "FAILED_PERMANENT"}
         allowed == \A r \in Resources :
                      Skipped(log[p][r]) \/ Accepts(log[p][r], "FAILED_PERMANENT")
         members == [r \in Resources |->
                       IF Skipped(log[p][r]) THEN log[p][r]
                       ELSE Recording(log[p][r], "FAILED_PERMANENT", worker[w].opAt)]
     IN log' = IF allowed THEN Rewrite(p, members) ELSE log
  /\ Advance(w, "ok", "idle")
  /\ UNCHANGED <<clock, source, reserved, plan, fact, claims, observed,
                 issues, bundle, faults>>

-----------------------------------------------------------------------------
(* Faults and time.                                                        *)

Fault == faults < MaxFaults /\ faults' = faults + 1

ManualAttempts == 3

(* Mutation: a manual validation is tried again without limit.             *)
AfterFailureForever(m) ==
  CASE m.pc = "manual" -> [m EXCEPT !.tries = @ + 1]
    [] m.pc \in {"envelope", "failed", "exhausted"} -> Idle
    [] m.pc = "quarantine" /\ Manual(m.pair) -> Idle
    [] OTHER -> [m EXCEPT !.pc = "failed"]

(* The memory of a worker whose transaction ended in a retryable database  *)
(* error: a manual validation is tried again, a call that knows its        *)
(* snapshots records the failure, any other call just returns.             *)
AfterFailure(m) ==
  CASE m.pc = "manual" /\ m.tries + 1 < ManualAttempts -> [m EXCEPT !.tries = @ + 1]
    [] m.pc = "manual" /\ m.tries + 1 = ManualAttempts -> [m EXCEPT !.pc = "exhausted"]
    [] m.pc \in {"envelope", "failed", "exhausted"} -> Idle
    [] m.pc = "quarantine" /\ Manual(m.pair) -> Idle
    [] OTHER -> [m EXCEPT !.pc = "failed"]

TransactionFails(w) ==
  /\ worker[w] # Idle
  /\ Fault
  /\ worker' = [worker EXCEPT ![w] = AfterFailure(@)]
  /\ UNCHANGED <<clock, source, log, reserved, plan, fact, claims, observed,
                 issues, bundle>>

(* The first transaction of a resume fails once it knows its snapshots.    *)
ResumeFails(w, p) ==
  /\ worker[w] = Idle
  /\ Resumable(p)
  /\ Fault
  /\ worker' = [worker EXCEPT ![w] = Resumption(p, "failed")]
  /\ UNCHANGED <<clock, source, log, reserved, plan, fact, claims, observed,
                 issues, bundle>>

(* The process dies, or stops at halt_after_stage, between transactions.   *)
Crash(w) ==
  /\ worker[w] # Idle
  /\ Fault
  /\ worker' = [worker EXCEPT ![w] = Idle]
  /\ UNCHANGED <<clock, source, log, reserved, plan, fact, claims, observed,
                 issues, bundle>>

Tick ==
  /\ clock < MaxClock
  /\ clock' = clock + 1
  /\ UNCHANGED <<source, log, worker, reserved, plan, fact, claims, observed,
                 issues, bundle, faults>>

-----------------------------------------------------------------------------

Step(w) ==
  \/ CreateEnvelopes(w)
  \/ ParsePair(w)
  \/ ValidatePair(w)
  \/ MapPair(w)
  \/ PromotePair(w)
  \/ FinishPair(w)
  \/ QuarantinePair(w)
  \/ RecordRetryableFailure(w)
  \/ ValidateManual(w)
  \/ RecordPermanentFailure(w)

Next ==
  \/ \E w \in Workers, p \in Pairs :
       BeginImport(w, p) \/ BeginResume(w, p) \/ ResumeFails(w, p)
  \/ \E w \in Workers : Step(w) \/ TransactionFails(w) \/ Crash(w)
  \/ Tick

Spec == Init /\ [][Next]_vars

(* A call in progress goes on to its end, and an operator keeps resuming   *)
(* every pair that is not settled.  Nothing makes a process start an       *)
(* import, fail or crash.                                                  *)
Resuming(p) == \E w \in Workers : BeginResume(w, p) /\ Effective(p) # "USABLE"

Fairness ==
  /\ \A w \in Workers : WF_vars(Step(w))
  /\ \A p \in Pairs : SF_vars(Resuming(p))

FairSpec == Spec /\ Fairness

-----------------------------------------------------------------------------
(* Properties.                                                             *)

PCs == {"idle", "envelope", "parse", "validate", "map", "promote", "finish",
        "quarantine", "failed", "manual", "exhausted"}

Memories ==
  [ pc : PCs, pair : Pairs \cup {NoPair}, opAt : 0..MaxInstant, bodies : BOOLEAN,
    tries : 0..(ManualAttempts - 1) ]

(* The shape of every row and of every worker's memory.                    *)
TypeOK ==
  /\ clock \in 0..MaxClock
  /\ source \in [Pairs -> Sources]
  /\ log \in [Pairs -> [Resources -> Seq(Events)]]
  /\ worker \in [Workers -> Memories]
  /\ reserved \in [Keys -> Pairs \cup {NoPair}]
  /\ plan \in [Pairs -> Pairs \cup {NoPair}]
  /\ fact \in [gameweek : Nat, at : -1..MaxInstant, by : Pairs \cup {NoPair}]
  /\ claims \subseteq [at : 0..MaxInstant, reading : Nat]
  /\ observed \subseteq Pairs
  /\ issues \in [Pairs -> SUBSET {"QUARANTINE", "POST_CUTOFF"}]
  /\ bundle \subseteq Pairs
  /\ faults \in 0..MaxFaults

History(p) == log[p]["bootstrap"]

(* A worker holds a pair from its import to its return; only its importer  *)
(* holds a pair that is not stored yet.                                    *)
WorkerHoldsPair(w) ==
  \/ worker[w] = Idle
  \/ /\ worker[w].pair \in Pairs
     /\ worker[w].pc \notin {"idle", "envelope"}
     /\ Started(worker[w].pair)
  \/ /\ worker[w].pair \in Pairs
     /\ worker[w].pc = "envelope"
     /\ \A r \in Resources : log[worker[w].pair][r] = <<>>
     /\ \A v \in Workers \ {w} : worker[v].pair # worker[w].pair

WorkersHoldPairs == \A w \in Workers : WorkerHoldsPair(w)

(* The two members of a pair always have the same history, so the "source  *)
(* pair lifecycle state diverged" error of _pair_state is never raised,    *)
(* whatever skips and idempotent returns the resumes of a pair go through. *)
MembersAgree == \A p \in Pairs : log[p]["bootstrap"] = log[p]["fixtures"]

(* The shape of the state, with what workers may hold and the agreement of *)
(* the members: inductive, and checked as a whole.                         *)
PairInvariant == TypeOK /\ WorkersHoldPairs /\ MembersAgree

(* Every history is a legal climb: each success follows its predecessor,   *)
(* only the last event may be terminal, times never go back, and a stage   *)
(* other than FAILED_RETRYABLE is recorded at most once, however many      *)
(* workers carry the pair on (guard_processing_event,                      *)
(* append_processing_event_idempotent).                                    *)
LegalHistory ==
  \A p \in Pairs, r \in Resources :
    LET s == log[p][r] IN
      /\ \A i \in DOMAIN s : i < Len(s) => s[i].stage \notin Terminal
      /\ \A i, j \in DOMAIN s : i < j =>
           /\ s[i].at <= s[j].at
           /\ s[i].stage = s[j].stage => s[i].stage = "FAILED_RETRYABLE"
      /\ \A i \in DOMAIN s : i > 1 /\ s[i].stage \notin Escapes =>
           <<LastGood(SubSeq(s, 1, i - 1)), s[i].stage>> \in Successor

(* A bundle is published for exactly the usable pairs whose usable time    *)
(* meets their cutoff, and no blocking issue is open on a published pair   *)
(* (freeze_bundle, guard_source_bundle_publication,                        *)
(* lock_bundle_quality_subject).                                           *)
BundleIffUsableInTime ==
  \A p \in Pairs :
    LET s == History(p) IN
      p \in bundle <=> /\ \E i \in DOMAIN s :
                            s[i].stage = "USABLE" /\ s[i].at < source[p].cutoff
                       /\ issues[p] = {}

(* Two pairs captured at one instant that read the player differently are  *)
(* never both promoted, so their observations never both exist             *)
(* (semantic_observation_claim, preflight_observation_conflicts).          *)
OneReadingPerInstant ==
  \A p, q \in Pairs :
    /\ HasStage(History(p), "PROMOTED")
    /\ HasStage(History(q), "PROMOTED")
    /\ source[p].captured = source[q].captured
    => source[p].reading = source[q].reading

(* A mapped pair's plan still agrees with the reservations, so             *)
(* verify_mapping_plan never fails; and pairs that share a key were mapped *)
(* to one identity, in whatever order their mappings committed.            *)
PlansHold ==
  /\ \A p \in Pairs : HasStage(History(p), "MAPPED") =>
       plan[p] # NoPair /\ PlanHolds(p)
  /\ \A p, q \in Pairs :
       /\ HasStage(History(p), "MAPPED") /\ HasStage(History(q), "MAPPED")
       /\ source[p].keys \cap source[q].keys # {}
       => plan[p] = plan[q]

(* The current Gameweek assignment is what one promoted pair says, at its  *)
(* captured instant.  A promoted pair captured then or later says the same *)
(* unless all it did was confirm an older assignment, which keeps the      *)
(* instant of the capture that made it and so may be superseded since      *)
(* (_fixture_assignment), whatever the order of the promotions.            *)
FactFollowsPromoted ==
  /\ fact.by # NoPair =>
       /\ HasStage(History(fact.by), "PROMOTED")
       /\ fact.gameweek = source[fact.by].gameweek
       /\ fact.at = source[fact.by].captured
  /\ \A p \in Pairs :
       /\ HasStage(History(p), "PROMOTED")
       /\ source[p].captured >= fact.at
       /\ source[p].gameweek # fact.gameweek
       => \E q \in Pairs :
            /\ HasStage(History(q), "PROMOTED")
            /\ source[q].gameweek = source[p].gameweek
            /\ source[q].captured < fact.at

(* The rows a step may never touch: events are only appended, an identity  *)
(* once reserved is never changed, claims, observations and bundles are    *)
(* never withdrawn, and the assignment never moves to an older capture.    *)
IsPrefixOf(s, t) == Len(s) <= Len(t) /\ SubSeq(t, 1, Len(s)) = s

EvidenceKept ==
  /\ \A p \in Pairs, r \in Resources : IsPrefixOf(log[p][r], log'[p][r])
  /\ \A k \in Keys : reserved[k] # NoPair => reserved'[k] = reserved[k]
  /\ claims \subseteq claims'
  /\ observed \subseteq observed'
  /\ bundle \subseteq bundle'
  /\ fact.at <= fact'.at

EvidenceIsPermanent == [][EvidenceKept]_vars

(* The abstract lifecycle is implemented: no crash, retryable failure,     *)
(* resume or stalled worker makes a pair take another path.                *)
StageOf(p) == IF Started(p) THEN LastGood(History(p)) ELSE "ABSENT"

Lifecycle == INSTANCE PairLifecycle
               WITH stage <- [p \in Pairs |-> StageOf(p)], published <- bundle

ImplementsLifecycle == Lifecycle!Spec

(* A call that returns of its own accord leaves its pair settled: neither  *)
(* a LIFECYCLE_INVARIANT error nor a rejected append of a stalled worker   *)
(* strands an open pair, which only a crash or a database error may leave. *)
ReturnsSettled ==
  [][ \A w \in Workers, p \in Pairs :
        /\ worker[w].pc \notin {"idle", "failed"}
        /\ worker[w].pair = p
        /\ worker'[w] = Idle
        /\ faults' = faults
        => Current(History(p))' \in Terminal ]_vars

(* Once stored, a synthetic pair settles as usable or quarantined if it is *)
(* resumed again and again: no prefix that crashes, failures and other     *)
(* workers leave behind is a dead end.                                     *)
PairsSettle ==
  \A p \in Pairs :
    Started(p) /\ ~Manual(p) ~> StageOf(p) \in {"USABLE", "QUARANTINED"}

(* Violated.  "A quarantined source is not promoted to canonical" and      *)
(* "every promoted record traces to a usable source snapshot".             *)
QuarantinedNotPromoted ==
  \A p \in Pairs :
    LET s == History(p) IN ~(HasStage(s, "QUARANTINED") /\ HasStage(s, "PROMOTED"))

(* Violated.  "Canonical promotion completed before cutoff": the usable    *)
(* time that is compared with the cutoff is the time the call began, not   *)
(* the time at which the canonical rows committed.                         *)
PublishedWasPromotedBeforeCutoff ==
  \A p \in bundle :
    LET s == History(p) IN
      ~source[p].frozen =>
        \A i \in DOMAIN s : s[i].stage = "PROMOTED" => s[i].seen < source[p].cutoff

=============================================================================
