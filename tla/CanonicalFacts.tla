---------------------------- MODULE CanonicalFacts ----------------------------
(***************************************************************************)
(* The versions of one bitemporal canonical fact: the Gameweek assignment  *)
(* of a fixture, and with it the fixture revision, the preferred alias and *)
(* the team membership, which ingestion supersedes by the same rule.  Two  *)
(* kinds of writers work on it: imports (FplPersistence.promote) and       *)
(* corrections (FixtureRepository.assign_gameweek with supersedes).        *)
(*                                                                         *)
(* A version is known from one system instant to another, and it holds     *)
(* from the start of its validity on: the kickoff, or the season's start.  *)
(* Each write is one transaction that locks the current row; the calls     *)
(* around it take their system time, and the corrections the version they  *)
(* correct, earlier.                                                       *)
(***************************************************************************)
EXTENDS Integers, Sequences, FiniteSets

CONSTANTS
  Calls,       \* the import and correction calls
  Values,      \* what a source may say of the fact
  MaxInstant,  \* bound on the clock and on every instant a caller names
  Starts       \* the instants from which a version may be valid

ASSUME MaxInstantAssumption == MaxInstant \in Nat
ASSUME StartsAssumption     == Starts \subseteq Nat
ASSUME CallsAssumption      == IsFiniteSet(Calls)

VARIABLES
  clock,     \* the wall clock
  versions,  \* the rows of the fact, oldest first
  call       \* call[c]: the memory and the outcome of call c

vars == <<clock, versions, call>>

Instants == 0..MaxInstant

Open == -1  \* the upper bound of a system range that is not closed

Versions ==
  [value : Values, captured : Instants, valid : Starts, from : Nat, to : Nat \cup {Open}]

(* over is the version a call read, confirmed, superseded or lost against. *)
Outcomes == {"inserted", "reused", "superseded", "ignored", "conflict", "excluded",
             "corrected", "stale"}

CallStates == {"new", "import", "reading", "correction"} \cup Outcomes

CallRecords ==
  [state : CallStates, value : Values, captured : Instants, at : Instants, over : Nat]

Later(a, b) == IF a >= b THEN a ELSE b

Last == Len(versions)

Init ==
  /\ clock = 0
  /\ versions = <<>>
  /\ call \in [Calls -> { [state |-> "new", value |-> v, captured |-> t, at |-> 0, over |-> 0] :
                          v \in Values, t \in Instants }]

-----------------------------------------------------------------------------

(* An import fixes its system time when it begins.                         *)
BeginImport(c) ==
  /\ call[c].state = "new"
  /\ call' = [call EXCEPT ![c].state = "import",
                          ![c].at = Later(call[c].captured, clock)]
  /\ UNCHANGED <<clock, versions>>

(* A correction names the version it corrects and, at its caller's will,   *)
(* the instant from which it is known.                                     *)
BeginCorrection(c, known) ==
  /\ call[c].state = "new"
  /\ versions # <<>>
  /\ call' = [call EXCEPT ![c].state = "correction", ![c].at = known, ![c].over = Last]
  /\ UNCHANGED <<clock, versions>>

Version(c, from, valid) ==
  [value |-> call[c].value, captured |-> call[c].captured, valid |-> valid,
   from |-> from, to |-> Open]

(* Mutation: the predecessor stays open.                                   *)
SupersededAndOpen(i, v) == Append(versions, v)

(* Mutation: the predecessor ends when its successor was captured.         *)
SupersededAtCapture(i, v) == Append([versions EXCEPT ![i].to = v.captured], v)

(* guard_temporal_version: an open version is closed once, by a successor  *)
(* that starts where it ends.                                              *)
Superseded(i, v) == Append([versions EXCEPT ![i].to = v.from], v)

(* The SELECT ... FOR UPDATE of _fixture_assignment sees the rows that are *)
(* committed when it starts, and may then wait for a correction to commit. *)
(* The lock on the provider keeps other imports out.                       *)
ReadCurrent(c) ==
  /\ call[c].state = "import"
  /\ \A d \in Calls : call[d].state # "reading"
  /\ call' = [call EXCEPT ![c].state = "reading", ![c].over = Last]
  /\ UNCHANGED <<clock, versions>>

(* If a correction closed the row meanwhile, the statement returns no row, *)
(* and the insert meets ex_fixture_gameweek_assignment_current.  Otherwise *)
(* the capture instants are compared with those of the current row.        *)
ImportOutcome(c) ==
  IF call[c].over # Last THEN "excluded"
  ELSE IF versions = <<>> THEN "inserted"
  ELSE LET current == versions[Last] IN
    IF call[c].value = current.value THEN "reused"
    ELSE IF call[c].captured < current.captured THEN "ignored"
    ELSE IF call[c].captured = current.captured THEN "conflict"
    ELSE "superseded"

(* Mutation: the successor starts at the system time of its call.          *)
SuccessorAtCall(c) == call[c].at

(* _successor_system_at: never at or before the start of the current row.  *)
SuccessorAt(c) == Later(call[c].at, versions[Last].from + 1)

Promote(c, valid) ==
  /\ call[c].state = "reading"
  /\ call' = [call EXCEPT ![c].state = ImportOutcome(c)]
  /\ versions' = CASE ImportOutcome(c) = "inserted" -> <<Version(c, call[c].at, valid)>>
                   [] ImportOutcome(c) = "superseded" ->
                        Superseded(Last, Version(c, SuccessorAt(c), valid))
                   [] OTHER -> versions
  /\ UNCHANGED clock

(* Mutation: only the instants are compared.                               *)
CorrectableByTime(c) ==
  versions[call[c].over].from < call[c].at /\ call[c].captured <= call[c].at

(* _supersede: the row named by the caller must still be open and start    *)
(* before the instant given, by which the correction's own snapshot must   *)
(* have been usable.                                                       *)
Correctable(c) ==
  LET old == versions[call[c].over] IN
    old.to = Open /\ old.from < call[c].at /\ call[c].captured <= call[c].at

Correct(c, valid) ==
  /\ call[c].state = "correction"
  /\ call' = [call EXCEPT ![c].state = IF Correctable(c) THEN "corrected" ELSE "stale"]
  /\ versions' = IF Correctable(c)
                   THEN Superseded(call[c].over, Version(c, call[c].at, valid))
                 ELSE versions
  /\ UNCHANGED clock

Tick ==
  /\ clock < MaxInstant
  /\ clock' = clock + 1
  /\ UNCHANGED <<versions, call>>

Next ==
  \/ \E c \in Calls : BeginImport(c) \/ ReadCurrent(c)
  \/ \E c \in Calls, known \in Instants : BeginCorrection(c, known)
  \/ \E c \in Calls, valid \in Starts : Promote(c, valid) \/ Correct(c, valid)
  \/ Tick

Spec == Init /\ [][Next]_vars

-----------------------------------------------------------------------------
(* Properties.                                                             *)

TypeOK ==
  /\ clock \in Instants
  /\ versions \in Seq(Versions)
  /\ call \in [Calls -> CallRecords]

(* Exactly the last version is current, and each earlier one ends where    *)
(* its successor starts.                                                   *)
Chained ==
  \A i \in 1..Len(versions) :
    IF i = Len(versions) THEN versions[i].to = Open
    ELSE /\ versions[i].to = versions[i + 1].from
         /\ versions[i].from < versions[i].to

(* The strengthening that makes the chain inductive, checked as a whole.   *)
ChainInvariant == TypeOK /\ Chained

KnownAt(i, known) ==
  versions[i].from <= known /\ (versions[i].to = Open \/ known < versions[i].to)

(* _as_of_statement: known at one instant and valid at another.            *)
Answers(i, known, valid) == KnownAt(i, known) /\ versions[i].valid <= valid

AsOf(known, valid) == { i \in 1..Len(versions) : Answers(i, known, valid) }

Horizon == 0..(MaxInstant + Cardinality(Calls))

(* An as-of read finds at most one version (get_gameweek_as_of uses        *)
(* one_or_none), although imports that began earlier commit later and      *)
(* corrections interleave with them.                                       *)
OneVersionAsOf ==
  \A known \in Horizon, valid \in Starts :
    \A i, j \in AsOf(known, valid) : i = j

(* What an as-of read answered, or that it found nothing, changes only by  *)
(* a call whose own system time is not later than the instant read: an     *)
(* answer as of an instant before those of the calls under way stands,     *)
(* whatever they find, in whatever order they commit.                      *)
AnswersStand ==
  [][\A known \in Horizon, valid \in Starts :
       AsOf(known, valid)' # AsOf(known, valid) =>
         \E c \in Calls : call'[c] # call[c] /\ call[c].at <= known]_vars

(* Two calls never both supersede one version, so that no update is lost.  *)
SupersededOnce ==
  \A c, d \in Calls :
    /\ call[c].state \in {"superseded", "corrected"}
    /\ call[d].state \in {"superseded", "corrected"}
    /\ c # d
    => call[c].over # call[d].over

(* Violated.  "An older replay ... cannot supersede a newer current ...    *)
(* Gameweek assignment": a capture that confirms the current version does  *)
(* not refresh its capture instant, so a replay older than the             *)
(* confirmation still supersedes it.                                       *)
OlderReplayNeverSupersedes ==
  \A c, d \in Calls :
    call[c].state = "superseded" /\ call[d].state = "reused" /\ call[c].over = call[d].over
    => call[c].captured >= call[d].captured

=============================================================================
