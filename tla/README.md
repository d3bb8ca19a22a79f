# Verification of DMF Pulse

TLA+ models of the parts of `dmf-pulse` whose correctness depends on the order in
which things happen, TLC configurations that check them on small instances, and
proofs for every value of the constants. Paths below are relative to the package
`src/dmf_pulse/` unless they start with `docs/`, `specs/`, `tests/` or `tickets/`.

1. [The system](#1-the-system)
2. [The modules and how they correspond to the code](#2-the-modules)
3. [What is checked](#3-what-is-checked)
4. [What is proved](#4-what-is-proved)
5. [Disagreements between the code and its documents](#5-disagreements)
6. [What is not modelled](#6-what-is-not-modelled)
7. [Plan](#7-plan)

## 1. The system

DMF Pulse is a private decision engine for Fantasy Premier League (FPL). It is a
modular monolith in Python over one PostgreSQL database (READ COMMITTED). Command
line processes import captures of the official game and of bookmakers' odds, turn
them into canonical facts that can be read *as of* an instant in the past, and run
forecasting and optimisation over them. There is no server and no daemon: whatever
runs concurrently is several processes of an operator over one database.

| Component | State it keeps | Operations | What is hard | What makes it correct |
|---|---|---|---|---|
| FPL pair ingestion: `ingestion/fpl/service.py`, `persistence.py`, `ingestion/repository.py` | per snapshot, an append-only list of processing events; mapping artifacts; semantic claims; observations; quality issues; source bundles | import, replay, resume; parse, validate, map, promote, finish; quarantine, retryable failure, the manual path | one pair is carried by several processes, each transaction on its own; crashes and database errors between transactions; captures that arrive out of order; cutoffs | both members of a pair agree; histories are legal climbs; a bundle exists exactly for pairs usable in time; nothing recorded is taken back; every stored pair can be finished |
| Canonical facts: `data_model/repositories.py` and `_fixture_assignment`, `_fixture_revision` in `ingestion/fpl/persistence.py` | bitemporal rows (`system_during`, `valid_during`, supersedes) | insert, reuse, supersede, ignore, conflict; manual correction; as-of read | importers fix their system time long before they write; corrections name the version they read, and commit between the statements of an import | one chain without gaps or overlaps; a read as of two instants finds one row at most, and what it found is not rewritten by calls of later system time; no lost update |
| Guards of the database: `database/migrations` | triggers and unique constraints | `guard_processing_event`, `guard_temporal_version` | they are the last line against two processes | are part of the actions of the two components above |
| Chip inventory: `chips/inventory.py` | tokens with a status, an interval of use and a history | build, select, cancel, activate, advance, validate | windows, expiry, durations, gaps, concurrency groups and limits over long sequences of calls | no overlap, no missed gap, no vanished or revived right; the verifier accepts exactly the legal inventories |
| Chip manager state: `rules/chips.py` | squad, bank, purchase prices, chips used, a stored squad for Free Hit | play, confirm, cancel, finalise the deadline, replace the squad, complete the Gameweek | the restoration after a Free Hit; copies that bypass validation; gaps across windows | a Free Hit restores what it replaced; chips keep to their inventory; the combinations the validator asks for survive every call |
| Odds retrieval: `ingestion/odds/client.py` and `snapshot` in `service.py` | one call's attempts; quota observations | admit, send, retry, pause, record | one deadline and one quota over several attempts, each of several blocking socket operations; crashes before the evidence is recorded | sockets keep the deadline, whether or not the provider answers; throttles are respected; no request without quota; evidence tells the whole call |
| Odds publication: `ingestion/odds/service.py`, `persistence.py`, migration 0005 | snapshots, publication batches, attestations, quality issues | import, activate, attest, repair, quarantine | activation and attestation are separate transactions around a clock reading; repairs race importers | a batch is attested once, never before its commit, and in the end |
| Market normalisation: `markets/repository.py`, `markets/service.py` | quality locks of a transaction, normalisation runs | read rows as of a time, lock, choose, persist | blocking issues raised meanwhile; later records that would rewrite an answer | a choice is not stale when it is persisted; settled answers change only by issues that are dated back to them |
| Openfootball ingestion: `ingestion/openfootball` | none | fetch, parse | none | a pure conversion |
| Current state: `ingestion/current_state.py`, `ingestion/fpl/current.py`, `manager_current.py` | a volatile directory during a call | capture, redact | clean-up after a crash | no raw body outlives its call |
| Rights: `ingestion/rights.py` | configured policy | decide | none | a pure decision |
| Rules: `rules/` | compiled rulesets on disk, under digests | compile, activate | concurrent activators | a ruleset is activated once and never replaced |
| Scoring and substitutions: `rules/one_gameweek.py`, `scoring.py`, `bps.py`, `bonus.py` | none | compute | formation limits while substituting | agrees with a reference definition |
| Optimisation: `optimisation/manager_state.py`, `multi_gameweek_*.py`, `chips/free_hit.py`, `chips/wildcard.py` | manager states along a plan: bank, free transfers, ownership spells | apply a transfer action, observe a node, reset with a Wildcard, restore after a Free Hit | rounding and order of sale, purchase and observation; a second implementation of what `rules/` implements | value is conserved; free transfers are earned; agrees with the rules |
| Chip scheduling: `chips/scheduler.py`, ... | none beyond inventories | enumerate, score | size of the search | every schedule is legal |
| Prices, market consensus, availability, football events, FPL points, rank strategy, evaluation | digest-named immutable artifacts | numerical models | numerical stability | outside the reach of TLC |
| CLI, config, system, assurance | none | wiring | none | - |

Interactions. The CLI calls `FplIngestionService`; the service writes through
`FplPersistence` and the repositories of `data_model`, and every write passes the
triggers of the migrations. Promotion (`FplPersistence.promote`) is the only place at
which ingestion writes canonical facts; people write them through
`FixtureRepository.assign_gameweek`. Forecasting reads facts as of a bundle's
cutoff. The chip scheduler, the chip service and `manager_current.py` build chip
inventories and pass them through `validate_chip_inventory`. Odds reach the database through
imports and bundles only: a live `snapshot` records its evidence and is never promoted (it has no approved
mapping plan), so `OddsRetrieval` and `OddsPublication` meet in the table of snapshots and share no
transition. Normalisation reads what publication attests. The rules and the optimiser never call each
other on one state: a manager is represented in both, and `ManagerSeason` composes the two.

## 2. The modules

| Module | What it is |
|---|---|
| `PairLifecycle` | the abstract specification of one capture pair: a ladder of stages, escapes, and a bundle published with the last step or never |
| `FplPairIngestion` | the service, its workers and transactions, the database it shares; implements `PairLifecycle` |
| `FplPairIngestion_proofs` | the proofs about what pairs and workers are at any time |
| `FplPairHistory_proofs` | the proofs about the histories of pairs, what they leave in the canonical tables, and the refinement |
| `CanonicalFacts`, `CanonicalFacts_proofs` | the versions of one bitemporal fact under imports and corrections; the proofs |
| `ChipInventory`, `ChipInventory_proofs` | the chip rights of one manager; the proofs |
| `ChipReplay`, `ChipReplay_proofs` | the verifier of inventories, over `ChipInventory`; the proof that it accepts what the functions produce |
| `OddsRetrieval` | one live retrieval after another: attempts, deadlines, quota, evidence |
| `OddsPublication`, `OddsPublication_proofs` | how an odds snapshot becomes usable and what queries as of a time see of it; the proofs |
| `OddsRetrieval_proofs` | the proofs about retrievals |
| `ChipState` | the functions of `rules/chips.py` as conditions and values |
| `TransferPlan` | the manager state of the optimiser and its transitions |
| `ManagerSeason`, `ManagerSeason_proofs` | one manager through a season in both representations; composes the two modules above; the proofs |
| `MCFplPairIngestion`, `MCCanonicalFacts`, `MCChipInventory`, `MCOddsPublication`, `MCManagerSeason` | the instances TLC checks |

### FplPairIngestion

*State.* `source[p]` is what the files and the rights profile of pair `p` say (it never
changes: a pair is created by one import invocation and has its own retrieval pair
identifier). `log[p][r]` is the table of processing events of the snapshots
`bootstrap` and `fixtures`. `reserved`, `plan`, `fact`, `claims`, `observed`, `issues`
and `bundle` are the tables that identity reservation, mapping artifacts, promotion,
semantic claims, observations, quality and `freeze_bundle` write. `worker[w]` is the
memory of a process between two of its transactions: the step it is at, its pair,
the operation time it fixed at the start, whether it holds the raw bodies, and how
often it has tried a manual validation.

*Actions.* One action is one transaction. The service opens a new transaction for each
stage, and each one takes the advisory lock of the pair
(`pg_advisory_xact_lock`) before it reads anything, with the lock of the provider when
canonical tables are involved; so transactions on a pair are serial, and what
interleaves are whole transactions. `ParsePair`, `ValidatePair`, `MapPair`,
`PromotePair` and `FinishPair` are the five transactions of `_continue_pair`. Each
begins by reading the pair's stage again (`Diverged`, `Below`), skips what is already
done, and ends as the code does: it commits, rolls back with an error that the code
turns into a quarantine, or rolls back with any other error. `QuarantinePair`,
`RecordRetryableFailure` and `RecordPermanentFailure` are the transactions that record
an error *after* the rollback; `TransactionFails` and `ResumeFails` are retryable
database errors (any transaction may meet one), `Crash` is the death of a process or
`halt_after_stage`. `CreateEnvelopes` and `ValidateManual` are the two transactions of
a manual pair. `Accepts`, `GuardAllows` and `Recording` are
`append_processing_event_idempotent` and the trigger `guard_processing_event`:
idempotent return of a recorded stage first, the trigger second, as in the code.

*Abstractions.* One entity with a set of provider keys stands for the entities of a
capture, one fixture for the fixtures, one player's reading for the observations. Time is in
ticks: the microseconds by which the service spaces the events of a call lie inside
their tick, so a usable time planned in tick `t` meets a cutoff at `t + 1` and not one
at `t`. A usable time that equals its cutoff therefore does not occur, and whether the code compares them with `<` or `<=` is not checked. `seen`, the clock at which an event commits, is a history variable: no row stores
it. `CANCELLED` is a stage of the database that nothing writes.

### CanonicalFacts

*State.* `versions` are the rows of one fact in the order of their insertion, each with the system instants between which
it is known (`from`, `to`) and the instant from which it is valid (`valid`: the kickoff, or the season's start); `call[c]` is
the memory of an importing or correcting call and, afterwards, its outcome. *Actions.*
`BeginImport` fixes a system time (`_operation_time`). An import's transaction is two actions: `ReadCurrent` is the start of
`SELECT ... FOR UPDATE`, `Promote` what follows once the lock is granted: insert, reuse, supersede, ignore or refuse
(`_fixture_assignment`). In between a correction may commit; under READ COMMITTED the statement then looks at the row again,
finds it closed and returns nothing, so the import inserts and meets the exclusion constraint of current rows (`excluded`). The provider's lock
keeps imports apart, so at most one is `reading`. `BeginCorrection` reads the version a person corrects and takes the
instant from which the correction is known, which is the caller's; `Correct` is `_supersede`, which refuses a version that is no longer open.
`AsOf` is `get_gameweek_as_of`: the versions known at one instant *and* valid at another (`_as_of_statement`).
*Abstractions.* Validity has a start and no end, as the ranges that imports write; corrections with an end of validity, and
`assign_gameweek` without `supersedes`, are not modelled. A correction's source is usable and not yet attached to
the fact, which the repository checks before anything this module describes.

### ChipInventory and ChipReplay

The functions of `chips/inventory.py` take an inventory and return another one or raise a
`ChipError`. Each is a condition (`Selectable`, `Cancellable`, `Activatable`) and a value
(`Selected`, `Cancelled`, `Activated`, `Advanced`), and the specification lets a manager
call them in any order, under any bundle of `Bundles`, from the inventory that
`build_chip_inventory` makes at any Gameweek. A token's identifier is a number in the
order of names. `ChipReplay` is `validate_chip_inventory`: it replays the commands of an
inventory on the same functions: they are a set of records, folded in the order in which the code sorts them (`Before`: Gameweek, token,
position in the history); a call that raises leaves `Rejected`, which no later call leaves. Digests and
lineage checks are left out: an inventory is its content.

### OddsRetrieval

*State.* `elapsed` is the time since `deadline_started`; `attempt`, `request`, `sentAt`, `addresses` and
`result` are the local variables of `_unsafe_fetch` and of the transport for the attempt in flight;
`attempts` is the list of evidence it returns. `allowance` is what the provider would still grant,
`evidence` the latest recorded quota observation, `stage` the lifecycle of the envelope a call left.
*Actions.* One action is one blocking operation and the bound computed just before it (resolve, connect
to one address, handshake, write, one receive), or one decision of the loop (`Conclude`, `GiveUp`, `Retry`).
An operation of the provider takes any time up to its bound; `ConnectTimesOut` and `ReadTimesOut` are the same socket calls
when the provider stays silent for as long as the socket waits. `RecordAttempts`
is the transaction of `_record_live_attempts`, after which the envelope of a successful call is `RAW_DISCARDED` and the evidence that counts is the
one *observed* last (`overtaken` says that another process observed one later than this call did); `SettleSnapshot` is the transaction that rejects or quarantines
the envelope. `OtherCall` is another process with the same key; `Refill` a new period of the provider.
*Abstractions.* Only blocking operations take time. Bodies, headers and addresses have no content: an answer is its
class, its quota and its `Retry-After`. The wall clock is not used by any decision.

### OddsPublication

*State.* `stage`, `activated`, `event`, `usable` and `issues` are the rows of a snapshot: its lifecycle, the
commit time of its publication batch, the `event_at` of its `USABLE` event, its attestation and its blocking issues, each with the times at
which it was detected and resolved.
`worker[w]` is a process between two transactions, `locked[w]` the quality subjects its transaction holds;
`told[s]` is a history variable: the usable times reported to importers and repairers.
*Actions.* One action is one transaction or one reading of the clock; the normalisation's transaction is three
(`ReadRows`, `Assess`, `PersistRun`), because under READ COMMITTED other transactions commit between its
statements. `Activate`, `Quarantine`, `RaiseIssue` and `ResolveIssue` wait for a subject's lock: that of a book is taken by the guards of migration 0005, that of
an issue by the trigger `trg_data_quality_bundle_lock` of migration 0003, which precedes every insert *and* update of an issue of
a snapshot, resolutions included. The times of an issue are columns that the writer fills, before the trigger waits: `RaiseIssue` and `ResolveIssue` take any
time, except that none is resolved before it was detected. An activation ends in one of three ways: it commits, the
guard refuses a snapshot with an open issue (`ActivationRefused`), or what it would publish contradicts what is stored (`ActivationConflicts`: an ingestion
error that is quarantined in a transaction of its own).
*Abstractions.* A snapshot carries one book of one operator and fixture. A run is not kept, since nothing
modelled reads it. Issues are blocking and of one snapshot: those of a fixture or of an ingestion run are left out, and so are warnings. The bundle replay, whose clock is
the bundle's, is not modelled: its batches are attested as of the times the bundle declares.

### ChipState, TransferPlan and ManagerSeason

`ChipState` holds what `rules/chips.py` does to a `ChipManagerState`, `TransferPlan` what `optimisation/`
and the two chip evaluators do to a `ManagerState`; both are operators from a state to a condition or a successor. `ManagerSeason`
is the specification that calls them: within a Gameweek the manager plays, confirms, cancels, finalises and replaces squads in
the chip state, in any order the functions admit and with any arguments they accept: counts that are negative (`play_chip` compares
them with nothing but a threshold), squads no quota allows, a bank and purchase prices that come from nowhere (`ReplaceSquad`). `ReplaceByTransfers` is the same function
given the finances that the planner computes. At the end of the Gameweek the optimiser applies an event:
the Wildcard's; under a Free Hit any configured event that waives the hits, since `free_hit.py` asks no more of it; otherwise
any the node may carry (`NodeEvents`), preseason and late entry in any Gameweek. Then the chip state is completed, and new prices are observed. The
driver is where the two meet; the code has no function for ordinary transfers in the chip state (its caller writes the resulting squad), so the driver
copies that of the optimiser. Two history variables say what can be compared: `began` is what the chip state held when the Gameweek
began, and `agreed` whether both were last told the same of the purse (no longer once a Wildcard's caller gave finances of his own) and of the saved free transfers (no longer once the event of a
Free Hit changed them in the plan: the chip state never learns of it).
*Abstractions.* Ownership spells that ended are left out (no transition reads them), and so are hashes
and lineage; which squads satisfy quotas and club limits is the constant `LegalSquads`. `MayApply` leaves out the sets of
purchasable and admitted players, which only restrict it further. The instance
keeps `TransferLimit` at least the size of a squad, as the code's 20 is against 15: below it the planner would refuse a
Wildcard that the rules allow.

Definitions marked *Mutation* are what a plausible bug would make of the definition they
precede. Nothing uses them; substituting one shows that the property it is paired with
in `PROJECT.json` really depends on that code.

## 3. What is checked

| Run | Instance | States | Properties |
|---|---|---|---|
| `pair_race` | 2 pairs with 4 possible sources, 2 processes, 1 fault, a still clock | 116,648 | `MembersAgree`, `LegalHistory`, `OneReadingPerInstant` |
| `pair_faults` | 1 pair of any of 7 kinds (3 of them manual), 2 processes, 2 faults and a third for manual pairs, a clock that passes the cutoffs | 148,932 | `PairInvariant`, `BundleIffUsableInTime`, `EvidenceIsPermanent`, `ReturnsSettled`, `ImplementsLifecycle` |
| `pair_settles` | 3 pairs with overlapping keys, captured at up to 3 instants, 1 process, 1 fault, fairness | 11,113 | `PlansHold`, `FactFollowsPromoted`, `PairsSettle` |
| `fact_versions` | 3 calls, 2 values, instants 0..3, 2 starts of validity | 558,032 | `ChainInvariant`, `OneVersionAsOf`, `AnswersStand`, `SupersededOnce` |
| `chip_inventory` | 3 tokens, 4 bundles, 5 Gameweeks, histories of up to 4 events before a selection | 242,174 | `ExerciseInvariant`, `OccupancyWithinLimit`, `PendingIsCurrent`, `RightsFollowTheirGrant`, `HistoryInOrder`, `AdvanceComposes`, `SingleSelectionsValidate` |
| `odds_retrieval` | any number of calls of up to 2 attempts, 2 addresses, timeouts 1, 2 and 4, a quota of 3 at 2 a request, a provider that may fall silent, fairness | 183,273 | `TypeOK`, `EvidenceTellsTheCall`, `ThrottleIsRespected`, `DepletionEndsTheCall`, `SocketsKeepDeadline`, `CallsReturn` |
| `odds_publication` | 2 snapshots under 3 assignments of descriptions, 2 processes, 1 incident, 1 normalisation, issues of any dates, instants 0..2, fairness | 375,759 | `PublicationInvariant`, `NoLookAhead`, `AnswersAgree`, `ChosenStaysEligible`, `ReadsSettle`, `EveryBatchAttested` |
| `manager_season` | 5 squads of 2 from a pool of 4, 2 price lists, 4 Gameweeks, all four chips, counts from -1 to 2, finances of the planner or of the caller | 263,512 | `StateIsCoherent`, `RulesAndPlannerAgree`, `ChipsKeepToTheirInventory`, `FreeTransfersAreEarned`, `FreeHitLeavesNoTrace`, `TransfersConserveValue` |

What they show:

* **Two processes on one pair.** Whatever the interleaving of imports and resumes, the two
  members of a pair carry the same history (`MembersAgree`), that history is a legal climb
  (`LegalHistory`), and seen through `LastGood` the pair takes only the steps of
  `PairLifecycle` (`ImplementsLifecycle`): the skips and idempotent returns of a process that
  lags behind never make a pair leave its ladder. A call that returns by itself leaves its
  pair settled (`ReturnsSettled`).
* **Promotion.** The current assignment is one that a promoted capture made. A promoted capture taken
  then or later that says something else only ever *confirmed* an assignment older still
  (`FactFollowsPromoted`). It is tempting to claim more, that the assignment is what the latest promoted
  capture says; two pairs never violate that, and three do: a confirmation does not refresh the instant of
  what it confirms, so a capture taken in between and promoted last supersedes it. That is the disagreement of
  `older_replay` ([section 5](#5-disagreements)), met here through the service itself. Two captures of one
  instant with different readings are never both promoted (`OneReadingPerInstant`), whichever order their
  transactions commit in.
* **Bundles and evidence.** A bundle exists exactly for a pair whose usable time meets its
  cutoff (`BundleIffUsableInTime`); no step withdraws an event, an identity, a claim, an
  observation or a bundle (`EvidenceIsPermanent`).
* **Identities.** Pairs that share a provider key are mapped to one identity in every order
  of commits, and a plan verified at promotion still holds (`PlansHold`).
* **Settling.** Under fairness, every stored synthetic pair ends usable or quarantined
  (`PairsSettle`).
* **Facts.** Three writers never break the chain and never lose an update; an as-of read finds at most one version
  (`OneVersionAsOf`), and what it found, or that it found nothing, changes only by a call whose own system time is not later than the
  instant it asked for (`AnswersStand`): imports that commit out of order and corrections never rewrite what was known before them.
* **Chips.** Over every sequence of calls, uses of a group never overlap, gaps are kept, no
  Gameweek holds more chips than the limit, a right is usable throughout its window and gone
  after its expiry, a pending selection does not survive its Gameweek, to advance by way of a
  Gameweek is to advance, and the verifier accepts every inventory in which no two tokens were
  selected in one Gameweek.
* **Retrievals.** No connect, handshake, write or receive of any attempt carries a call past its deadline
  (`SocketsKeepDeadline`); after a 429 the next request waits as long as was applied, and never goes out at once
  (`ThrottleIsRespected`); after an answer whose quota no longer covers a request none is sent (`DepletionEndsTheCall`); what is
  recorded is one entry per request, in which a retry is promised exactly where one followed
  (`EvidenceTellsTheCall`), and every call ends although the provider may be silent from any point on (`CallsReturn`).
* **Publication.** No query sees a batch as of a time before its commit (`NoLookAhead`), whoever attests it;
  all who attest it report the time that stands (`AnswersAgree`); while a normalisation holds its locks its
  choice stays eligible (`ChosenStaysEligible`); and once no attestation sampled by a past time is pending, the answer as of that time changes only when
  an issue of a book in it is raised or resolved under a date not later than it (`ReadsSettle`). Such issues exist: nothing keeps `detected_at` from being
  before the commit, and `tests/integration/markets/test_normalisation_asof_cache_concurrency.py:312` dates one back; what the property excludes is that anything else
  rewrites an answer, an import, a repair, a crash, a later attestation, or an issue of a later date. Every batch is attested in the end (`EveryBatchAttested`).
* **A season.** The rules and the optimiser agree after every Gameweek on the squad and the cost of further transfers, and on bank, purchase prices and saved
  free transfers as far as both were told the same (`RulesAndPlannerAgree`), through Wildcards replaced several times and Free Hits. Whatever arguments the
  functions accept, what they return keeps the combinations that the bypassed validator demands (`StateIsCoherent`); it does *not* keep the signs: a negative
  count and negative purchase prices are stored ([section 5](#5-disagreements)). A Free Hit gives back what its Gameweek began with (`FreeHitLeavesNoTrace`).
  Moves only exchange players for money at one price (`TransfersConserveValue`). Some of this is less than it seems: the purse of an ordinary Gameweek is copied by the driver, so agreement on it
  tests the chips and not the transfers; `Value` and the transfers share one `SellingPrice`, so its rounding is not checked against anything else; and
  `earned` uses the planner's own count of free transfers used.

*Why the bounds are enough.* A pair is touched by at most two processes in any of these
conflicts (the one that lags and the one that overtakes), and two pairs suffice for a
contradiction; the third pair of `pair_settles` is needed because a conflict of identities takes two
mapped pairs and one that joins their keys, and because what a confirmation leaves behind shows only when a third capture
comes between the other two (`FactFollowsPromoted`). `pair_settles` has one process, because a cycle of the fair
specification over three pairs and two processes exceeds what can be searched; what two processes do to one another is in the
runs of safety. `MaxClock` is 0 where time only orders captures, and 1 where
it has to pass a cutoff. Two faults let a crash follow a retryable failure; the third one (`FaultsWithinBudget`: only with
manual pairs, the others gain nothing from it) exhausts the three attempts of a manual validation. Three
calls on a fact give every pair of writers with one before, between or after them, and the instants 0 to 3 leave room for a correction between any two imports; a read as of an instant between the
two starts of validity tells them apart. Five Gameweeks hold two uses of
a chip of duration 2 with a gap of 1. `MaxHistory` cuts only the repetition of select and
cancel: activation and the passage of time are never bounded by it. The timeouts of `odds_retrieval` are small and different, so that each of
the three is the one that binds somewhere, a deadline is met exactly, and a pause ends before, at and after it. Two
snapshots let a normalisation prefer one and fall back on the other; three assignments make payloads captured later, given a later processing time,
incomplete, in conflict with what is stored, and unable to be promoted. Prices rise and fall by odd amounts, so that halves of profits are rounded, over enough Gameweeks for a Free Hit
after a Wildcard and a second copy after a gap. Of the confirmed transfers, only their sign and their order to the thresholds matter (-1 to 2); the finances of `ReplaceSquad` are an empty bank and
negative prices (`Banks`, `Payments`): others that are not the planner's differ from these in nothing that is asked.

`CHECK_DEADLOCK FALSE` is set where the system may stop: every pair
settled and all faults spent, all calls made, the clock at its end, the last Gameweek reached.

Symmetry is used for processes, pairs, calls and values, in runs of safety properties
only (identities are named after the pair that made them and compared with one another).

*Fairness* (`FairSpec` in `pair_settles`, `odds_retrieval` and `odds_publication`). `WF(Step(w))`: a process that is in the middle of a
call goes on; between two transactions it does nothing but compute. `SF(Resuming(p))`: an
operator who sees a pair that is not settled resumes it again and again
(`docs/ingestion/README.md` describes resume as the way to finish an interrupted import);
it has to be strong because a resume needs a process that is free. Nothing is assumed of
imports, faults, crashes or the clock, and faults are finite: with errors for ever nothing
could settle. Manual pairs are left out of `PairsSettle`, since no one can resume them.
A retrieval goes on (`WF(Unaided \/ Client)`): the timeouts of its sockets expire and the client acts on what it got. Nothing is assumed of the provider, which may never
answer, nor that any of its actions happens; of a name resolution, which has no timeout, it is assumed that it returns. In `OddsPublication` an operator keeps asking for the repair of a batch (`SF` again, for
want of a free process), and time passes; nothing is assumed of importers that crash.

## 4. What is proved

`TLAPS` proves these for every value of the constants that satisfies the named assumptions.

| Theorem | In words |
|---|---|
| `PairInvariantHolds` | `Spec => []PairInvariant`: types, the agreement of the members, and what a process may rely on |
| `MembersAlwaysAgree` | `Spec => []MembersAgree` |
| `EvidenceStays` | `Spec => EvidenceIsPermanent` |
| `CanonicalInvariantHolds` | `Spec => []CanonicalInvariant`: every history climbs, workers know a rank their pair has reached, and the canonical tables are explained by the pairs |
| `HistoriesStayLegal`, `BundlesAreUsableInTime` | `Spec => []LegalHistory`, `[]BundleIffUsableInTime` |
| `PlansAlwaysHold`, `ReadingsAreUnique`, `FactAlwaysFollows` | `Spec => []PlansHold`, `[]OneReadingPerInstant`, `[]FactFollowsPromoted` |
| `ReturnsAreSettled` | `Spec => ReturnsSettled` |
| `LifecycleImplemented` | `Spec => ImplementsLifecycle`: every step of the service is a step of `PairLifecycle` or a stutter, for every pair |
| `ChainIsKept`, `AsOfReadsAreUnique` | `Spec => []ChainInvariant`, `[]OneVersionAsOf` |
| `AsOfReadsFind` | `Spec => []NotFoundBeforeItHolds`: a read as of two instants finds a version unless the fact was unknown at the one, or the version known then not valid at the other |
| `AsOfAnswersStand` | `Spec => AnswersStand` |
| `NoLostUpdate` | `Spec => []SupersededOnce` |
| `ExerciseHolds`, `GroupsStayApart`, `GapsStayOpen` | `Spec => []ExerciseInvariant` and its two parts |
| `LimitHolds` | `Spec => []OccupancyWithinLimit` |
| `SelectionIsCurrent`, `RightsAreKept` | `Spec => []PendingIsCurrent`, `Spec => []RightsFollowTheirGrant` |
| `HistoriesInOrder`, `AdvancesCompose` | `Spec => []HistoryInOrder`, `Spec => []AdvanceComposes` |
| `HistoriesTellAll` | `Spec => []TokensAsTold`: a token is what its history makes of it at the current Gameweek |
| `SingleSelectionsAreValid` | `Spec => []SingleSelectionsValidate`: the verifier accepts every inventory in which no two tokens were selected in one Gameweek |
| `ForgedInventoriesAreRejected`, `ReachedIsProduced` | `Valid(b, inv) => Produced(b, inv)` for everything that has the shape of an inventory; `Spec => []Produced(bundle, inventory)` |
| `PublicationInvariantHolds`, `NobodyLooksAhead`, `AnswersAlwaysAgree`, `ChoiceIsNeverStale` | `Spec => []PublicationInvariant`, `[]NoLookAhead`, `[]AnswersAgree`, `[]ChosenStaysEligible` |
| `SettledReadsStand` | `Spec => ReadsSettle` |
| `TypeCorrect`, `EvidenceIsComplete`, `ThrottleHolds`, `DepletionHolds` | `Spec => []TypeOK`, `[]EvidenceTellsTheCall`, `[]ThrottleIsRespected`, `[]DepletionEndsTheCall` of `OddsRetrieval` |
| `DeadlineHolds` | `Spec => SocketsKeepDeadline` |
| `SeasonInvariantHolds` | `Spec => []SeasonInvariant`: types, what the chip state and the plan say of one another, a lawful history of chips |
| `StateStaysCoherent`, `RulesAndPlannerAlwaysAgree` | `Spec => []StateIsCoherent`, `[]RulesAndPlannerAgree` |
| `ChipsAreKept`, `FreeTransfersStayEarned` | `Spec => []ChipsKeepToTheirInventory`, `[]FreeTransfersAreEarned` |
| `FreeHitsLeaveNoTrace`, `ValueIsConserved` | `Spec => FreeHitLeavesNoTrace`, `Spec => TransfersConserveValue` |

*Pairs.* `MembersAgree` is not inductive as it stands: `CreateEnvelopes` writes both members of a pair
with one call, so it must be known that the pair was empty and that no other process holds it;
and every later transaction must find a pair that is stored, for `LastGood` to be a stage at all.
`WorkersHoldPairs` says both, and `PairInvariant == TypeOK /\ WorkersHoldPairs /\ MembersAgree`
is inductive: one lemma per action, over lemmas that say what `Recording` and `Lifted` do to
a history (they keep it a history and only append to it). `EvidenceIsPermanent` follows from the
same lemmas and from what `MapPair`, `PromotePair` and `FinishPair` may write.

*Histories and canonical tables.* What a transaction does depends on the stage it reads, and a history is
legal only if the stage a worker assumes is not behind the one that is there. Three ideas carry the proof.
`Climbing` says of a history that it is legal, that its last good stage is its highest, and that it has every rung below
it; any event the guard accepts keeps it (one lemma per kind of event). `Effect` lists the five
ways in which a transaction can change a stored pair. `Requires` says which
rank a worker at a given step knows its pair to have reached; ranks never fall (`RanksKept`), so no other worker takes
that knowledge away. `Sound` is shown of each transaction: it has an effect or none, its worker then knows what the next one
requires, and a call returns by itself only when its pair has ended. `LegalHistory`,
`BundleIffUsableInTime` and `ReturnsSettled` are read off that. `CanonicalInvariant` adds what the tables mean: the
plan of a mapped pair holds (`PlansHold`), a promoted pair has its claim and claims of one instant read the same (`OneReadingPerInstant`), and
the assignment is explained by the promoted pairs (`FactFollowsPromoted`). The refinement needs one more argument: seen
through `LastGood` an effect is one step of the ladder, an escape from it or nothing, and only `FinishPair` writes a bundle, with the
last step.

*Facts.* `Chained` is inductive together with the types. Uniqueness of as-of reads follows
from it through a lemma by which the starts of versions increase along the chain. From its first version on a fact is
known at every instant (`GapFree`, part of the invariant too): the version that was current is closed where its successor
starts, so whatever instant it answered for, one of the two still does. A read that finds nothing (`AS_OF_NOT_FOUND`) therefore asks for an instant before the
fact was known, or before what was known then became valid (`AsOfReadsFind`). `AsOfAnswersStand` compares the rows before and after a write: a
successor starts at the system time of its call or later, so for an instant before that time the row that is closed still answers and the new one does not.
`NoLostUpdate` needs more: `Handles` says that a call's handle is a row, and that the row a
finished call superseded has a successor; `Ordered` says that every row with a successor is
closed. A call closes only an open row, so the row it closes is the last one, which no finished
call can have superseded.

*Chips.* `OccupancyWithinLimit` and `GroupsNeverOverlap` speak of all uses, past and present,
but `activate_token` looks at active tokens only. What connects them is `StatusExplained`: a used
token's interval is over, an active one's holds the current Gameweek, and nothing else
occupies anything. So a new use can meet active tokens only, and since all of those hold
the current Gameweek, counting the overlaps now bounds every later Gameweek as well.
`PendingIsCurrent` and `RightsFollowTheirGrant` are inductive together over that invariant: a step of the clock
first cancels what is pending, then ages it, and `AdvancedRights` shows that one step over any number of
Gameweeks gives a token the status of the Gameweek it reaches. Two lemmas say what appending to a history adds
to the kinds of events it tells of. `HistoryInOrder` is part of the same induction: `Told` ties the events that a history
tells of to the token's status and to the current Gameweek, so that aging never records a second time what is there. `AdvanceComposes` is proved
of every reachable inventory: a selection is dropped by the first step only, a use is completed at its own end
by whichever step passes it, and what two steps of aging append is what one appends (`AddedTwice`), which holds because a right that
survives the first step has its whole expiry ahead.

*The verifier.* `SingleSelectionsValidate` compares an inventory with a fold over the commands of its histories, in an order that is
not the one in which they were given. The proof does not commute commands. It rests on three facts. (1) `HistoriesTellAll`: the status, selection, interval
and last use of a token are a function (`Image`) of its history and of the current Gameweek, and the history is a `Story` the grant admits that
lacks nothing the clock has brought (`UpToDate`); this is an invariant, with one lemma for each way a history grows. (2) The prefix of a history
makes a token in the same way. So a replay of the commands up to some point holds, for each token, the image of a part of its final
history: the part with exactly those commands in it (`Standing`). `Continues` says that between two commands of a token there is nothing but what `advance_inventory`
appends, `Reached` that advancing the replay to the next command's Gameweek therefore keeps that form. (3) The next command is legal there,
because what it asks is known of the *final* inventory: whoever is active in the Gameweek of an activation is in force there in the end too
(`ActiveInForce`), so `OccupancyWithinLimit` and `GroupsNeverOverlap` leave room for it, and `GapsKept` gives its distance from every use
completed by then (`CompletedBefore`). Only a selection asks something that no invariant gives, that nothing else is pending; that is where the
hypothesis of single selections is used (`SelectAgain`), and the only place. `AllRetold` puts this together for every beginning of the
sorted commands, again by a smallest counterexample (`Smallest`), and `NothingLeft` shows that after the last command time alone completes each history.
The counterexample of `chip_reselection` is thus the only kind there is: the verifier never rejects an honest inventory unless two
tokens were selected in one Gameweek. The other direction, that it accepts nothing forged, is `ForgedInventoriesAreRejected`. It is about
any record with the types of an inventory, not about reachable states: `Produced` asks for a finite run of calls (`Calls`, the
guards and values of `Next` without the bound `MaxHistory`) that ends in exactly that record, and each round of the verifier's loop is one such call
after an advance, or rejects. No property of a run states it: the records that are *not* reachable are too many to enumerate.

*Odds publication.* The four invariants are proved together (`IInv`), since each needs the others. `NoLookAhead` needs that a
sample held by a worker is not behind the commit it attests (`WorkersHoldTheirGround`); `AnswersAgree` needs that only batches
are attested; `PublicationInvariant` needs that no two imports work on one snapshot, or one could quarantine what the other publishes. `ChosenStaysEligible` rests on the
locks: what makes a book ineligible needs its subject's lock, and a resolved issue keeps blocking the times before its
resolution, whatever date it is given. `ReadsSettle` is proved action by action: an attestation enters the rows of a time only
if it was sampled by then; an issue that is raised or resolved under a later date blocks as of that time exactly when it did before (`Blocking` looks at dates only, never at the present status), and
one of an earlier date is the exception that the property names.
The lemmas about `FirstEligible` show that it depends on the eligible rows only.

*Odds retrieval.* `OddsRetrieval_proofs!IInv` adds to the stated invariants what links an attempt to the call: the budget of an attempt
plus the time at which it started is the deadline of the call (`Clocked`), every request but the one in flight has its evidence (`Numbered`), what is
known of the last attempt while a retry is due (`Resending`), and which outcome each entry may have (`Truthful`). `Clocked` is what makes
`SocketsKeepDeadline` true of a later attempt: its bounds are computed from its own budget, and only their sum with `sentAt` says anything about the
call. The assumptions are those of the settings' validators (positive timeouts, connect and read within the total,
one to three attempts).

*A season.* None of the properties is inductive: what the two representations must say of one another depends on the chip
in play, on what the Gameweek began with and on what the callers said. `SeasonInvariant` has four parts. `Typed` are the types, in which counts and purchase prices are any integers;
`Described` says that the Gameweek began with the plan's squad, and with its purse if both were told the same (`Owns`), that without a transfer chip the chip state
still is what it was then, that under a Wildcard its two squads are one and its purse, if agreed, is where transfers from the plan's squad lead (`Rebuilt`, so it can be replaced
again and again from the same start), and that under a Free Hit the snapshot is what the Gameweek began with; `Lawful` says that the
history keeps gaps and copies, and that a pending chip *could still be played*, which is why a deadline may lock it without asking
again; the last part bounds the free transfers by those earned. `ValueIsConserved` is about sums over squads, and so about a fold. The
library's induction theorems are out of reach, but not the argument behind them: if a law of sums failed for some subset of a finite set, it
would fail for one with the fewest elements (`Minimal`, from the well-foundedness of `<`), and removing an element from that one
gives a contradiction. `SumExists`, `SumTakeOut`, `SumUnion` and `SumSame` are proved that way, with any order of
summation that `CHOOSE` picks.

*Assumptions.* All are named and evaluated by TLC on the instances. `EventsAssumption` (`ManagerSeason`) says what the events of
`rules/multi_gameweek.py` are: events may reset the free transfers only to none and before they count, nothing resets them
afterwards, `NORMAL` neither resets nor waives hits, and the hit of the event table is the one of the chip rules. Nothing is assumed of the event that a Free Hit
is evaluated with, except that it waives the hits, which `free_hit.py` checks. `LegalSquads` has no empty squad, because `squad_size` is positive. `Starts` (`CanonicalFacts`) are instants, and the calls finitely many.

Only model-checked: the liveness properties `PairsSettle`, `CallsReturn` and `EveryBatchAttested` (the provers have no rules for
fairness, nor for `ENABLED`). Every invariant and every action property that a passing run checks is also a theorem, and so is the refinement of `PairLifecycle`.

## 5. Disagreements

Four runs end in a counterexample, each to a sentence of the repository's own documents.

* `older_replay`: a capture that *confirms* the current version does not refresh its source, so an
  older capture with another value can still supersede it, against `docs/ingestion/README.md:45`.
* `quarantine_overtaken`: a quarantine is recorded after its transaction has rolled back; in between
  another process may have promoted the pair, which is then promoted *and* quarantined, against
  `specs/approved/DMFP-03_CANONICAL_DATA_MODEL_AND_IDENTIFIERS.txt:3184`. It takes three pairs: a
  contradiction at one instant, and a later capture that removes it before the resume.
* `cutoff_backdated`: the operation time is sampled when a call begins, so a pair promoted after
  its cutoff by a call that began before it is published, against
  `specs/approved/DMFP-05_INGESTION_STORAGE_AND_DATA_QUALITY.txt:1582`.
* `chip_reselection`: the verifier of chip inventories replays the commands of one Gameweek in the order
  of token names and so rejects an inventory that legal calls produced, against its own
  docstring.

Other observations, which no run states as a violated property:

* `free_hit.py:226` and `:356` evaluate a Free Hit with any event that waives the hits. The free transfers that the plan keeps are what that event makes of them, and `complete_chip_gameweek`
  leaves `saved_free_transfers` alone, so chip state and plan agree on them only if the event earns nothing and carries all. The game is
  described so (`specs/approved/DMFP-02_FPL_RULES_SCORING_AND_SEASON_CONFIGURATION.txt:1994`), and `tests/unit/chips/test_free_hit.py:58` configures it so; but the events that
  `rules/multi_gameweek.py` compiles are `NORMAL`, `PRESEASON` and `LATE_ENTRY`, of which the two that waive hits reset the free transfers.
* `play_chip` stores a negative `confirmed_transfer_count`, and `replace_chip_squad` negative purchase prices, in fields that `ChipManagerState` declares
  `NonNegativeInt` (`rules/chips.py:97`, `:101`): `model_copy` does not validate. Only a Free Hit notices: `_activate` builds a `FreeHitSnapshot`, whose validation
  raises on a negative price (`MayLock`).

## 6. What is not modelled

* In pair ingestion: live pairs, whose bodies live in a private directory that is swept
  after a crash; network capture; the report objects. A manual pair that crashes between its
  two transactions stays `RAW_DISCARDED` for ever; the model has this state, and no
  property calls it an error, because the code offers no recovery.
* In `data_model`: identity merges, rights approvals, payload retention; validity that ends, and assignments inserted beside others without superseding them.
* In odds: credentials and their redaction, the `urllib` transport, response size limits, the bundle replay, the
  reuse of observations between snapshots, the matching of events to fixtures. A depleted quota that was recorded never ages and
  blocks every later call (`evidence` below `RequestCost` with `allowance` refilled is a reachable state); no document calls that an error.
* In the rules: scoring of a Gameweek, the compilation of rulesets, concurrent activation of a ruleset (`rules/lifecycle.py`).
* In the optimiser: scenario trees, the enumeration and the frontier of plans, the one-Gameweek solver.
* Digests, lineage checks and canonical serialisation: two things with one content are one thing.
* Numerical components (prices, market consensus, forecasts, rank strategy, evaluation,
  solvers): floating-point computations without protocol or shared state. They are most of the code's lines, which
  is why the models cover a small share of them.

## 7. Plan

Done: pair ingestion, canonical facts, chip inventories, odds retrieval and publication, the season of a manager.

To model:

1. `RulesetActivation`: concurrent activators over a file system with atomic rename.
2. `VolatilePair`: the private directory of a live pair, process identifiers and the sweep.
3. `Substitutions`: `resolve_outfield_substitutions` as a function checked against its reference
   over bounded squads.
4. An abstract `ChipRights` that both `ChipState` and `ChipInventory` implement.

To prove: nothing that is stated and within the provers' reach; the modules above, once they are written.
