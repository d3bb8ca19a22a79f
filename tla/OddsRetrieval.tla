---------------------------- MODULE OddsRetrieval ----------------------------
(***************************************************************************)
(* One live retrieval of the odds service: OddsIngestionService.snapshot,  *)
(* the OddsClient it calls, the deadline-bounded HTTP transport under the  *)
(* client, and the quota evidence that one call leaves for the next.       *)
(*                                                                         *)
(*   - A call is admitted when the latest recorded quota observation, if   *)
(*     there is one, covers the cost of a request.                         *)
(*   - One deadline, TotalTimeout after the call's start, covers all its   *)
(*     attempts and the pauses between them.  Each attempt's connect, read *)
(*     and total timeouts are capped by what is left of it, and the socket *)
(*     operations of an attempt recompute their bounds before they block.  *)
(*     Name resolution is the one blocking operation with no timeout.      *)
(*   - Timeouts, lost connections, 429 and transient 5xx answers are tried *)
(*     again while attempts, time and the provider's quota last.           *)
(*   - After the last attempt one transaction records the evidence of all  *)
(*     of them; a crash before it loses that evidence.                     *)
(*                                                                         *)
(* Time is counted from the start of the call (deadline_started) and only  *)
(* blocking operations take any.  The sleeper never returns early, so the  *)
(* client's minimum_elapsed_seconds never exceeds the time elapsed and is  *)
(* left out.  Bodies, headers and targets are not represented.             *)
(***************************************************************************)
EXTENDS Integers, Sequences, SequencesExt, FiniteSetsExt

CONSTANTS
  ConnectTimeout,   \* seconds for reaching the provider and the handshake
  ReadTimeout,      \* seconds for one write or one receive
  TotalTimeout,     \* seconds for the whole call
  MaxAttempts,      \* requests a call may send
  DefaultDelay,     \* pause after a 429 that names no acceptable delay
  MaxRetryAfter,    \* longest Retry-After that is honoured
  RequestCost,      \* quota one request consumes
  Addresses,        \* addresses the provider's host resolves to
  MaxResolve,       \* bound: longest name resolution
  Oversleep,        \* bound: how much longer than asked a sleep may last
  Allowance         \* bound: quota the provider grants per period

ASSUME TimeoutAssumption ==
  /\ ConnectTimeout \in Nat \ {0} /\ ReadTimeout \in Nat \ {0}
  /\ TotalTimeout \in Nat /\ ConnectTimeout + ReadTimeout <= TotalTimeout

ASSUME RetryAssumption ==
  /\ MaxAttempts \in 1..3
  /\ DefaultDelay \in Nat \ {0} /\ MaxRetryAfter \in Nat
  /\ DefaultDelay <= MaxRetryAfter

ASSUME BoundAssumption ==
  /\ RequestCost \in Nat \ {0} /\ Addresses \in Nat \ {0}
  /\ {MaxResolve, Oversleep, Allowance} \subseteq Nat

VARIABLES
  pc,          \* what the call is doing
  elapsed,     \* time since deadline_started
  attempt,     \* number of the attempt in flight
  request,     \* its timeouts
  sentAt,      \* when its transport started
  addresses,   \* addresses its connect has not tried yet
  result,      \* what its transport came back with
  attempts,    \* the evidence of the finished attempts
  allowance,   \* quota the provider has left for this key
  evidence,    \* remaining of the provider_quota_observation observed last
  overtaken,   \* whether that was observed after the last one of this call
  stage        \* lifecycle of the envelope the last call recorded last

callVars == <<attempt, request, sentAt, addresses, result, attempts>>
vars == <<pc, elapsed, callVars, allowance, evidence, overtaken, stage>>

Unknown == -1

Silence == [code |-> "NONE", quota |-> Unknown, retryAfter |-> 0, answered |-> FALSE]

FullRequest == [connect |-> ConnectTimeout, read |-> ReadTimeout, total |-> TotalTimeout]

(* Mutation: every attempt has the whole budget.                           *)
BoundedAnew(at) == FullRequest

(* The next attempt's timeouts from the one total budget.                  *)
Bounded(at) ==
  LET left == TotalTimeout - at IN
    [ connect |-> Min({ConnectTimeout, left}), read |-> Min({ReadTimeout, left}),
      total |-> left ]

Init ==
  /\ pc = "idle" /\ elapsed = 0
  /\ attempt = 0 /\ request = FullRequest /\ sentAt = 0 /\ addresses = 0
  /\ result = Silence /\ attempts = <<>>
  /\ allowance = Allowance /\ evidence = Unknown /\ overtaken = FALSE /\ stage = "NONE"

(* The call is over, or its process died: its memory is gone.              *)
Returned ==
  /\ pc' = "idle" /\ elapsed' = 0
  /\ attempt' = 0 /\ request' = FullRequest /\ sentAt' = 0 /\ addresses' = 0
  /\ result' = Silence /\ attempts' = <<>> /\ overtaken' = FALSE

-----------------------------------------------------------------------------
(* The client: admission, and the start of an attempt.                     *)

Sends(n, timeouts, at) ==
  /\ attempt' = n /\ request' = timeouts /\ sentAt' = at
  /\ addresses' = Addresses /\ result' = Silence
  /\ pc' = "resolve"

BeginSnapshot ==
  /\ pc = "idle"
  /\ evidence = Unknown \/ evidence >= RequestCost
  /\ Sends(1, FullRequest, elapsed)
  /\ UNCHANGED <<elapsed, attempts, allowance, evidence, overtaken, stage>>

-----------------------------------------------------------------------------
(* The transport.  An operation that blocks takes d; one that outlasts its *)
(* bound times out, and is called a total timeout when the total deadline  *)
(* is what bounded it.                                                     *)

TotalLeft == request.total - (elapsed - sentAt)
ConnectLeft == request.connect - (elapsed - sentAt)

ConnectBound == Min({ConnectLeft, TotalLeft})
ReadBound == Min({request.read, TotalLeft})

(* phase_total_limited is read off the first bound of the phase.           *)
ConnectExpiry == IF request.total <= request.connect THEN "TOTAL_TIMEOUT" ELSE "CONNECT_TIMEOUT"
ReadExpiry == IF TotalLeft <= request.read THEN "TOTAL_TIMEOUT" ELSE "READ_TIMEOUT"

Moves(phase, d) ==
  /\ pc' = phase /\ elapsed' = elapsed + d
  /\ UNCHANGED <<attempt, request, sentAt, result, attempts, evidence, overtaken, stage>>

Ends(r, d) ==
  /\ pc' = "received" /\ elapsed' = elapsed + d /\ result' = r
  /\ overtaken' = (overtaken /\ r.quota = Unknown)
  /\ UNCHANGED <<attempt, request, sentAt, addresses, attempts, allowance, evidence, stage>>

Fails(code, d) == Ends([Silence EXCEPT !.code = code], d)

Resolve ==
  /\ pc = "resolve"
  /\ \E d \in 0..MaxResolve :
       \/ Moves("connect", d) /\ UNCHANGED <<addresses, allowance>>
       \/ Fails("SOURCE_UNAVAILABLE", d)

(* A bound that has run out is an error before the operation starts.       *)
ConnectOverdue ==
  /\ pc \in {"connect", "handshake"}
  /\ \/ TotalLeft <= 0 /\ Fails("TOTAL_TIMEOUT", 0)
     \/ TotalLeft > 0 /\ ConnectLeft <= 0 /\ Fails("CONNECT_TIMEOUT", 0)

InConnectTime(phase) == pc = phase /\ TotalLeft > 0 /\ ConnectLeft > 0

Connect ==
  /\ InConnectTime("connect")
  /\ \E d \in 0..ConnectBound : Moves("handshake", d) /\ UNCHANGED <<addresses, allowance>>

(* An address that refuses is given up for the next one.                  *)
NextAddress ==
  /\ InConnectTime("connect")
  /\ \E d \in 0..ConnectBound :
       \/ /\ addresses > 1
          /\ Moves("connect", d) /\ addresses' = addresses - 1 /\ UNCHANGED allowance
       \/ addresses = 1 /\ Fails("SOURCE_UNAVAILABLE", d)

Handshake ==
  /\ InConnectTime("handshake")
  /\ \E d \in 0..ConnectBound :
       \/ Moves("write", d) /\ UNCHANGED <<addresses, allowance>>
       \/ \E code \in {"TLS_ERROR", "SOURCE_UNAVAILABLE"} : Fails(code, d)

(* Mutation: the sockets of the connect phase are left without a timeout.  *)
ConnectUntimed == FALSE

(* The provider stays silent for as long as the socket waits.              *)
ConnectTimesOut ==
  \/ /\ InConnectTime("connect") /\ addresses > 1
     /\ Moves("connect", ConnectBound) /\ addresses' = addresses - 1 /\ UNCHANGED allowance
  \/ /\ \/ InConnectTime("connect") /\ addresses = 1
        \/ InConnectTime("handshake")
     /\ Fails(ConnectExpiry, ConnectBound)

ReadOverdue == pc \in {"write", "read"} /\ TotalLeft <= 0 /\ Fails("TOTAL_TIMEOUT", 0)

InReadTime(phase) == pc = phase /\ TotalLeft > 0

ReadTimesOut ==
  (InReadTime("write") \/ InReadTime("read")) /\ Fails(ReadExpiry, ReadBound)

(* The provider charges the request it receives.                           *)
Write ==
  /\ InReadTime("write")
  /\ \E d \in 0..ReadBound :
       \/ /\ Moves("read", d) /\ UNCHANGED addresses
          /\ allowance' = Max({0, allowance - RequestCost})
       \/ Fails("SOURCE_UNAVAILABLE", d)

(* One receive that does not complete the response.                        *)
ReceiveMore ==
  /\ InReadTime("read")
  /\ \E d \in 1..ReadBound : Moves("read", d) /\ UNCHANGED <<addresses, allowance>>

ReceiveFails ==
  /\ InReadTime("read")
  /\ \E d \in 0..ReadBound : Fails("SOURCE_UNAVAILABLE", d)

(* The answers of the provider: a success, a throttle with or without a    *)
(* delay, a transient or a final error; with or without valid quota        *)
(* headers.  A delay of 0 stands for a missing or unusable Retry-After.    *)
Answers ==
  [ code : {"OK", "HTTP_5XX", "HTTP_4XX"}, quota : {Unknown, allowance},
    retryAfter : {0}, answered : {TRUE} ]
  \cup
  [ code : {"HTTP_429"}, quota : {Unknown, allowance},
    retryAfter : 0..(MaxRetryAfter + 1), answered : {TRUE} ]

(* The read loop checks the total deadline once more after the last chunk. *)
ReceiveAll ==
  /\ InReadTime("read")
  /\ \E d \in 0..ReadBound :
       IF d < TotalLeft THEN \E r \in Answers : Ends(r, d) ELSE Fails("TOTAL_TIMEOUT", d)

(* What the provider does, and what needs nothing of it.                   *)
Provider == Connect \/ NextAddress \/ Handshake \/ Write \/ ReceiveMore \/ ReceiveFails \/ ReceiveAll

Unaided == Resolve \/ ConnectOverdue \/ ConnectTimesOut \/ ReadOverdue \/ ReadTimesOut

Transport == Provider \/ Unaided

-----------------------------------------------------------------------------
(* The client: what follows from an attempt's outcome.                     *)

Expired == elapsed >= TotalTimeout

FailureCode(r) ==
  IF Expired THEN "TOTAL_TIMEOUT"
  ELSE IF r.answered /\ r.quota = Unknown THEN "QUOTA_HEADERS_INVALID"
  ELSE r.code

Transient ==
  {"CONNECT_TIMEOUT", "READ_TIMEOUT", "TOTAL_TIMEOUT", "SOURCE_UNAVAILABLE", "HTTP_429", "HTTP_5XX"}

(* Mutation: a Retry-After beyond the limit is retried at once.            *)
AppliedDelayOrNone(r) ==
  IF r.code = "HTTP_429" /\ r.retryAfter <= MaxRetryAfter THEN r.retryAfter ELSE 0

(* _retry_delay: only a 429 is followed by a pause.                        *)
AppliedDelay(r) ==
  IF r.code # "HTTP_429" THEN 0
  ELSE IF r.retryAfter \in 1..MaxRetryAfter THEN r.retryAfter
  ELSE DefaultDelay

(* Mutation: only an absent allowance blocks, not an insufficient one.     *)
QuotaRemains(r) == r.quota # 0

QuotaCovers(r) == r.quota = Unknown \/ r.quota >= RequestCost

(* Mutation: the first request is not counted.                             *)
AttemptsLeftAfterFirst == attempt <= MaxAttempts

AttemptsLeft == attempt < MaxAttempts

Retries(r) ==
  /\ ~Expired
  /\ FailureCode(r) \in Transient
  /\ QuotaCovers(r)
  /\ AttemptsLeft
  /\ elapsed + AppliedDelay(r) < TotalTimeout

Outcome(r) ==
  IF FailureCode(r) = "OK" THEN "SUCCESS"
  ELSE IF Retries(r) THEN "RETRY_SCHEDULED" ELSE "TERMINAL_FAILURE"

Conclude ==
  /\ pc = "received"
  /\ attempts' = Append(attempts,
       [ outcome |-> Outcome(result), code |-> FailureCode(result), quota |-> result.quota,
         delay |-> IF Retries(result) THEN AppliedDelay(result) ELSE 0,
         startedAt |-> sentAt, receivedAt |-> elapsed ])
  /\ pc' = IF ~Retries(result) THEN "record"
            ELSE IF AppliedDelay(result) > 0 THEN "pause" ELSE "again"
  /\ result' = Silence
  /\ UNCHANGED <<elapsed, attempt, request, sentAt, addresses, allowance, evidence, overtaken, stage>>

(* Mutation: the evidence still promises a retry.                          *)
StillScheduled == attempts

(* The deadline passed during the pause: the retry that was promised is    *)
(* taken back.                                                             *)
TakenBack == [attempts EXCEPT ![Len(attempts)].outcome = "TERMINAL_FAILURE"]

Overran == elapsed >= TotalTimeout

(* The sleep before the retry of a 429.                                    *)
Pause ==
  /\ pc = "pause"
  /\ \E d \in 0..Oversleep : elapsed' = elapsed + Last(attempts).delay + d
  /\ pc' = "again"
  /\ UNCHANGED <<attempt, request, sentAt, addresses, result, attempts,
                 allowance, evidence, overtaken, stage>>

GiveUp ==
  /\ pc = "again"
  /\ Overran
  /\ attempts' = TakenBack
  /\ pc' = "record"
  /\ UNCHANGED <<elapsed, attempt, request, sentAt, addresses, result,
                 allowance, evidence, overtaken, stage>>

Retry ==
  /\ pc = "again"
  /\ ~Overran
  /\ Sends(attempt + 1, Bounded(elapsed), elapsed)
  /\ UNCHANGED <<elapsed, attempts, allowance, evidence, overtaken, stage>>

-----------------------------------------------------------------------------
(* The service: the evidence of every attempt in one transaction.          *)

Succeeded == Last(attempts).outcome = "SUCCESS"

Measured == {i \in DOMAIN attempts : attempts[i].quota # Unknown}

(* Of all quota observations the one observed last counts.                 *)
RecordAttempts ==
  /\ pc = "record"
  /\ evidence' = IF Measured = {} \/ overtaken THEN evidence ELSE attempts[Max(Measured)].quota
  /\ IF Succeeded
     THEN pc' = "settle" /\ stage' = "RAW_DISCARDED" /\ UNCHANGED <<elapsed, callVars, overtaken>>
     ELSE Returned /\ stage' = "REJECTED"
  /\ UNCHANGED allowance

(* A controlled snapshot is never promoted: it has no approved mapping     *)
(* plan, or its body does not parse.                                       *)
SettleSnapshot ==
  /\ pc = "settle"
  /\ stage' \in {"REJECTED", "QUARANTINED"}
  /\ Returned
  /\ UNCHANGED <<allowance, evidence>>

(* The process dies, or the database refuses the evidence.                 *)
Crash ==
  /\ pc # "idle"
  /\ Returned
  /\ UNCHANGED <<allowance, evidence, stage>>

(* Another process spends quota, and records what it then observed.        *)
OtherCall ==
  /\ allowance >= RequestCost
  /\ allowance' = allowance - RequestCost
  /\ \/ UNCHANGED <<evidence, overtaken>>
     \/ evidence' = allowance' /\ overtaken' = (pc # "idle")
  /\ UNCHANGED <<pc, elapsed, callVars, stage>>

(* The provider starts a new period.                                       *)
Refill ==
  /\ allowance' = Allowance
  /\ UNCHANGED <<pc, elapsed, callVars, evidence, overtaken, stage>>

Client == Conclude \/ Pause \/ GiveUp \/ Retry \/ RecordAttempts \/ SettleSnapshot

Next == BeginSnapshot \/ Transport \/ Client \/ Crash \/ OtherCall \/ Refill

Spec == Init /\ [][Next]_vars

(* A call in progress goes on by itself: timeouts expire, the client acts  *)
(* on what it got, and a name resolution is assumed to return.  Nothing is *)
(* assumed of the provider, which may fall silent at any point.            *)
FairSpec == Spec /\ WF_vars(Unaided \/ Client)

-----------------------------------------------------------------------------
(* Properties.                                                             *)

Sockets == {"connect", "handshake", "write", "read"}

PCs == Sockets \cup {"idle", "resolve", "received", "pause", "again", "record", "settle"}

Codes == Transient \cup {"NONE", "OK", "TLS_ERROR", "HTTP_4XX", "QUOTA_HEADERS_INVALID"}

Horizon == TotalTimeout + Max({MaxResolve, Oversleep})

Evidence ==
  [ outcome : {"SUCCESS", "RETRY_SCHEDULED", "TERMINAL_FAILURE"}, code : Codes,
    quota : Unknown..Allowance, delay : 0..MaxRetryAfter,
    startedAt : 0..Horizon, receivedAt : 0..Horizon ]

TypeOK ==
  /\ pc \in PCs
  /\ elapsed \in 0..Horizon
  /\ attempt \in 0..MaxAttempts
  /\ request \in [connect : 1..ConnectTimeout, read : 1..ReadTimeout, total : 1..TotalTimeout]
  /\ sentAt \in 0..TotalTimeout
  /\ addresses \in 0..Addresses
  /\ result \in [ code : Codes, quota : Unknown..Allowance,
                  retryAfter : 0..(MaxRetryAfter + 1), answered : BOOLEAN ]
  /\ attempts \in Seq(Evidence) /\ Len(attempts) <= MaxAttempts
  /\ allowance \in 0..Allowance
  /\ evidence \in Unknown..Allowance
  /\ overtaken \in BOOLEAN
  /\ stage \in {"NONE", "RAW_DISCARDED", "REJECTED", "QUARANTINED"}

(* What is recorded of a call is the whole of it: every request it sent    *)
(* has its evidence, every failure but the last led to another request,    *)
(* the last one did not, and a success is an answer received before the    *)
(* deadline (attempt_outcome, _record_live_attempts).                      *)
EvidenceTellsTheCall ==
  pc \in {"record", "settle"} =>
    /\ Len(attempts) = attempt
    /\ \A i \in DOMAIN attempts :
         attempts[i].outcome = "RETRY_SCHEDULED" <=> i < attempt
    /\ Succeeded <=> Last(attempts).code = "OK"
    /\ Succeeded => Last(attempts).receivedAt < TotalTimeout

(* No connect, handshake, write or receive of any attempt, first or last,  *)
(* carries the call past the deadline that was set when it began; only a   *)
(* name resolution or a sleep that lasts too long does (_connect_bound,    *)
(* _read_bound, _bounded_retry_request).                                   *)
SocketsKeepDeadline ==
  [][ (pc \in Sockets) => elapsed' <= Max({elapsed, TotalTimeout}) ]_vars

(* After a 429 the next request waits at least as long as was applied,     *)
(* which is what the provider asked for if that is within the limit; it is *)
(* never sent at once (_retry_delay).                                      *)
ThrottleIsRespected ==
  \A i \in DOMAIN attempts :
    attempts[i].code = "HTTP_429" =>
      LET next == IF i < Len(attempts) THEN attempts[i + 1].startedAt ELSE sentAt IN
        i < attempt =>
          /\ next >= attempts[i].receivedAt + attempts[i].delay
          /\ attempts[i].delay > 0

(* A call that has been told the provider's quota no longer covers a       *)
(* request sends no other, whatever the answer was (quota_blocks_retry).   *)
DepletionEndsTheCall ==
  \A i \in DOMAIN attempts :
    attempts[i].quota \in 0..(RequestCost - 1) => i = attempt /\ pc \notin {"pause", "again"}

(* A call that was admitted comes to an end although the provider may be   *)
(* silent from any point on: whatever blocks has a timeout of its own, and *)
(* no combination of bounds that run out, addresses that are given up,     *)
(* answers that trickle in and pauses that overrun leaves it waiting       *)
(* (_connect_tcp, _apply_read_bound, _DeadlineSocketReader).               *)
CallsReturn == pc # "idle" ~> pc = "idle"

=============================================================================
