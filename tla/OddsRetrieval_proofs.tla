------------------------ MODULE OddsRetrieval_proofs ------------------------
(***************************************************************************)
(* Proofs about OddsRetrieval, for any timeouts, quota, addresses and      *)
(* bounds that its assumptions admit: the types, the evidence of a call,   *)
(* the pauses after a throttle, the end at a depleted quota, and the       *)
(* deadline that every socket operation keeps.                             *)
(***************************************************************************)
EXTENDS OddsRetrieval, SequenceTheorems, TLAPS

Sending == Sockets \cup {"resolve", "received"}

(* The budgets of an attempt add up to the deadline.                       *)
Clocked ==
  /\ request.total + sentAt = TotalTimeout
  /\ sentAt <= elapsed
  /\ pc = "resolve" => elapsed < TotalTimeout
  /\ pc = "idle" => elapsed = 0

(* Every request but the one in flight has its evidence.                   *)
Numbered ==
  /\ IF pc = "idle" THEN attempt = 0 ELSE attempt \in 1..MaxAttempts
  /\ Len(attempts) = IF pc \in Sending THEN attempt - 1 ELSE attempt

(* What a call that is about to send again knows of its last attempt.      *)
Resending ==
  pc \in {"pause", "again"} =>
    LET last == attempts[attempt] IN
      /\ attempt < MaxAttempts
      /\ last.code = "HTTP_429" => last.delay > 0
      /\ pc = "pause" => last.receivedAt <= elapsed /\ elapsed + last.delay < TotalTimeout
      /\ pc = "again" => last.receivedAt + last.delay <= elapsed

(* A retry is promised where one follows; success is an answer in time.    *)
Truthful(e, i) ==
  /\ e.outcome = "RETRY_SCHEDULED" <=> i < attempt \/ pc \in {"pause", "again"}
  /\ e.outcome = "SUCCESS" <=> e.code = "OK"
  /\ e.code = "OK" => e.receivedAt < TotalTimeout

IInv ==
  /\ TypeOK /\ Clocked /\ Numbered /\ Resending
  /\ \A i \in DOMAIN attempts : Truthful(attempts[i], i)
  /\ ThrottleIsRespected
  /\ DepletionEndsTheCall

-----------------------------------------------------------------------------
(* Minima, maxima and the bounds made of them.                             *)

LEMMA MinOfTwo ==
  ASSUME NEW a \in Int, NEW b \in Int
  PROVE  Min({a, b}) \in {a, b} /\ Min({a, b}) <= a /\ Min({a, b}) <= b
<1>1. \E x \in {a, b} : \A y \in {a, b} : x <= y
  <2>1. CASE a <= b  BY <2>1
  <2>2. CASE b <= a  BY <2>2
  <2> QED BY <2>1, <2>2
<1> QED BY <1>1 DEF Min

LEMMA MaxOfTwo ==
  ASSUME NEW a \in Int, NEW b \in Int
  PROVE  Max({a, b}) \in {a, b} /\ Max({a, b}) >= a /\ Max({a, b}) >= b
<1>1. \E x \in {a, b} : \A y \in {a, b} : x >= y
  <2>1. CASE a >= b  BY <2>1
  <2>2. CASE b >= a  BY <2>2
  <2> QED BY <2>1, <2>2
<1> QED BY <1>1 DEF Max

(* The greatest of at most three attempts.                                 *)
LEMMA MaxOfFew ==
  ASSUME NEW S \in SUBSET (1..3), S # {}
  PROVE  Max(S) \in S
<1>1. \E x \in S : \A y \in S : x >= y
  <2>1. CASE 3 \in S  BY <2>1
  <2>2. CASE 3 \notin S /\ 2 \in S  BY <2>2
  <2>3. CASE 3 \notin S /\ 2 \notin S
    <3>1. \A x \in S : x = 1
      <4>1. \A x \in 1..3 : x = 1 \/ x = 2 \/ x = 3
        OBVIOUS
      <4> QED BY <2>3, <4>1
    <3>2. PICK x \in S : TRUE
      OBVIOUS
    <3> QED BY <3>1, <3>2
  <2> QED BY <2>1, <2>2, <2>3
<1> QED BY <1>1 DEF Max

LEMMA ConstantTypes ==
  /\ ConnectTimeout \in Nat \ {0} /\ ReadTimeout \in Nat \ {0} /\ TotalTimeout \in Nat \ {0}
  /\ MaxAttempts \in 1..3 /\ DefaultDelay \in Nat \ {0} /\ MaxRetryAfter \in Nat
  /\ DefaultDelay <= MaxRetryAfter
  /\ RequestCost \in Nat \ {0} /\ Addresses \in Nat \ {0}
  /\ MaxResolve \in Nat /\ Oversleep \in Nat /\ Allowance \in Nat
BY TimeoutAssumption, RetryAssumption, BoundAssumption

LEMMA HorizonBound ==
  /\ Horizon \in Nat
  /\ TotalTimeout + MaxResolve <= Horizon /\ TotalTimeout + Oversleep <= Horizon
<1>1. /\ Max({MaxResolve, Oversleep}) \in Nat
      /\ Max({MaxResolve, Oversleep}) >= MaxResolve /\ Max({MaxResolve, Oversleep}) >= Oversleep
  BY ConstantTypes, MaxOfTwo
<1> QED BY <1>1, ConstantTypes DEF Horizon

(* What is left of the total budget of an attempt is left of the call's.   *)
LEMMA LeftOfDeadline ==
  ASSUME TypeOK, Clocked
  PROVE  /\ TotalLeft \in Int /\ elapsed + TotalLeft = TotalTimeout
         /\ ConnectBound \in Int /\ ConnectBound <= TotalLeft
         /\ ReadBound \in Int /\ ReadBound <= TotalLeft
<1>1. elapsed \in Int /\ sentAt \in Int /\ request.total \in Int
      /\ request.connect \in Int /\ request.read \in Int
  BY ConstantTypes, HorizonBound DEF TypeOK
<1>2. TotalLeft \in Int /\ ConnectLeft \in Int /\ elapsed + TotalLeft = TotalTimeout
  BY <1>1, ConstantTypes DEF Clocked, TotalLeft, ConnectLeft
<1>3. Min({ConnectLeft, TotalLeft}) \in {ConnectLeft, TotalLeft}
      /\ Min({ConnectLeft, TotalLeft}) <= TotalLeft
  BY <1>2, MinOfTwo
<1>4. Min({request.read, TotalLeft}) \in {request.read, TotalLeft}
      /\ Min({request.read, TotalLeft}) <= TotalLeft
  BY <1>1, <1>2, MinOfTwo
<1> QED BY <1>1, <1>2, <1>3, <1>4 DEF ConnectBound, ReadBound

(* An operation within its bound ends by the deadline.                     *)
LEMMA InBoundInTime ==
  ASSUME TypeOK, Clocked, NEW d \in Nat, d <= ConnectBound \/ d <= ReadBound
  PROVE  elapsed + d <= TotalTimeout
<1>1. elapsed \in Int
  BY HorizonBound DEF TypeOK
<1> QED BY <1>1, LeftOfDeadline, ConstantTypes

LEMMA AttemptTypes ==
  ASSUME TypeOK
  PROVE  /\ DOMAIN attempts = 1..Len(attempts) /\ Len(attempts) \in Nat
         /\ \A i \in 1..Len(attempts) : attempts[i] \in Evidence
BY LenProperties, ElementOfSeq DEF TypeOK

(* A phase that is in time has time left to wait.                          *)
LEMMA BoundsAreNatural ==
  ASSUME TypeOK, Clocked, TotalLeft > 0
  PROVE  /\ ConnectLeft > 0 => ConnectBound \in Nat
         /\ ReadBound \in Nat
<1>1. /\ TotalLeft \in Int /\ ConnectBound \in Int /\ ReadBound \in Int
      /\ request.read \in Int /\ request.read > 0 /\ ConnectLeft \in Int
  <2>1. /\ request.read \in 1..ReadTimeout /\ request.connect \in 1..ConnectTimeout
        /\ elapsed \in 0..Horizon /\ sentAt \in 0..TotalTimeout
    BY DEF TypeOK
  <2> QED BY <2>1, LeftOfDeadline, ConstantTypes, HorizonBound DEF ConnectLeft
<1>2. ConnectBound \in {ConnectLeft, TotalLeft} /\ ReadBound \in {request.read, TotalLeft}
  BY <1>1, MinOfTwo DEF ConnectBound, ReadBound
<1> QED BY <1>1, <1>2

-----------------------------------------------------------------------------
(* The transport: the attempt goes on, or comes back with a result.        *)

LEMMA MovesKeeps ==
  ASSUME IInv, pc \in Sockets \cup {"resolve"},
         NEW phase \in Sockets, NEW d \in Nat, elapsed + d <= Horizon,
         addresses' \in 0..Addresses, allowance' \in 0..Allowance,
         Moves(phase, d)
  PROVE  IInv'
<1>1. /\ pc' = phase /\ elapsed' = elapsed + d
      /\ UNCHANGED <<attempt, request, sentAt, result, attempts, evidence, overtaken, stage>>
  BY DEF Moves
<1>2. /\ pc \in Sending /\ pc' \in Sending
      /\ pc \notin {"idle", "pause", "again", "record", "settle"}
      /\ pc' \notin {"idle", "pause", "again", "record", "settle", "resolve"}
  BY <1>1 DEF Sockets, Sending
<1>3. TypeOK'
  BY <1>1, HorizonBound DEF IInv, TypeOK, PCs, Sockets
<1>4. Clocked' /\ Numbered' /\ Resending'
  BY <1>1, <1>2, ConstantTypes, HorizonBound DEF IInv, TypeOK, Clocked, Numbered, Resending
<1>5. (\A i \in DOMAIN attempts : Truthful(attempts[i], i))'
  BY <1>1, <1>2 DEF IInv, Truthful
<1>6. ThrottleIsRespected' /\ DepletionEndsTheCall'
  BY <1>1, <1>2 DEF IInv, ThrottleIsRespected, DepletionEndsTheCall
<1> QED BY <1>3, <1>4, <1>5, <1>6 DEF IInv

Results ==
  [code : Codes, quota : Unknown..Allowance, retryAfter : 0..(MaxRetryAfter + 1), answered : BOOLEAN]

LEMMA EndsKeeps ==
  ASSUME IInv, pc \in Sockets \cup {"resolve"},
         NEW r \in Results, NEW d \in Nat, elapsed + d <= Horizon, Ends(r, d)
  PROVE  IInv'
<1>1. /\ pc' = "received" /\ elapsed' = elapsed + d /\ result' = r
      /\ overtaken' = (overtaken /\ r.quota = Unknown)
      /\ UNCHANGED <<attempt, request, sentAt, addresses, attempts, allowance, evidence, stage>>
  BY DEF Ends
<1>2. /\ pc \in Sending /\ pc' \in Sending
      /\ pc \notin {"idle", "pause", "again", "record", "settle"}
      /\ pc' \notin {"idle", "pause", "again", "record", "settle", "resolve"}
  BY <1>1 DEF Sockets, Sending
<1>3. TypeOK'
  BY <1>1, HorizonBound DEF IInv, TypeOK, PCs, Results
<1>4. Clocked'
  BY <1>1, <1>2, HorizonBound DEF IInv, TypeOK, Clocked
<1>5. Numbered' /\ Resending'
  BY <1>1, <1>2 DEF IInv, Numbered, Resending
<1>6. (\A i \in DOMAIN attempts : Truthful(attempts[i], i))'
  BY <1>1, <1>2 DEF IInv, Truthful
<1>7. ThrottleIsRespected' /\ DepletionEndsTheCall'
  BY <1>1, <1>2 DEF IInv, ThrottleIsRespected, DepletionEndsTheCall
<1> QED BY <1>3, <1>4, <1>5, <1>6, <1>7 DEF IInv

FailureCodes == {"SOURCE_UNAVAILABLE", "TLS_ERROR", "TOTAL_TIMEOUT", "CONNECT_TIMEOUT", "READ_TIMEOUT"}

LEMMA FailsKeeps ==
  ASSUME IInv, pc \in Sockets \cup {"resolve"},
         NEW code \in FailureCodes, NEW d \in Nat, elapsed + d <= Horizon, Fails(code, d)
  PROVE  IInv'
<1>1. [Silence EXCEPT !.code = code] \in Results
  <2>1. code \in Codes
    BY DEF FailureCodes, Codes, Transient
  <2>2. Unknown \in Unknown..Allowance /\ 0 \in 0..(MaxRetryAfter + 1)
    BY ConstantTypes DEF Unknown
  <2> QED BY <2>1, <2>2 DEF Silence, Results
<1> QED BY <1>1, EndsKeeps DEF Fails

LEMMA ExpiryCodes == ConnectExpiry \in FailureCodes /\ ReadExpiry \in FailureCodes
BY DEF ConnectExpiry, ReadExpiry, FailureCodes

(* A phase that is in time ends by the deadline, so by the horizon.        *)
LEMMA OperationInTime ==
  ASSUME IInv, NEW d \in Nat, d <= ConnectBound \/ d <= ReadBound
  PROVE  elapsed + d <= TotalTimeout /\ elapsed + d <= Horizon
<1>1. elapsed + d <= TotalTimeout
  BY InBoundInTime DEF IInv
<1> QED BY <1>1, HorizonBound, ConstantTypes DEF IInv, TypeOK

LEMMA ResolveKeeps ==
  ASSUME IInv, Resolve
  PROVE  IInv'
<1>1. PICK d \in 0..MaxResolve :
        \/ Moves("connect", d) /\ UNCHANGED <<addresses, allowance>>
        \/ Fails("SOURCE_UNAVAILABLE", d)
  BY DEF Resolve
<1>2. pc = "resolve"
  BY DEF Resolve
<1>3. d \in Nat /\ elapsed + d <= Horizon
  BY <1>1, <1>2, ConstantTypes, HorizonBound DEF IInv, TypeOK, Clocked
<1>4. CASE Moves("connect", d) /\ UNCHANGED <<addresses, allowance>>
  <2>1. "connect" \in Sockets /\ addresses' \in 0..Addresses /\ allowance' \in 0..Allowance
    BY <1>4 DEF IInv, TypeOK, Sockets
  <2> QED BY <1>2, <1>3, <1>4, <2>1, MovesKeeps
<1>5. CASE Fails("SOURCE_UNAVAILABLE", d)
  BY <1>2, <1>3, <1>5, FailsKeeps DEF FailureCodes
<1> QED BY <1>1, <1>4, <1>5

LEMMA OverdueKeeps ==
  ASSUME IInv, ConnectOverdue \/ ReadOverdue
  PROVE  IInv'
<1>1. pc \in Sockets
  BY DEF ConnectOverdue, ReadOverdue, Sockets
<1>2. 0 \in Nat /\ elapsed + 0 <= Horizon
  BY HorizonBound DEF IInv, TypeOK
<1>3. Fails("TOTAL_TIMEOUT", 0) \/ Fails("CONNECT_TIMEOUT", 0)
  BY DEF ConnectOverdue, ReadOverdue
<1> QED BY <1>1, <1>2, <1>3, FailsKeeps DEF FailureCodes

LEMMA ConnectingKeeps ==
  ASSUME IInv, Connect \/ NextAddress \/ Handshake \/ ConnectTimesOut
  PROVE  IInv'
<1>1. pc \in Sockets
  BY DEF Connect, NextAddress, Handshake, ConnectTimesOut, InConnectTime, Sockets
<1>2. ConnectBound \in Int
  BY LeftOfDeadline DEF IInv
<1>3. PICK d \in 0..ConnectBound :
        \/ /\ Moves("connect", d) \/ Moves("handshake", d) \/ Moves("write", d)
           /\ addresses' = addresses \/ (addresses > 1 /\ addresses' = addresses - 1)
           /\ UNCHANGED allowance
        \/ \E code \in FailureCodes : Fails(code, d)
  <2>1. CASE Connect
    BY <2>1 DEF Connect
  <2>2. CASE NextAddress
    BY <2>2, ExpiryCodes DEF NextAddress, FailureCodes
  <2>3. CASE Handshake
    BY <2>3, ExpiryCodes DEF Handshake, FailureCodes
  <2>4. CASE ConnectTimesOut
    <3>1. ConnectBound \in 0..ConnectBound
      <4>1. TotalLeft > 0 /\ ConnectLeft > 0
        BY <2>4 DEF ConnectTimesOut, InConnectTime
      <4> QED BY <4>1, BoundsAreNatural DEF IInv
    <3>2. \/ /\ Moves("connect", ConnectBound) /\ addresses > 1
             /\ addresses' = addresses - 1 /\ UNCHANGED allowance
          \/ Fails(ConnectExpiry, ConnectBound)
      BY <2>4 DEF ConnectTimesOut
    <3> QED BY <3>1, <3>2, ExpiryCodes
  <2> QED BY <2>1, <2>2, <2>3, <2>4
<1>4. d \in Nat /\ elapsed + d <= Horizon
  BY <1>2, OperationInTime
<1>5. ASSUME NEW phase \in Sockets, Moves(phase, d),
             addresses' = addresses \/ (addresses > 1 /\ addresses' = addresses - 1),
             UNCHANGED allowance
      PROVE  IInv'
  <2>1. addresses \in 0..Addresses /\ allowance \in 0..Allowance
    BY DEF IInv, TypeOK
  <2>2. addresses' \in 0..Addresses /\ allowance' \in 0..Allowance
    BY <1>5, <2>1, ConstantTypes
  <2> QED BY <1>1, <1>4, <1>5, <2>2, MovesKeeps
<1> QED BY <1>1, <1>3, <1>4, <1>5, FailsKeeps DEF Sockets

(* What a provider's answer looks like.                                    *)
LEMMA AnswerTypes ==
  ASSUME TypeOK, NEW r \in Answers
  PROVE  r \in Results
<1>1. {Unknown, allowance} \subseteq Unknown..Allowance
  BY ConstantTypes DEF TypeOK, Unknown
<1>2. 0 \in 0..(MaxRetryAfter + 1)
  BY ConstantTypes
<1>3. {"OK", "HTTP_5XX", "HTTP_4XX", "HTTP_429"} \subseteq Codes
  BY DEF Codes, Transient
<1> QED BY <1>1, <1>2, <1>3 DEF Answers, Results

LEMMA ExchangingKeeps ==
  ASSUME IInv, Write \/ ReceiveMore \/ ReceiveFails \/ ReceiveAll \/ ReadTimesOut
  PROVE  IInv'
<1>1. pc \in Sockets
  BY DEF Write, ReceiveMore, ReceiveFails, ReceiveAll, ReadTimesOut, InReadTime, Sockets
<1>2. ReadBound \in Int
  BY LeftOfDeadline DEF IInv
<1>3. allowance \in 0..Allowance /\ Max({0, allowance - RequestCost}) \in 0..Allowance
  <2>1. allowance \in 0..Allowance
    BY DEF IInv, TypeOK
  <2>2. Max({0, allowance - RequestCost}) \in {0, allowance - RequestCost}
        /\ Max({0, allowance - RequestCost}) >= 0
    BY <2>1, ConstantTypes, MaxOfTwo
  <2> QED BY <2>1, <2>2, ConstantTypes
<1>4. PICK d \in 0..ReadBound :
        \/ /\ Moves("read", d) /\ UNCHANGED addresses
           /\ allowance' = allowance \/ allowance' = Max({0, allowance - RequestCost})
        \/ \E code \in FailureCodes : Fails(code, d)
        \/ \E r \in Answers : Ends(r, d)
  <2>1. CASE Write
    BY <2>1, ExpiryCodes DEF Write, FailureCodes
  <2>2. CASE ReceiveMore
    <3>1. PICK d \in 1..ReadBound : Moves("read", d) /\ UNCHANGED <<addresses, allowance>>
      BY <2>2 DEF ReceiveMore
    <3>2. d \in 0..ReadBound
      BY <1>2
    <3> QED BY <3>1, <3>2
  <2>3. CASE ReceiveFails
    BY <2>3, ExpiryCodes DEF ReceiveFails, FailureCodes
  <2>4. CASE ReceiveAll
    BY <2>4 DEF ReceiveAll, FailureCodes
  <2>5. CASE ReadTimesOut
    <3>1. ReadBound \in 0..ReadBound
      <4>1. TotalLeft > 0
        BY <2>5 DEF ReadTimesOut, InReadTime
      <4> QED BY <4>1, BoundsAreNatural DEF IInv
    <3>2. Fails(ReadExpiry, ReadBound)
      BY <2>5 DEF ReadTimesOut
    <3> QED BY <3>1, <3>2, ExpiryCodes
  <2> QED BY <2>1, <2>2, <2>3, <2>4, <2>5
<1>5. d \in Nat /\ elapsed + d <= Horizon
  BY <1>2, OperationInTime
<1>6. CASE /\ Moves("read", d) /\ UNCHANGED addresses
           /\ allowance' = allowance \/ allowance' = Max({0, allowance - RequestCost})
  <2>1. "read" \in Sockets /\ addresses' \in 0..Addresses /\ allowance' \in 0..Allowance
    BY <1>3, <1>6 DEF IInv, TypeOK, Sockets
  <2> QED BY <1>1, <1>5, <1>6, <2>1, MovesKeeps
<1>7. CASE \E r \in Answers : Ends(r, d)
  BY <1>1, <1>5, <1>7, AnswerTypes, EndsKeeps DEF IInv
<1> QED BY <1>1, <1>4, <1>5, <1>6, <1>7, FailsKeeps

LEMMA TransportKeeps ==
  ASSUME IInv, Transport
  PROVE  IInv'
BY ResolveKeeps, OverdueKeeps, ConnectingKeeps, ExchangingKeeps DEF Transport, Provider, Unaided

-----------------------------------------------------------------------------
(* The client: the evidence of an attempt, and what is decided on it.      *)

LEMMA FailureCodeType ==
  ASSUME NEW r \in Results
  PROVE  FailureCode(r) \in Codes
BY DEF FailureCode, Results, Codes, Transient

LEMMA AppliedDelayType ==
  ASSUME NEW r \in Results
  PROVE  /\ AppliedDelay(r) \in 0..MaxRetryAfter
         /\ r.code = "HTTP_429" => AppliedDelay(r) > 0
<1>1. r.retryAfter \in Int
  BY ConstantTypes DEF Results
<1> QED BY <1>1, ConstantTypes DEF AppliedDelay

(* A 429 is reported as such or hidden by a failure that is not retried or *)
(* by an expired deadline.                                                 *)
LEMMA RetriesFacts ==
  ASSUME TypeOK, NEW r \in Results, Retries(r)
  PROVE  /\ AppliedDelay(r) \in 0..MaxRetryAfter
         /\ elapsed + AppliedDelay(r) < TotalTimeout
         /\ attempt < MaxAttempts
         /\ FailureCode(r) # "OK"
         /\ FailureCode(r) = "HTTP_429" => AppliedDelay(r) > 0
         /\ r.quota \notin 0..(RequestCost - 1)
<1>1. FailureCode(r) # "OK"
  BY DEF Retries, Transient
<1>2. FailureCode(r) = "HTTP_429" => r.code = "HTTP_429"
  BY DEF FailureCode
<1>3. r.quota \notin 0..(RequestCost - 1)
  <2>1. r.quota \in Int /\ Unknown < 0
    BY ConstantTypes DEF Results, Unknown
  <2> QED BY <2>1, ConstantTypes DEF Retries, QuotaCovers
<1> QED BY <1>1, <1>2, <1>3, AppliedDelayType DEF Retries, AttemptsLeft

LEMMA SuccessFacts ==
  ASSUME NEW r \in Results
  PROVE  /\ Outcome(r) \in {"SUCCESS", "RETRY_SCHEDULED", "TERMINAL_FAILURE"}
         /\ Outcome(r) = "SUCCESS" <=> FailureCode(r) = "OK"
         /\ Outcome(r) = "RETRY_SCHEDULED" <=> Retries(r)
         /\ FailureCode(r) = "OK" => ~Expired
BY DEF Outcome, Retries, FailureCode, Transient

LEMMA ConcludeKeeps ==
  ASSUME IInv, Conclude
  PROVE  IInv'
<1> DEFINE e == [ outcome |-> Outcome(result), code |-> FailureCode(result), quota |-> result.quota,
                  delay |-> IF Retries(result) THEN AppliedDelay(result) ELSE 0,
                  startedAt |-> sentAt, receivedAt |-> elapsed ]
<1>1. /\ pc = "received" /\ attempts' = Append(attempts, e)
      /\ pc' = IF ~Retries(result) THEN "record"
               ELSE IF AppliedDelay(result) > 0 THEN "pause" ELSE "again"
      /\ result' = Silence
      /\ UNCHANGED <<elapsed, attempt, request, sentAt, addresses, allowance, evidence, overtaken, stage>>
  BY DEF Conclude
<1>2. result \in Results
  BY DEF IInv, TypeOK, Results
<1>3. /\ elapsed \in 0..Horizon /\ sentAt \in 0..Horizon /\ elapsed \in Int /\ sentAt \in Int
      /\ attempt \in 1..MaxAttempts /\ Len(attempts) = attempt - 1
  BY <1>1, ConstantTypes, HorizonBound DEF IInv, TypeOK, Clocked, Numbered, Sending
<1>4. e \in Evidence
  <2>1. e.delay \in 0..MaxRetryAfter
    BY <1>2, AppliedDelayType, ConstantTypes
  <2>2. result.quota \in Unknown..Allowance
    BY <1>2 DEF Results
  <2> HIDE DEF Outcome
  <2> QED BY <1>2, <1>3, <2>1, <2>2, SuccessFacts, FailureCodeType DEF Evidence
<1> HIDE DEF e
<1>5. /\ attempts' \in Seq(Evidence) /\ Len(attempts') = attempt
      /\ \A i \in 1..(attempt - 1) : attempts'[i] = attempts[i]
      /\ attempts'[attempt] = e
      /\ DOMAIN attempts = 1..(attempt - 1) /\ DOMAIN attempts' = 1..attempt
  <2>1. attempts \in Seq(Evidence)
    BY DEF IInv, TypeOK
  <2>2. /\ Append(attempts, e) \in Seq(Evidence)
        /\ Len(Append(attempts, e)) = Len(attempts) + 1
        /\ \A i \in 1..Len(attempts) : Append(attempts, e)[i] = attempts[i]
        /\ Append(attempts, e)[Len(attempts) + 1] = e
    BY <1>4, <2>1, AppendProperties
  <2>3. DOMAIN attempts = 1..Len(attempts) /\ DOMAIN attempts' = 1..Len(attempts')
    BY <1>1, <2>1, <2>2, LenProperties
  <2> QED BY <1>1, <1>3, <2>2, <2>3, ConstantTypes
<1>6. \A i \in 1..attempt : i \in 1..(attempt - 1) \/ i = attempt
  BY <1>3, ConstantTypes
<1>7. TypeOK'
  <2>1. result' \in [code : Codes, quota : Unknown..Allowance,
                     retryAfter : 0..(MaxRetryAfter + 1), answered : BOOLEAN]
    <3>1. Unknown \in Unknown..Allowance /\ 0 \in 0..(MaxRetryAfter + 1) /\ "NONE" \in Codes
      BY ConstantTypes DEF Unknown, Codes
    <3> QED BY <1>1, <3>1 DEF Silence
  <2>2. pc' \in PCs
    BY <1>1 DEF PCs
  <2> QED BY <1>1, <1>3, <1>5, <2>1, <2>2, ConstantTypes DEF IInv, TypeOK
<1>8. Clocked' /\ Numbered'
  <2>1. pc' \notin Sending /\ pc' # "idle" /\ pc' # "resolve"
    BY <1>1 DEF Sending, Sockets
  <2> QED BY <1>1, <1>3, <1>5, <2>1 DEF IInv, Clocked, Numbered
<1>9. Resending'
  <2>1. CASE ~Retries(result)
    BY <1>1, <2>1 DEF Resending
  <2>2. CASE Retries(result)
    <3>1. /\ e.delay = AppliedDelay(result) /\ e.code = FailureCode(result)
          /\ e.receivedAt = elapsed
      BY <2>2 DEF e
    <3>2. AppliedDelay(result) \in Int /\ ~(AppliedDelay(result) > 0) => AppliedDelay(result) = 0
      BY <1>2, AppliedDelayType, ConstantTypes
    <3> QED BY <1>1, <1>2, <1>3, <1>5, <2>2, <3>1, <3>2, RetriesFacts, AppliedDelayType DEF IInv, Resending
  <2> QED BY <2>1, <2>2
<1>10. (\A i \in DOMAIN attempts : Truthful(attempts[i], i))'
  <2> DEFINE Tells(x, i) ==
               /\ x.outcome = "RETRY_SCHEDULED" <=> i < attempt \/ pc' \in {"pause", "again"}
               /\ x.outcome = "SUCCESS" <=> x.code = "OK"
               /\ x.code = "OK" => x.receivedAt < TotalTimeout
  <2>1. ASSUME NEW i \in 1..(attempt - 1)
        PROVE  Tells(attempts[i], i)
    <3>1. Truthful(attempts[i], i) /\ i < attempt
      BY <1>3, <1>5, <2>1, ConstantTypes DEF IInv
    <3> QED BY <3>1 DEF Truthful
  <2>2. Tells(e, attempt)
    <3>1. /\ e.outcome = Outcome(result) /\ e.code = FailureCode(result)
          /\ e.receivedAt = elapsed
      BY DEF e
    <3>2. Retries(result) <=> pc' \in {"pause", "again"}
      BY <1>1
    <3>3. e.outcome = "RETRY_SCHEDULED" <=> pc' \in {"pause", "again"}
      BY <1>2, <3>1, <3>2, SuccessFacts
    <3>4. e.outcome = "SUCCESS" <=> e.code = "OK"
      BY <1>2, <3>1, SuccessFacts
    <3>5. ~Expired => elapsed < TotalTimeout
      BY <1>3, ConstantTypes DEF Expired
    <3>6. e.code = "OK" => e.receivedAt < TotalTimeout
      BY <1>2, <3>1, <3>5, SuccessFacts
    <3>7. ~(attempt < attempt)
      BY <1>3
    <3> QED BY <3>3, <3>4, <3>6, <3>7
  <2> HIDE DEF Tells
  <2>3. \A i \in 1..attempt : Tells(attempts'[i], i)
    BY <1>5, <1>6, <2>1, <2>2
  <2> QED BY <1>1, <1>5, <2>3 DEF Truthful, Tells
<1>11. ThrottleIsRespected'
  <2> SUFFICES ASSUME NEW i \in DOMAIN attempts', attempts'[i].code = "HTTP_429", i < attempt
               PROVE  /\ (IF i < Len(attempts') THEN attempts'[i + 1].startedAt ELSE sentAt)
                            >= attempts'[i].receivedAt + attempts'[i].delay
                      /\ attempts'[i].delay > 0
    BY <1>1 DEF ThrottleIsRespected
  <2>1. i \in 1..(attempt - 1) /\ i \in DOMAIN attempts /\ i < Len(attempts')
    BY <1>3, <1>5, <1>6
  <2>2. attempts'[i] = attempts[i]
    BY <1>5, <2>1
  <2>3. attempts'[i + 1].startedAt = (IF i < Len(attempts) THEN attempts[i + 1].startedAt ELSE sentAt)
    <3>1. CASE i < Len(attempts)
      <4>1. i + 1 \in 1..(attempt - 1)
        BY <1>3, <2>1, <3>1
      <4> QED BY <1>5, <3>1, <4>1
    <3>2. CASE ~(i < Len(attempts))
      <4>1. i + 1 = attempt
        BY <1>3, <2>1, <3>2
      <4> QED BY <1>5, <3>2, <4>1 DEF e
    <3> QED BY <3>1, <3>2
  <2> QED BY <2>1, <2>2, <2>3 DEF IInv, ThrottleIsRespected
<1>12. DepletionEndsTheCall'
  <2>1. ASSUME NEW i \in 1..(attempt - 1)
        PROVE  attempts[i].quota \notin 0..(RequestCost - 1)
    BY <1>3, <1>5, <2>1 DEF IInv, DepletionEndsTheCall
  <2>2. e.quota \in 0..(RequestCost - 1) => pc' \notin {"pause", "again"}
    BY <1>1, <1>2, RetriesFacts DEF IInv, e
  <2> QED BY <1>1, <1>5, <1>6, <2>1, <2>2 DEF DepletionEndsTheCall
<1> QED BY <1>7, <1>8, <1>9, <1>10, <1>11, <1>12 DEF IInv

LEMMA PauseKeeps ==
  ASSUME IInv, Pause
  PROVE  IInv'
<1>1. PICK d \in 0..Oversleep : elapsed' = elapsed + Last(attempts).delay + d
  BY DEF Pause
<1>2. /\ pc = "pause" /\ pc' = "again"
      /\ UNCHANGED <<attempt, request, sentAt, addresses, result, attempts, allowance, evidence, overtaken, stage>>
  BY DEF Pause
<1>3. /\ attempt \in 1..MaxAttempts /\ Len(attempts) = attempt
  BY <1>2 DEF IInv, Numbered, Sending, Sockets
<1>4. attempts[attempt] \in Evidence
  BY <1>3, AttemptTypes, ConstantTypes DEF IInv
<1>5. /\ Last(attempts).delay = attempts[attempt].delay
      /\ attempts[attempt].delay \in Nat /\ attempts[attempt].receivedAt \in Int
  BY <1>3, <1>4, ConstantTypes, HorizonBound DEF Last, Evidence
<1>6. /\ attempts[attempt].receivedAt <= elapsed
      /\ elapsed + attempts[attempt].delay < TotalTimeout
      /\ elapsed \in Nat /\ d \in Nat /\ d <= Oversleep
  <2>1. /\ attempts[attempt].receivedAt <= elapsed
        /\ elapsed + attempts[attempt].delay < TotalTimeout
    BY <1>2 DEF IInv, Resending
  <2>2. elapsed \in Nat
    BY HorizonBound DEF IInv, TypeOK
  <2>3. d \in Nat /\ d <= Oversleep
    BY ConstantTypes
  <2> QED BY <2>1, <2>2, <2>3
<1>7. /\ elapsed' \in 0..Horizon /\ elapsed <= elapsed'
      /\ attempts[attempt].receivedAt + attempts[attempt].delay <= elapsed'
  BY <1>1, <1>5, <1>6, ConstantTypes, HorizonBound
<1>8. TypeOK'
  BY <1>2, <1>7 DEF IInv, TypeOK, PCs
<1>9. Clocked' /\ Numbered'
  <2>1. sentAt \in Int
    BY DEF IInv, TypeOK
  <2> QED BY <1>2, <1>6, <1>7, <2>1, HorizonBound DEF IInv, Clocked, Numbered, Sending, Sockets
<1>10. Resending'
  BY <1>2, <1>7 DEF IInv, Resending
<1>11. (\A i \in DOMAIN attempts : Truthful(attempts[i], i))'
  BY <1>2 DEF IInv, Truthful
<1>12. ThrottleIsRespected' /\ DepletionEndsTheCall'
  BY <1>2 DEF IInv, ThrottleIsRespected, DepletionEndsTheCall
<1> QED BY <1>8, <1>9, <1>10, <1>11, <1>12 DEF IInv

(* The attempt whose retry is taken back was not a success.                *)
LEMMA GiveUpKeeps ==
  ASSUME IInv, GiveUp
  PROVE  IInv'
<1>1. /\ pc = "again" /\ pc' = "record" /\ attempts' = TakenBack
      /\ UNCHANGED <<elapsed, attempt, request, sentAt, addresses, result, allowance, evidence, overtaken, stage>>
  BY DEF GiveUp
<1>2. /\ attempt \in 1..MaxAttempts /\ Len(attempts) = attempt /\ attempt \in Nat
  BY <1>1, ConstantTypes DEF IInv, Numbered, Sending, Sockets
<1> DEFINE last == [attempts[attempt] EXCEPT !.outcome = "TERMINAL_FAILURE"]
<1>3. attempts \in Seq(Evidence) /\ attempts[attempt] \in Evidence /\ attempt \in 1..Len(attempts)
  BY <1>2, AttemptTypes DEF IInv, TypeOK
<1>4. /\ last \in Evidence /\ last.outcome = "TERMINAL_FAILURE"
      /\ last.code = attempts[attempt].code /\ last.quota = attempts[attempt].quota
      /\ last.delay = attempts[attempt].delay /\ last.startedAt = attempts[attempt].startedAt
      /\ last.receivedAt = attempts[attempt].receivedAt
  BY <1>3 DEF Evidence
<1>5. attempts' = [attempts EXCEPT ![attempt] = last]
  BY <1>1, <1>2 DEF TakenBack
<1> HIDE DEF last
<1>6. /\ attempts' \in Seq(Evidence) /\ Len(attempts') = attempt
      /\ \A j \in 1..attempt : attempts'[j] = IF j = attempt THEN last ELSE attempts[j]
      /\ DOMAIN attempts = 1..attempt /\ DOMAIN attempts' = 1..attempt
  <2>1. /\ [attempts EXCEPT ![attempt] = last] \in Seq(Evidence)
        /\ Len([attempts EXCEPT ![attempt] = last]) = Len(attempts)
        /\ \A j \in 1..Len(attempts) : [attempts EXCEPT ![attempt] = last][j] =
             IF j = attempt THEN last ELSE attempts[j]
    BY <1>3, <1>4, ExceptSeq
  <2>2. DOMAIN attempts = 1..Len(attempts) /\ DOMAIN attempts' = 1..Len(attempts')
    BY <1>3, <1>5, <2>1, LenProperties
  <2> QED BY <1>2, <1>5, <2>1, <2>2
<1>7. TypeOK'
  BY <1>1, <1>2, <1>6, ConstantTypes DEF IInv, TypeOK, PCs
<1>8. Clocked' /\ Numbered' /\ Resending'
  BY <1>1, <1>2, <1>6 DEF IInv, Clocked, Numbered, Resending, Sending, Sockets
<1>9. ASSUME NEW i \in 1..attempt
      PROVE  Truthful(attempts[i], i) /\ attempts[i].outcome = "RETRY_SCHEDULED"
  BY <1>1, <1>6, <1>9 DEF IInv, Truthful
<1>10. (\A i \in DOMAIN attempts : Truthful(attempts[i], i))'
  <2> SUFFICES ASSUME NEW i \in 1..attempt
               PROVE  /\ attempts'[i].outcome = "RETRY_SCHEDULED" <=> i < attempt
                      /\ attempts'[i].outcome = "SUCCESS" <=> attempts'[i].code = "OK"
                      /\ attempts'[i].code = "OK" => attempts'[i].receivedAt < TotalTimeout
    BY <1>1, <1>6 DEF Truthful
  <2>1. CASE i = attempt
    <3>1. attempts'[i] = last /\ attempts[attempt].code # "OK" /\ ~(i < attempt)
      BY <1>2, <1>6, <1>9, <2>1 DEF Truthful
    <3> QED BY <1>4, <3>1
  <2>2. CASE i # attempt
    <3>1. attempts'[i] = attempts[i] /\ i < attempt
      BY <1>2, <1>6, <2>2
    <3> QED BY <1>9, <3>1 DEF Truthful
  <2> QED BY <2>1, <2>2
<1>11. \A i \in 1..attempt :
         /\ attempts'[i].code = attempts[i].code /\ attempts'[i].quota = attempts[i].quota
         /\ attempts'[i].delay = attempts[i].delay
         /\ attempts'[i].startedAt = attempts[i].startedAt
         /\ attempts'[i].receivedAt = attempts[i].receivedAt
  BY <1>4, <1>6
<1>12. ThrottleIsRespected'
  <2> SUFFICES ASSUME NEW i \in 1..attempt, attempts[i].code = "HTTP_429", i < attempt
               PROVE  /\ attempts'[i + 1].startedAt >= attempts[i].receivedAt + attempts[i].delay
                      /\ attempts[i].delay > 0
    BY <1>1, <1>6, <1>11 DEF ThrottleIsRespected
  <2>1. i + 1 \in 1..attempt
    BY <1>2
  <2>2. attempts'[i + 1].startedAt = attempts[i + 1].startedAt
    BY <1>11, <2>1
  <2> QED BY <1>2, <1>6, <2>2 DEF IInv, ThrottleIsRespected
<1>13. DepletionEndsTheCall'
  BY <1>1, <1>6, <1>11 DEF IInv, DepletionEndsTheCall
<1> QED BY <1>7, <1>8, <1>10, <1>12, <1>13 DEF IInv

(* The budgets of a later attempt fit in what is left.                     *)
LEMMA BoundedType ==
  ASSUME NEW at \in Nat, at < TotalTimeout
  PROVE  /\ Bounded(at) \in [connect : 1..ConnectTimeout, read : 1..ReadTimeout, total : 1..TotalTimeout]
         /\ Bounded(at).total + at = TotalTimeout
<1>1. TotalTimeout - at \in 1..TotalTimeout /\ TotalTimeout - at \in Int
  BY ConstantTypes
<1>2. /\ Min({ConnectTimeout, TotalTimeout - at}) \in 1..ConnectTimeout
      /\ Min({ReadTimeout, TotalTimeout - at}) \in 1..ReadTimeout
  <2>1. /\ Min({ConnectTimeout, TotalTimeout - at}) \in {ConnectTimeout, TotalTimeout - at}
        /\ Min({ConnectTimeout, TotalTimeout - at}) <= ConnectTimeout
    BY <1>1, ConstantTypes, MinOfTwo
  <2>2. /\ Min({ReadTimeout, TotalTimeout - at}) \in {ReadTimeout, TotalTimeout - at}
        /\ Min({ReadTimeout, TotalTimeout - at}) <= ReadTimeout
    BY <1>1, ConstantTypes, MinOfTwo
  <2> QED BY <1>1, <2>1, <2>2, ConstantTypes
<1>3. Bounded(at) = [ connect |-> Min({ConnectTimeout, TotalTimeout - at}),
                      read |-> Min({ReadTimeout, TotalTimeout - at}), total |-> TotalTimeout - at ]
  BY DEF Bounded
<1>4. TotalTimeout - at + at = TotalTimeout
  BY ConstantTypes
<1> QED BY <1>1, <1>2, <1>3, <1>4

LEMMA NoResult == Silence \in Results
<1>1. Unknown \in Unknown..Allowance /\ 0 \in 0..(MaxRetryAfter + 1) /\ "NONE" \in Codes
  BY ConstantTypes DEF Unknown, Codes
<1> QED BY <1>1 DEF Silence, Results

LEMMA RetryKeeps ==
  ASSUME IInv, Retry
  PROVE  IInv'
<1>1. /\ pc = "again" /\ pc' = "resolve" /\ ~Overran
      /\ attempt' = attempt + 1 /\ request' = Bounded(elapsed) /\ sentAt' = elapsed
      /\ addresses' = Addresses /\ result' = Silence
      /\ UNCHANGED <<elapsed, attempts, allowance, evidence, overtaken, stage>>
  BY DEF Retry, Sends
<1>2. /\ attempt \in 1..MaxAttempts /\ Len(attempts) = attempt /\ attempt < MaxAttempts
      /\ attempt \in Nat /\ elapsed \in Nat /\ elapsed < TotalTimeout
      /\ DOMAIN attempts = 1..attempt
  <2>1. elapsed \in Nat
    BY HorizonBound DEF IInv, TypeOK
  <2>2. elapsed < TotalTimeout
    BY <1>1, <2>1, ConstantTypes DEF Overran
  <2> QED BY <1>1, <2>1, <2>2, ConstantTypes, AttemptTypes
          DEF IInv, Numbered, Resending, Sending, Sockets
<1>3. TypeOK'
  <2>1. result' \in [code : Codes, quota : Unknown..Allowance,
                     retryAfter : 0..(MaxRetryAfter + 1), answered : BOOLEAN]
    BY <1>1, NoResult DEF Results
  <2>2. /\ request' \in [connect : 1..ConnectTimeout, read : 1..ReadTimeout, total : 1..TotalTimeout]
        /\ attempt' \in 0..MaxAttempts /\ sentAt' \in 0..TotalTimeout /\ addresses' \in 0..Addresses
    BY <1>1, <1>2, BoundedType, ConstantTypes
  <2> QED BY <1>1, <2>1, <2>2 DEF IInv, TypeOK, PCs
<1>4. Clocked' /\ Numbered' /\ Resending'
  <2>1. Bounded(elapsed).total + elapsed = TotalTimeout
    BY <1>1, <1>2, BoundedType
  <2> QED BY <1>1, <1>2, <2>1, ConstantTypes DEF Clocked, Numbered, Resending, Sending
<1>5. (\A i \in DOMAIN attempts : Truthful(attempts[i], i))'
  <2>1. \A i \in 1..attempt : i < attempt + 1
    BY <1>2
  <2> QED BY <1>1, <1>2, <2>1 DEF IInv, Truthful
<1>6. ThrottleIsRespected'
  <2> SUFFICES ASSUME NEW i \in 1..attempt, attempts[i].code = "HTTP_429"
               PROVE  /\ (IF i < attempt THEN attempts[i + 1].startedAt ELSE elapsed)
                            >= attempts[i].receivedAt + attempts[i].delay
                      /\ attempts[i].delay > 0
    BY <1>1, <1>2 DEF ThrottleIsRespected
  <2>1. CASE i < attempt
    BY <1>2, <2>1 DEF IInv, ThrottleIsRespected
  <2>2. CASE ~(i < attempt)
    <3>1. i = attempt
      BY <1>2, <2>2
    <3>2. attempts[attempt].receivedAt \in Int /\ attempts[attempt].delay \in Int
      <4>1. attempts[attempt] \in Evidence
        BY <1>2, AttemptTypes DEF IInv
      <4> QED BY <4>1, ConstantTypes, HorizonBound DEF Evidence
    <3> QED BY <1>1, <1>2, <2>2, <3>1, <3>2 DEF IInv, Resending
  <2> QED BY <2>1, <2>2
<1>7. DepletionEndsTheCall'
  <2>1. \A i \in 1..attempt : attempts[i].quota \notin 0..(RequestCost - 1)
    BY <1>1, <1>2 DEF IInv, DepletionEndsTheCall
  <2> QED BY <1>1, <1>2, <2>1 DEF DepletionEndsTheCall
<1> QED BY <1>3, <1>4, <1>5, <1>6, <1>7 DEF IInv

LEMMA ClientKeeps ==
  ASSUME IInv, Conclude \/ Pause \/ GiveUp \/ Retry
  PROVE  IInv'
BY ConcludeKeeps, PauseKeeps, GiveUpKeeps, RetryKeeps

-----------------------------------------------------------------------------
(* The service: what is recorded, how a call ends, and how one begins.     *)

LEMMA ReturnedKeeps ==
  ASSUME Returned, allowance' \in 0..Allowance, evidence' \in Unknown..Allowance,
         stage' \in {"NONE", "RAW_DISCARDED", "REJECTED", "QUARANTINED"}
  PROVE  IInv'
<1>1. /\ pc' = "idle" /\ elapsed' = 0 /\ attempt' = 0 /\ request' = FullRequest
      /\ sentAt' = 0 /\ addresses' = 0 /\ result' = Silence /\ attempts' = <<>>
  BY DEF Returned
<1>2. Len(attempts') = 0 /\ attempts' \in Seq(Evidence) /\ DOMAIN attempts' = {}
  BY <1>1
<1>3. TypeOK'
  <2>1. result' \in [code : Codes, quota : Unknown..Allowance,
                     retryAfter : 0..(MaxRetryAfter + 1), answered : BOOLEAN]
    BY <1>1, NoResult DEF Results
  <2>2. request' \in [connect : 1..ConnectTimeout, read : 1..ReadTimeout, total : 1..TotalTimeout]
    BY <1>1, ConstantTypes DEF FullRequest
  <2>3. overtaken' \in BOOLEAN
    BY DEF Returned
  <2> QED BY <1>1, <1>2, <2>1, <2>2, <2>3, ConstantTypes, HorizonBound DEF TypeOK, PCs
<1>4. Clocked' /\ Numbered' /\ Resending'
  BY <1>1, <1>2, ConstantTypes DEF Clocked, Numbered, Resending, Sending, Sockets, FullRequest
<1>5. /\ (\A i \in DOMAIN attempts : Truthful(attempts[i], i))'
      /\ ThrottleIsRespected' /\ DepletionEndsTheCall'
  BY <1>2 DEF ThrottleIsRespected, DepletionEndsTheCall
<1> QED BY <1>3, <1>4, <1>5 DEF IInv

(* Evidence, allowance and stage may change while a call waits.            *)
LEMMA OutsideKeeps ==
  ASSUME IInv, UNCHANGED <<elapsed, callVars>>, allowance' \in 0..Allowance,
         evidence' \in Unknown..Allowance, overtaken' \in BOOLEAN,
         stage' \in {"NONE", "RAW_DISCARDED", "REJECTED", "QUARANTINED"},
         pc' = pc \/ (pc = "record" /\ pc' = "settle")
  PROVE  IInv'
<1>1. UNCHANGED <<elapsed, attempt, request, sentAt, addresses, result, attempts>>
  BY DEF callVars
<1>2. TypeOK'
  BY <1>1 DEF IInv, TypeOK, PCs
<1>3. Clocked' /\ Numbered' /\ Resending'
  BY <1>1 DEF IInv, Clocked, Numbered, Resending, Sending, Sockets
<1>4. (\A i \in DOMAIN attempts : Truthful(attempts[i], i))'
  BY <1>1 DEF IInv, Truthful
<1>5. ThrottleIsRespected' /\ DepletionEndsTheCall'
  BY <1>1 DEF IInv, ThrottleIsRespected, DepletionEndsTheCall
<1> QED BY <1>2, <1>3, <1>4, <1>5 DEF IInv

LEMMA RecordAttemptsKeeps ==
  ASSUME IInv, RecordAttempts
  PROVE  IInv'
<1>1. evidence' \in Unknown..Allowance
  <2>1. CASE Measured = {} \/ overtaken
    BY <2>1 DEF RecordAttempts, IInv, TypeOK
  <2>2. CASE ~(Measured = {} \/ overtaken)
    <3>1. Measured \subseteq DOMAIN attempts /\ DOMAIN attempts \subseteq 1..3
      BY AttemptTypes, ConstantTypes DEF IInv, TypeOK, Measured
    <3>2. Max(Measured) \in DOMAIN attempts
      BY <2>2, <3>1, MaxOfFew
    <3>3. attempts[Max(Measured)] \in Evidence
      BY <3>2, AttemptTypes DEF IInv
    <3> QED BY <2>2, <3>3 DEF RecordAttempts, Evidence
  <2> QED BY <2>1, <2>2
<1>2. allowance' \in 0..Allowance /\ overtaken \in BOOLEAN
  BY DEF RecordAttempts, IInv, TypeOK
<1>3. CASE Succeeded
  BY <1>1, <1>2, <1>3, OutsideKeeps DEF RecordAttempts
<1>4. CASE ~Succeeded
  BY <1>1, <1>2, <1>4, ReturnedKeeps DEF RecordAttempts
<1> QED BY <1>3, <1>4

LEMMA BeginKeeps ==
  ASSUME IInv, BeginSnapshot
  PROVE  IInv'
<1>1. /\ pc = "idle" /\ pc' = "resolve" /\ attempt' = 1 /\ request' = FullRequest
      /\ sentAt' = elapsed /\ addresses' = Addresses /\ result' = Silence
      /\ UNCHANGED <<elapsed, attempts, allowance, evidence, overtaken, stage>>
  BY DEF BeginSnapshot, Sends
<1>2. elapsed = 0 /\ Len(attempts) = 0 /\ DOMAIN attempts = {}
  <2>1. elapsed = 0 /\ Len(attempts) = 0
    BY <1>1 DEF IInv, Clocked, Numbered, Sending, Sockets
  <2> QED BY <2>1, AttemptTypes DEF IInv
<1>3. TypeOK'
  <2>1. result' \in [code : Codes, quota : Unknown..Allowance,
                     retryAfter : 0..(MaxRetryAfter + 1), answered : BOOLEAN]
    BY <1>1, NoResult DEF Results
  <2>2. request' \in [connect : 1..ConnectTimeout, read : 1..ReadTimeout, total : 1..TotalTimeout]
    BY <1>1, ConstantTypes DEF FullRequest
  <2> QED BY <1>1, <1>2, <2>1, <2>2, ConstantTypes DEF IInv, TypeOK, PCs
<1>4. Clocked' /\ Numbered' /\ Resending'
  BY <1>1, <1>2, ConstantTypes DEF Clocked, Numbered, Resending, Sending, FullRequest
<1>5. /\ (\A i \in DOMAIN attempts : Truthful(attempts[i], i))'
      /\ ThrottleIsRespected' /\ DepletionEndsTheCall'
  BY <1>1, <1>2 DEF ThrottleIsRespected, DepletionEndsTheCall
<1> QED BY <1>3, <1>4, <1>5 DEF IInv

LEMMA StepKeeps == IInv /\ [Next]_vars => IInv'
<1> SUFFICES ASSUME IInv, [Next]_vars PROVE IInv'
  OBVIOUS
<1>1. /\ allowance \in 0..Allowance /\ evidence \in Unknown..Allowance /\ overtaken \in BOOLEAN
      /\ stage \in {"NONE", "RAW_DISCARDED", "REJECTED", "QUARANTINED"}
  BY DEF IInv, TypeOK
<1>2. CASE BeginSnapshot
  BY <1>2, BeginKeeps
<1>3. CASE Transport
  BY <1>3, TransportKeeps
<1>4. CASE Client
  <2>1. CASE SettleSnapshot
    BY <1>1, <2>1, ReturnedKeeps DEF SettleSnapshot
  <2> QED BY <1>4, <2>1, ClientKeeps, RecordAttemptsKeeps DEF Client
<1>5. CASE Crash
  BY <1>1, <1>5, ReturnedKeeps DEF Crash
<1>6. CASE OtherCall
  <2>1. allowance' \in 0..Allowance /\ (evidence' = evidence \/ evidence' = allowance')
    BY <1>1, <1>6, ConstantTypes DEF OtherCall
  <2>2. evidence' \in Unknown..Allowance
    BY <1>1, <2>1, ConstantTypes DEF Unknown
  <2>3. overtaken' \in BOOLEAN
    BY <1>1, <1>6 DEF OtherCall
  <2> QED BY <1>1, <1>6, <2>1, <2>2, <2>3, OutsideKeeps DEF OtherCall
<1>7. CASE Refill
  <2>1. allowance' \in 0..Allowance
    BY <1>7, ConstantTypes DEF Refill
  <2> QED BY <1>1, <1>7, <2>1, OutsideKeeps DEF Refill
<1>8. CASE UNCHANGED vars
  BY <1>1, <1>8, OutsideKeeps DEF vars
<1> QED BY <1>2, <1>3, <1>4, <1>5, <1>6, <1>7, <1>8 DEF Next

LEMMA InitHolds == Init => IInv
<1> SUFFICES ASSUME Init PROVE IInv
  OBVIOUS
<1>1. /\ pc = "idle" /\ elapsed = 0 /\ attempt = 0 /\ request = FullRequest /\ sentAt = 0
      /\ addresses = 0 /\ result = Silence /\ attempts = <<>>
      /\ allowance = Allowance /\ evidence = Unknown /\ stage = "NONE"
  BY DEF Init
<1>2. Len(attempts) = 0 /\ attempts \in Seq(Evidence) /\ DOMAIN attempts = {}
  BY <1>1
<1>3. TypeOK
  <2>1. result \in [code : Codes, quota : Unknown..Allowance,
                    retryAfter : 0..(MaxRetryAfter + 1), answered : BOOLEAN]
    BY <1>1, NoResult DEF Results
  <2>2. request \in [connect : 1..ConnectTimeout, read : 1..ReadTimeout, total : 1..TotalTimeout]
    BY <1>1, ConstantTypes DEF FullRequest
  <2>3. evidence \in Unknown..Allowance /\ allowance \in 0..Allowance
    BY <1>1, ConstantTypes DEF Unknown
  <2>4. overtaken \in BOOLEAN
    BY DEF Init
  <2> QED BY <1>1, <1>2, <2>1, <2>2, <2>3, <2>4, ConstantTypes, HorizonBound DEF TypeOK, PCs
<1>4. Clocked /\ Numbered /\ Resending
  BY <1>1, <1>2, ConstantTypes DEF Clocked, Numbered, Resending, Sending, Sockets, FullRequest
<1>5. /\ \A i \in DOMAIN attempts : Truthful(attempts[i], i)
      /\ ThrottleIsRespected /\ DepletionEndsTheCall
  BY <1>2 DEF ThrottleIsRespected, DepletionEndsTheCall
<1> QED BY <1>3, <1>4, <1>5 DEF IInv

(* In every reachable state the call's evidence agrees with the requests   *)
(* it has sent and the time it has left (OddsClient.fetch).                *)
THEOREM InvariantHolds == Spec => []IInv
<1>1. Init => IInv
  BY InitHolds
<1>2. IInv /\ [Next]_vars => IInv'
  BY StepKeeps
<1> QED BY <1>1, <1>2, PTL DEF Spec

-----------------------------------------------------------------------------
(* What follows for every call.                                            *)

(* Every variable has its type: in particular no call sends more requests  *)
(* than configured and no attempt has a budget of zero (OddsClient.fetch,  *)
(* _bounded_retry_request).                                                *)
THEOREM TypeCorrect == Spec => []TypeOK
<1>1. IInv => TypeOK
  BY DEF IInv
<1> QED BY <1>1, InvariantHolds, PTL

(* What is recorded of a call is one entry for every request it sent, and  *)
(* only its last entry promises no other request                           *)
(* (_record_live_attempts).                                                *)
THEOREM EvidenceIsComplete == Spec => []EvidenceTellsTheCall
<1>1. IInv => EvidenceTellsTheCall
  <2> SUFFICES ASSUME IInv, pc \in {"record", "settle"}
               PROVE  /\ Len(attempts) = attempt
                      /\ \A i \in DOMAIN attempts :
                           attempts[i].outcome = "RETRY_SCHEDULED" <=> i < attempt
                      /\ Succeeded <=> Last(attempts).code = "OK"
                      /\ Succeeded => Last(attempts).receivedAt < TotalTimeout
    BY DEF EvidenceTellsTheCall
  <2>1. Len(attempts) = attempt /\ attempt \in 1..MaxAttempts
    BY DEF IInv, Numbered, Sending, Sockets
  <2>2. attempt \in DOMAIN attempts
    BY <2>1, AttemptTypes DEF IInv
  <2>3. \A i \in DOMAIN attempts : Truthful(attempts[i], i)
    BY DEF IInv
  <2>4. \A i \in DOMAIN attempts : attempts[i].outcome = "RETRY_SCHEDULED" <=> i < attempt
    BY <2>3 DEF Truthful
  <2>5. Last(attempts) = attempts[attempt]
    BY <2>1 DEF Last
  <2>6. /\ attempts[attempt].outcome = "SUCCESS" <=> attempts[attempt].code = "OK"
        /\ attempts[attempt].code = "OK" => attempts[attempt].receivedAt < TotalTimeout
    BY <2>2, <2>3 DEF Truthful
  <2> QED BY <2>1, <2>4, <2>5, <2>6 DEF Succeeded
<1> QED BY <1>1, InvariantHolds, PTL

(* The request after a 429 is never sent before the delay that was applied *)
(* has passed (_retry_delay).                                              *)
THEOREM ThrottleHolds == Spec => []ThrottleIsRespected
<1>1. IInv => ThrottleIsRespected
  BY DEF IInv
<1> QED BY <1>1, InvariantHolds, PTL

(* No request follows an answer that says the quota does not cover one     *)
(* (quota_blocks_retry).                                                   *)
THEOREM DepletionHolds == Spec => []DepletionEndsTheCall
<1>1. IInv => DepletionEndsTheCall
  BY DEF IInv
<1> QED BY <1>1, InvariantHolds, PTL

(* No socket operation of any attempt carries the call past its deadline   *)
(* (_connect_bound, _read_bound, _bounded_retry_request).                  *)
THEOREM DeadlineHolds == Spec => SocketsKeepDeadline
<1>1. IInv /\ [Next]_vars => [(pc \in Sockets) => elapsed' <= Max({elapsed, TotalTimeout})]_vars
  <2> SUFFICES ASSUME IInv, Next, pc \in Sockets
               PROVE  elapsed' <= Max({elapsed, TotalTimeout})
    BY DEF vars
  <2>1. elapsed \in Nat /\ TotalTimeout \in Nat
    BY ConstantTypes, HorizonBound DEF IInv, TypeOK
  <2>2. Max({elapsed, TotalTimeout}) \in Int
        /\ Max({elapsed, TotalTimeout}) >= elapsed /\ Max({elapsed, TotalTimeout}) >= TotalTimeout
    BY <2>1, MaxOfTwo
  <2>3. CASE Transport
    <3>1. ConnectBound \in Int /\ ReadBound \in Int
      BY LeftOfDeadline DEF IInv
    <3>2. elapsed' = elapsed \/ \E d \in Nat :
            elapsed' = elapsed + d /\ (d <= ConnectBound \/ d <= ReadBound)
      <4>1. CASE ConnectOverdue \/ ReadOverdue
        BY <2>1, <4>1 DEF ConnectOverdue, ReadOverdue, Fails, Ends
      <4>2. CASE ConnectTimesOut \/ ReadTimesOut
        <5>1. TotalLeft > 0 /\ (ConnectTimesOut => ConnectLeft > 0)
          BY <4>2 DEF ConnectTimesOut, ReadTimesOut, InConnectTime, InReadTime
        <5>2. ReadBound \in Nat /\ (ConnectTimesOut => ConnectBound \in Nat)
          BY <5>1, BoundsAreNatural DEF IInv
        <5>3. \/ ConnectTimesOut /\ elapsed' = elapsed + ConnectBound
              \/ elapsed' = elapsed + ReadBound
          BY <4>2 DEF ConnectTimesOut, ReadTimesOut, Moves, Fails, Ends
        <5> QED BY <3>1, <5>2, <5>3
      <4>3. CASE Connect \/ NextAddress \/ Handshake
        <5>1. PICK d \in 0..ConnectBound : elapsed' = elapsed + d
          BY <4>3 DEF Connect, NextAddress, Handshake, Moves, Fails, Ends
        <5> QED BY <3>1, <5>1
      <4>4. CASE Write \/ ReceiveFails \/ ReceiveAll
        <5>1. PICK d \in 0..ReadBound : elapsed' = elapsed + d
          BY <4>4 DEF Write, ReceiveFails, ReceiveAll, Moves, Fails, Ends
        <5> QED BY <3>1, <5>1
      <4>5. CASE ReceiveMore
        <5>1. PICK d \in 1..ReadBound : elapsed' = elapsed + d
          BY <4>5 DEF ReceiveMore, Moves
        <5> QED BY <3>1, <5>1
      <4>6. CASE Resolve
        BY <4>6 DEF Resolve, Sockets
      <4> QED BY <2>3, <4>1, <4>2, <4>3, <4>4, <4>5, <4>6 DEF Transport, Provider, Unaided
    <3> QED BY <2>1, <2>2, <3>2, OperationInTime
  <2>4. CASE BeginSnapshot \/ Client
    BY <2>4 DEF BeginSnapshot, Client, Conclude, Pause, GiveUp, Retry, RecordAttempts,
                SettleSnapshot, Sockets
  <2>5. CASE Crash \/ OtherCall \/ Refill
    BY <2>1, <2>2, <2>5 DEF Crash, Returned, OtherCall, Refill
  <2> QED BY <2>3, <2>4, <2>5 DEF Next
<1> QED BY <1>1, InvariantHolds, PTL DEF Spec, SocketsKeepDeadline

=============================================================================
