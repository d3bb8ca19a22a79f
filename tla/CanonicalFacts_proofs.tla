------------------------ MODULE CanonicalFacts_proofs ------------------------
(***************************************************************************)
(* For any number of calls, values and instants: the versions of a fact    *)
(* form one chain, an as-of read finds at most one of them and none only   *)
(* before its validity, an answer changes only by a call known by then,    *)
(* and a version is superseded at most once.                               *)
(***************************************************************************)
EXTENDS CanonicalFacts, TLAPS

(* The chain alone is not inductive: a correction closes the version it    *)
(* read earlier, so that it must be the last one follows from the fact     *)
(* that its handle is a row and that every other row is closed.            *)
Handles ==
  \A c \in Calls :
    /\ call[c].state = "correction" => call[c].over \in 1..Len(versions)
    /\ call[c].state \in {"superseded", "corrected"} =>
         call[c].over \in 1..(Len(versions) - 1)

(* Chained speaks of neighbours; an as-of read compares any two rows.      *)
Ordered ==
  \A i, j \in 1..Len(versions) :
    i < j => versions[i].to # Open /\ versions[i].to <= versions[j].from

(* At every instant from the first version on, some version is known.      *)
GapFree ==
  \A known \in Nat :
    versions # <<>> /\ versions[1].from <= known =>
      \E i \in 1..Len(versions) : KnownAt(i, known)

IInv == TypeOK /\ Chained /\ Handles /\ Ordered /\ GapFree /\ SupersededOnce

-----------------------------------------------------------------------------

(* A version written by a call is well typed.                              *)
LEMMA VersionType ==
  ASSUME TypeOK, NEW c \in Calls, NEW from \in Nat, NEW valid \in Starts
  PROVE  Version(c, from, valid) \in Versions
  BY DEF TypeOK, CallRecords, Version, Versions

(* What superseding the last row of a chain leaves: the same rows but the  *)
(* last, which now ends where the new row starts.                          *)
LEMMA SupersedingLast ==
  ASSUME versions \in Seq(Versions), versions # <<>>,
         NEW v \in Versions, v.to = Open
  PROVE  LET new == Superseded(Last, v) IN
           /\ new \in Seq(Versions)
           /\ Len(new) = Len(versions) + 1
           /\ new[Len(versions) + 1] = v
           /\ new[Last] = [versions[Last] EXCEPT !.to = v.from]
           /\ \A i \in 1..(Len(versions) - 1) : new[i] = versions[i]
<1>1. Len(versions) \in Nat \ {0} /\ Last \in 1..Len(versions)
  BY DEF Last
<1>2. v.from \in Nat
  BY DEF Versions
<1> DEFINE closed == [versions EXCEPT ![Last].to = v.from]
<1>3. [versions[Last] EXCEPT !.to = v.from] \in Versions
  <2>1. versions[Last] \in Versions
    BY <1>1
  <2> DEFINE row == versions[Last]
  <2> HIDE DEF row
  <2>2. row \in Versions => [row EXCEPT !.to = v.from] \in Versions
    BY <1>2 DEF Versions
  <2> QED
    BY <2>1, <2>2 DEF row
<1>4. closed \in Seq(Versions) /\ Len(closed) = Len(versions)
  BY <1>1, <1>3
<1>5. closed[Last] = [versions[Last] EXCEPT !.to = v.from]
  BY <1>1
<1>6. \A i \in 1..(Len(versions) - 1) : closed[i] = versions[i]
  BY <1>1 DEF Last
<1>7. Superseded(Last, v) = Append(closed, v)
  BY DEF Superseded
<1> HIDE DEF closed
<1> QED
  BY <1>1, <1>4, <1>5, <1>6, <1>7 DEF Last

(* A later row appended to a chain gives a chain.                          *)
LEMMA ChainGrows ==
  ASSUME versions \in Seq(Versions), versions # <<>>, Chained, Ordered, GapFree,
         NEW v \in Versions, v.to = Open, versions[Last].from < v.from,
         versions' = Superseded(Last, v)
  PROVE  Chained' /\ Ordered' /\ GapFree'
<1>1. /\ versions' \in Seq(Versions)
      /\ Len(versions') = Len(versions) + 1
      /\ versions'[Len(versions) + 1] = v
      /\ versions'[Last] = [versions[Last] EXCEPT !.to = v.from]
      /\ \A i \in 1..(Len(versions) - 1) : versions'[i] = versions[i]
  BY SupersedingLast
<1>2. Len(versions) \in Nat \ {0} /\ Last = Len(versions) /\ v.from \in Nat
  BY DEF Last, Versions
<1>3. \A i \in 1..Len(versions) :
        versions[i] \in Versions /\ versions[i].from \in Nat
  <2>1. \A i \in 1..Len(versions) : versions[i] \in Versions
    OBVIOUS
  <2>2. \A r \in Versions : r.from \in Nat
    BY DEF Versions
  <2> QED
    BY <2>1, <2>2
<1>4. versions'[Len(versions)].to = v.from /\ versions'[Len(versions)].from = versions[Last].from
  <2> DEFINE row == versions[Last]
  <2>1. row \in Versions
    BY <1>2, <1>3
  <2> HIDE DEF row
  <2>2. /\ [row EXCEPT !.to = v.from].to = v.from
        /\ [row EXCEPT !.to = v.from].from = row.from
    BY <2>1 DEF Versions
  <2> QED
    BY ONLY <2>2, <1>1, <1>2 DEF row
<1>5. Chained'
  <2> SUFFICES ASSUME NEW i \in 1..Len(versions')
               PROVE  IF i = Len(versions') THEN versions'[i].to = Open
                      ELSE /\ versions'[i].to = versions'[i + 1].from
                           /\ versions'[i].from < versions'[i].to
    BY DEF Chained
  <2>1. CASE i = Len(versions')
    BY <2>1, <1>1
  <2>2. CASE i = Len(versions)
    BY <2>2, <1>1, <1>2, <1>4
  <2>3. CASE i < Len(versions)
    <3>1. i \in 1..(Len(versions) - 1) /\ versions'[i] = versions[i]
      BY <2>3, <1>1, <1>2
    <3>2. versions'[i + 1].from = versions[i + 1].from
      BY <2>3, <1>1, <1>2, <1>4
    <3>3. versions[i].to = versions[i + 1].from /\ versions[i].from < versions[i].to
      BY <3>1, <1>2 DEF Chained
    <3> QED
      BY <2>3, <3>1, <3>2, <3>3, <1>1, <1>2
  <2> QED
    BY <2>1, <2>2, <2>3, <1>1, <1>2
<1>6. Ordered'
  <2> SUFFICES ASSUME NEW i \in 1..Len(versions'), NEW j \in 1..Len(versions'), i < j
               PROVE  versions'[i].to # Open /\ versions'[i].to <= versions'[j].from
    BY DEF Ordered
  <2>1. CASE i = Len(versions)
    BY <2>1, <1>1, <1>2, <1>4 DEF Open
  <2>2. CASE i < Len(versions)
    <3>1. i \in 1..(Len(versions) - 1) /\ versions'[i] = versions[i]
      BY <2>2, <1>1, <1>2
    <3>2. versions[i].to # Open /\ versions[i].to <= versions[Len(versions)].from
      BY <3>1, <1>2 DEF Ordered
    <3>3. versions[i].to \in Nat
      BY <3>1, <3>2, <1>2, <1>3 DEF Versions, Open
    <3>4. CASE j = Len(versions')
      BY <3>1, <3>2, <3>3, <3>4, <1>1, <1>2, <1>3
    <3>5. CASE j = Len(versions)
      BY <3>1, <3>2, <3>5, <1>2, <1>4
    <3>6. CASE j < Len(versions)
      BY <3>1, <3>6, <1>1, <1>2 DEF Ordered
    <3> QED
      BY <3>4, <3>5, <3>6, <1>1, <1>2
  <2> QED
    BY <2>1, <2>2, <1>1, <1>2
<1>7. GapFree'
  <2> SUFFICES ASSUME NEW known \in Nat, versions'[1].from <= known
               PROVE  \E i \in 1..Len(versions') : KnownAt(i, known)'
    BY DEF GapFree
  <2>1. versions'[1].from = versions[1].from
    <3>1. CASE Len(versions) = 1
      BY <3>1, <1>2, <1>4
    <3>2. CASE Len(versions) # 1
      BY <3>2, <1>1, <1>2
    <3> QED
      BY <3>1, <3>2
  <2>2. PICK i \in 1..Len(versions) : KnownAt(i, known)
    BY <2>1 DEF GapFree
  <2>3. CASE i < Len(versions)
    <3>1. i \in 1..(Len(versions) - 1) /\ i \in 1..Len(versions')
      BY <2>3, <1>1, <1>2
    <3> QED
      BY <3>1, <2>2, <1>1 DEF KnownAt
  <2>4. CASE i = Len(versions) /\ known < v.from
    <3>1. i \in 1..Len(versions')
      BY <1>1, <1>2
    <3> QED
      BY <3>1, <2>2, <2>4, <1>2, <1>4 DEF KnownAt
  <2>5. CASE ~(known < v.from)
    <3>1. Len(versions) + 1 \in 1..Len(versions')
      BY <1>1, <1>2
    <3>2. v.from <= known
      BY <2>5, <1>2
    <3> QED
      BY <3>1, <3>2, <1>1 DEF KnownAt
  <2> QED
    BY <2>3, <2>4, <2>5, <1>2
<1> QED
  BY <1>5, <1>6, <1>7

(* The same for the first row.                                             *)
LEMMA FirstRow ==
  ASSUME NEW v \in Versions, v.to = Open, versions' = <<v>>
  PROVE  versions' \in Seq(Versions) /\ Chained' /\ Ordered' /\ GapFree'
  BY DEF Chained, Ordered, GapFree, KnownAt

-----------------------------------------------------------------------------

(* A fact without versions and calls that have not begun satisfy it.       *)
LEMMA InitEstablishes == Init => IInv
<1> SUFFICES ASSUME Init PROVE IInv
  OBVIOUS
<1>1. TypeOK
  BY MaxInstantAssumption
     DEF Init, TypeOK, CallRecords, CallStates, Outcomes, Instants
<1>2. Chained /\ Ordered /\ GapFree
  BY DEF Init, Chained, Ordered, GapFree
<1>3. Handles /\ SupersededOnce
  BY DEF Init, Handles, SupersededOnce
<1> QED
  BY <1>1, <1>2, <1>3 DEF IInv

(* A call whose record alone changes, and not to one of the states that    *)
(* speak of rows, keeps what is said of handles.                           *)
LEMMA OtherStates ==
  ASSUME TypeOK, Handles, SupersededOnce, NEW c \in Calls, UNCHANGED versions,
         NEW m, call' = [call EXCEPT ![c] = m],
         m.state \notin {"correction", "superseded", "corrected"}
  PROVE  Handles' /\ SupersededOnce'
<1>1. \A d \in Calls : call'[d] = IF d = c THEN m ELSE call[d]
  BY DEF TypeOK
<1>2. Handles'
  BY <1>1 DEF Handles
<1>3. SupersededOnce'
  BY <1>1 DEF SupersededOnce
<1> QED
  BY <1>2, <1>3

(* Superseding the last row disturbs no handle and no earlier outcome.     *)
LEMMA LastSupersededOnce ==
  ASSUME TypeOK, Handles, SupersededOnce, versions # <<>>,
         NEW c \in Calls, NEW m, call' = [call EXCEPT ![c] = m],
         m.state \in {"superseded", "corrected"}, m.over = Len(versions),
         Len(versions') = Len(versions) + 1
  PROVE  Handles' /\ SupersededOnce'
<1>1. \A d \in Calls : call'[d] = IF d = c THEN m ELSE call[d]
  BY DEF TypeOK
<1>2. Len(versions) \in Nat \ {0}
  BY DEF TypeOK
<1>3. \A d \in Calls : call[d].over \in Nat
  BY DEF TypeOK, CallRecords
<1>4. Handles'
  <2> SUFFICES ASSUME NEW d \in Calls
               PROVE  /\ call'[d].state = "correction" => call'[d].over \in 1..Len(versions')
                      /\ call'[d].state \in {"superseded", "corrected"} =>
                           call'[d].over \in 1..(Len(versions') - 1)
    BY DEF Handles
  <2>1. CASE d = c
    BY <2>1, <1>1, <1>2
  <2>2. CASE d # c
    <3>1. call'[d] = call[d]
      BY <2>2, <1>1
    <3>2. call[d].state = "correction" => call[d].over \in 1..Len(versions)
      BY DEF Handles
    <3>3. call[d].state \in {"superseded", "corrected"} =>
            call[d].over \in 1..(Len(versions) - 1)
      BY DEF Handles
    <3> QED
      BY <3>1, <3>2, <3>3, <1>2
  <2> QED
    BY <2>1, <2>2
<1>5. \A d \in Calls : d # c /\ call[d].state \in {"superseded", "corrected"} =>
        call[d].over # m.over
  BY <1>2, <1>3 DEF Handles
<1>6. SupersededOnce'
  BY <1>1, <1>5 DEF SupersededOnce
<1> QED
  BY <1>4, <1>6

(* An import that begins reads the clock only.                             *)
LEMMA BeginImportKeeps ==
  ASSUME IInv, NEW c \in Calls, BeginImport(c)
  PROVE  IInv'
<1> USE DEF IInv
<1> DEFINE m == [call[c] EXCEPT !.state = "import", !.at = Later(call[c].captured, clock)]
<1>1. call[c] \in CallRecords /\ clock \in Instants
  BY DEF TypeOK
<1>2. m \in CallRecords /\ m.state = "import"
  BY <1>1, MaxInstantAssumption DEF CallRecords, CallStates, Later, Instants
<1>3. call' = [call EXCEPT ![c] = m] /\ UNCHANGED <<clock, versions>>
  BY <1>1 DEF BeginImport, TypeOK
<1>4. TypeOK'
  BY <1>2, <1>3 DEF TypeOK
<1>5. Chained' /\ Ordered' /\ GapFree'
  BY <1>3 DEF Chained, Ordered, GapFree, KnownAt
<1>6. Handles' /\ SupersededOnce'
  <2> HIDE DEF m
  <2> QED
    BY <1>2, <1>3, OtherStates
<1> QED
  BY <1>4, <1>5, <1>6

(* A correction that begins names the version that is current then.        *)
LEMMA BeginCorrectionKeeps ==
  ASSUME IInv, NEW c \in Calls, NEW known \in Instants, BeginCorrection(c, known)
  PROVE  IInv'
<1> USE DEF IInv
<1> DEFINE m == [call[c] EXCEPT !.state = "correction", !.at = known, !.over = Last]
<1>1. call[c] \in CallRecords /\ clock \in Instants /\ versions \in Seq(Versions)
  BY DEF TypeOK
<1>2. versions # <<>> /\ Len(versions) \in Nat \ {0}
  BY <1>1 DEF BeginCorrection
<1>3. m \in CallRecords /\ m.state = "correction" /\ m.over = Len(versions)
  BY <1>1, <1>2 DEF CallRecords, CallStates, Last
<1>4. call' = [call EXCEPT ![c] = m] /\ UNCHANGED <<clock, versions>>
  BY <1>1 DEF BeginCorrection, TypeOK
<1>5. TypeOK'
  BY <1>3, <1>4 DEF TypeOK
<1>6. Chained' /\ Ordered' /\ GapFree'
  BY <1>4 DEF Chained, Ordered, GapFree, KnownAt
<1>7. \A d \in Calls : call'[d] = IF d = c THEN m ELSE call[d]
  BY <1>4 DEF TypeOK
<1> HIDE DEF m
<1>8. Handles'
  BY <1>2, <1>3, <1>4, <1>7 DEF Handles
<1>9. SupersededOnce'
  BY <1>3, <1>7 DEF SupersededOnce
<1> QED
  BY <1>5, <1>6, <1>8, <1>9

(* The read of an import fixes the row it will judge, and nothing else.    *)
LEMMA ReadCurrentKeeps ==
  ASSUME IInv, NEW c \in Calls, ReadCurrent(c)
  PROVE  IInv'
<1> USE DEF IInv
<1> DEFINE m == [call[c] EXCEPT !.state = "reading", !.over = Last]
<1>1. call[c] \in CallRecords /\ Len(versions) \in Nat
  BY DEF TypeOK
<1>2. m \in CallRecords /\ m.state = "reading"
  BY <1>1 DEF CallRecords, CallStates, Last
<1>3. call' = [call EXCEPT ![c] = m] /\ UNCHANGED <<clock, versions>>
  BY <1>1 DEF ReadCurrent, TypeOK
<1>4. TypeOK'
  BY <1>2, <1>3 DEF TypeOK
<1>5. Chained' /\ Ordered' /\ GapFree'
  BY <1>3 DEF Chained, Ordered, GapFree, KnownAt
<1>6. Handles' /\ SupersededOnce'
  <2> HIDE DEF m
  <2> QED
    BY <1>2, <1>3, OtherStates
<1> QED
  BY <1>4, <1>5, <1>6

(* An import inserts, reuses, ignores or supersedes the last row, or the   *)
(* exclusion constraint turns it away.                                     *)
LEMMA PromoteKeeps ==
  ASSUME IInv, NEW c \in Calls, NEW valid \in Starts, Promote(c, valid)
  PROVE  IInv'
<1> USE DEF IInv
<1> DEFINE m == [call[c] EXCEPT !.state = ImportOutcome(c)]
<1>1. /\ call[c] \in CallRecords /\ call[c].at \in Nat
      /\ versions \in Seq(Versions) /\ Len(versions) \in Nat
  BY MaxInstantAssumption DEF TypeOK, CallRecords, Instants
<1>2. ImportOutcome(c) \in {"inserted", "reused", "ignored", "conflict", "superseded", "excluded"}
  BY DEF ImportOutcome
<1>3. /\ m \in CallRecords /\ m.state = ImportOutcome(c) /\ m.over = call[c].over
      /\ call' = [call EXCEPT ![c] = m]
      /\ call' \in [Calls -> CallRecords] /\ clock' \in Instants
  <2>1. m \in CallRecords /\ m.state = ImportOutcome(c) /\ m.over = call[c].over
    BY <1>1, <1>2 DEF CallRecords, CallStates, Outcomes
  <2>2. call' = [call EXCEPT ![c] = m] /\ clock' \in Instants
    BY <1>1 DEF Promote, TypeOK
  <2> HIDE DEF m
  <2> QED
    BY <2>1, <2>2 DEF TypeOK
<1> HIDE DEF m
<1>4. CASE ImportOutcome(c) = "inserted"
  <2>1. versions = <<>>
    BY <1>4 DEF ImportOutcome
  <2>2. versions' = <<Version(c, call[c].at, valid)>>
    BY <1>4 DEF Promote
  <2>3. /\ Version(c, call[c].at, valid) \in Versions
        /\ Version(c, call[c].at, valid).to = Open
    BY <1>1, VersionType DEF Version
  <2>4. versions' \in Seq(Versions) /\ Chained' /\ Ordered' /\ GapFree'
    BY <2>2, <2>3, FirstRow
  <2>5. \A d \in Calls : call'[d] = IF d = c THEN m ELSE call[d]
    BY <1>3 DEF TypeOK
  <2>6. \A d \in Calls : call[d].state \notin {"correction", "superseded", "corrected"}
    BY <2>1 DEF Handles
  <2>7. Handles' /\ SupersededOnce'
    BY <1>3, <1>4, <2>5, <2>6 DEF Handles, SupersededOnce
  <2> QED
    BY <1>3, <2>4, <2>7 DEF TypeOK
<1>5. CASE ImportOutcome(c) = "superseded"
  <2>1. versions # <<>> /\ Last \in 1..Len(versions)
    BY <1>1, <1>5 DEF ImportOutcome, Last
  <2>2. versions[Last] \in Versions
    BY <1>1, <2>1
  <2>3. versions[Last].from \in Nat
    BY <2>2 DEF Versions
  <2>4. SuccessorAt(c) \in Nat /\ versions[Last].from < SuccessorAt(c)
    BY <1>1, <2>3 DEF SuccessorAt, Later
  <2> DEFINE v == Version(c, SuccessorAt(c), valid)
  <2>5. v \in Versions /\ v.to = Open /\ v.from = SuccessorAt(c)
    BY <2>4, VersionType DEF Version
  <2>6. versions' = Superseded(Last, v)
    BY <1>5 DEF Promote
  <2> HIDE DEF v
  <2>7. versions' \in Seq(Versions) /\ Len(versions') = Len(versions) + 1
    BY <1>1, <2>1, <2>5, <2>6, SupersedingLast
  <2>8. Chained' /\ Ordered' /\ GapFree'
    BY <1>1, <2>1, <2>4, <2>5, <2>6, ChainGrows
  <2>9. m.over = Len(versions)
    BY <1>3, <1>5 DEF ImportOutcome, Last
  <2>10. Handles' /\ SupersededOnce'
    BY <1>3, <1>5, <2>1, <2>7, <2>9, LastSupersededOnce
  <2> QED
    BY <1>3, <2>7, <2>8, <2>10 DEF TypeOK
<1>6. CASE ImportOutcome(c) \in {"reused", "ignored", "conflict", "excluded"}
  <2>1. UNCHANGED versions
    BY <1>6 DEF Promote
  <2>2. Chained' /\ Ordered' /\ GapFree'
    BY <2>1 DEF Chained, Ordered, GapFree, KnownAt
  <2>3. Handles' /\ SupersededOnce'
    BY <1>3, <1>6, <2>1, OtherStates
  <2> QED
    BY <1>3, <2>1, <2>2, <2>3 DEF TypeOK
<1> QED
  BY <1>2, <1>4, <1>5, <1>6

(* A correction supersedes the version it named, if that is still open.    *)
LEMMA CorrectKeeps ==
  ASSUME IInv, NEW c \in Calls, NEW valid \in Starts, Correct(c, valid)
  PROVE  IInv'
<1> USE DEF IInv
<1> DEFINE m == [call[c] EXCEPT !.state = IF Correctable(c) THEN "corrected" ELSE "stale"]
<1>1. /\ call[c] \in CallRecords /\ call[c].at \in Nat
      /\ versions \in Seq(Versions) /\ Len(versions) \in Nat
  BY MaxInstantAssumption DEF TypeOK, CallRecords, Instants
<1>2. call[c].state = "correction" /\ call[c].over \in 1..Len(versions) /\ versions # <<>>
  BY DEF Correct, Handles
<1>3. /\ m \in CallRecords /\ m.over = call[c].over
      /\ m.state = (IF Correctable(c) THEN "corrected" ELSE "stale")
      /\ call' = [call EXCEPT ![c] = m]
      /\ call' \in [Calls -> CallRecords] /\ clock' \in Instants
  <2>1. /\ m \in CallRecords /\ m.over = call[c].over
        /\ m.state = (IF Correctable(c) THEN "corrected" ELSE "stale")
    BY <1>1 DEF CallRecords, CallStates, Outcomes
  <2>2. call' = [call EXCEPT ![c] = m] /\ clock' \in Instants
    BY <1>1 DEF Correct, TypeOK
  <2> HIDE DEF m
  <2> QED
    BY <2>1, <2>2 DEF TypeOK
<1> HIDE DEF m
<1>4. CASE Correctable(c)
  <2>1. call[c].over = Last
    BY <1>1, <1>2, <1>4 DEF Correctable, Chained, Ordered, Last
  <2>2. versions[Last].from < call[c].at
    BY <1>4, <2>1 DEF Correctable
  <2> DEFINE v == Version(c, call[c].at, valid)
  <2>3. v \in Versions /\ v.to = Open /\ v.from = call[c].at
    BY <1>1, VersionType DEF Version
  <2>4. versions' = Superseded(Last, v)
    BY <1>4, <2>1 DEF Correct
  <2> HIDE DEF v
  <2>5. versions' \in Seq(Versions) /\ Len(versions') = Len(versions) + 1
    BY <1>1, <1>2, <2>3, <2>4, SupersedingLast
  <2>6. Chained' /\ Ordered' /\ GapFree'
    BY <1>1, <1>2, <2>2, <2>3, <2>4, ChainGrows
  <2>7. Handles' /\ SupersededOnce'
    <3>1. m.state \in {"superseded", "corrected"} /\ m.over = Len(versions)
      BY <1>3, <1>4, <2>1 DEF Last
    <3> QED
      BY <1>2, <1>3, <2>5, <3>1, LastSupersededOnce
  <2> QED
    BY <1>3, <2>5, <2>6, <2>7 DEF TypeOK
<1>5. CASE ~Correctable(c)
  <2>1. UNCHANGED versions
    BY <1>5 DEF Correct
  <2>2. Chained' /\ Ordered' /\ GapFree'
    BY <2>1 DEF Chained, Ordered, GapFree, KnownAt
  <2>3. Handles' /\ SupersededOnce'
    BY <1>3, <1>5, <2>1, OtherStates
  <2> QED
    BY <1>3, <2>1, <2>2, <2>3 DEF TypeOK
<1> QED
  BY <1>4, <1>5

(* A step that leaves rows and calls alone changes nothing here.           *)
LEMMA StutterKeeps ==
  ASSUME IInv, UNCHANGED <<versions, call>>, clock' \in Instants
  PROVE  IInv'
  BY DEF IInv, TypeOK, Chained, Handles, Ordered, GapFree, KnownAt, SupersededOnce

(* Every step of every call keeps the invariant, and so does the clock.    *)
LEMMA StepKeeps == IInv /\ [Next]_vars => IInv'
<1> SUFFICES ASSUME IInv, [Next]_vars PROVE IInv'
  OBVIOUS
<1>1. CASE \E c \in Calls : BeginImport(c) \/ ReadCurrent(c)
  BY <1>1, BeginImportKeeps, ReadCurrentKeeps
<1>2. CASE \E c \in Calls, known \in Instants : BeginCorrection(c, known)
  BY <1>2, BeginCorrectionKeeps
<1>3. CASE \E c \in Calls, valid \in Starts : Promote(c, valid) \/ Correct(c, valid)
  BY <1>3, PromoteKeeps, CorrectKeeps
<1>4. CASE Tick
  BY <1>4, MaxInstantAssumption, StutterKeeps DEF Tick, IInv, TypeOK, Instants
<1>5. CASE UNCHANGED vars
  BY <1>5, StutterKeeps DEF vars, IInv, TypeOK
<1> QED
  BY <1>1, <1>2, <1>3, <1>4, <1>5 DEF Next

(* No superseding version changes what was known before it starts.         *)
LEMMA EarlierAnswersStand ==
  ASSUME versions \in Seq(Versions), versions # <<>>, Chained,
         NEW v \in Versions, v.to = Open, versions[Last].from < v.from,
         versions' = Superseded(Last, v),
         NEW known \in Nat, known < v.from, NEW valid \in Nat
  PROVE  AsOf(known, valid)' = AsOf(known, valid)
<1>1. /\ Len(versions') = Len(versions) + 1
      /\ versions'[Len(versions) + 1] = v
      /\ versions'[Last] = [versions[Last] EXCEPT !.to = v.from]
      /\ \A i \in 1..(Len(versions) - 1) : versions'[i] = versions[i]
  BY SupersedingLast
<1>2. Len(versions) \in Nat \ {0} /\ Last = Len(versions) /\ v.from \in Nat
  BY DEF Last, Versions
<1>3. versions[Last].to = Open
  BY <1>2 DEF Chained
<1>4. /\ versions'[Last].to = v.from /\ v.from # Open
      /\ versions'[Last].from = versions[Last].from
      /\ versions'[Last].valid = versions[Last].valid
  <2> DEFINE row == versions[Last]
  <2>1. row \in Versions
    BY <1>2
  <2> HIDE DEF row
  <2>2. /\ [row EXCEPT !.to = v.from].to = v.from
        /\ [row EXCEPT !.to = v.from].from = row.from
        /\ [row EXCEPT !.to = v.from].valid = row.valid
    BY <2>1 DEF Versions
  <2> QED
    BY <2>2, <1>1, <1>2 DEF row, Open
<1> PICK n \in Nat : n = Len(versions)
  BY <1>2
<1>5. Answers(n, known, valid)' <=> Answers(n, known, valid)
  BY <1>2, <1>3, <1>4 DEF Answers, KnownAt
<1>6. \A i \in 1..(n - 1) : Answers(i, known, valid)' <=> Answers(i, known, valid)
  BY <1>1, <1>2 DEF Answers, KnownAt
<1>7. ~Answers(n + 1, known, valid)'
  BY <1>1, <1>2 DEF Answers, KnownAt
<1>8. \A i \in 1..(n + 1) :
        (i \in 1..n /\ Answers(i, known, valid)) <=> Answers(i, known, valid)'
  BY <1>2, <1>5, <1>6, <1>7
<1> QED
  BY <1>1, <1>2, <1>8 DEF AsOf

(* A version an import writes changes no answer before its system time.    *)
LEMMA PromoteStands ==
  ASSUME IInv, NEW c \in Calls, NEW start \in Starts, Promote(c, start),
         NEW known \in Nat, NEW valid \in Nat, AsOf(known, valid)' # AsOf(known, valid)
  PROVE  \E d \in Calls : call'[d] # call[d] /\ call[d].at <= known
<1>1. /\ call[c] \in CallRecords /\ call[c].at \in Nat
      /\ versions \in Seq(Versions) /\ Len(versions) \in Nat
  BY MaxInstantAssumption DEF IInv, TypeOK, CallRecords, Instants
<1>2. call'[c] # call[c]
  <2>1. call'[c].state = ImportOutcome(c)
    BY <1>1 DEF Promote, IInv, TypeOK, CallRecords
  <2>2. ImportOutcome(c) # "reading"
    BY DEF ImportOutcome
  <2> QED
    BY <2>1, <2>2 DEF Promote
<1>3. CASE ImportOutcome(c) = "inserted"
  <2>1. versions = <<>> /\ versions' = <<Version(c, call[c].at, start)>>
    BY <1>3 DEF Promote, ImportOutcome
  <2>2. versions'[1].from = call[c].at /\ Len(versions') = 1
    BY <2>1 DEF Version
  <2>3. ~(known < call[c].at)
    <3> SUFFICES ASSUME known < call[c].at PROVE FALSE
      OBVIOUS
    <3>1. AsOf(known, valid) = {}
      BY <2>1 DEF AsOf
    <3>2. AsOf(known, valid)' = {}
      BY <1>1, <2>2 DEF AsOf, Answers, KnownAt
    <3> QED
      BY <3>1, <3>2
  <2> QED
    BY <1>1, <1>2, <2>3
<1>4. CASE ImportOutcome(c) = "superseded"
  <2>1. versions # <<>> /\ versions[Last] \in Versions
    BY <1>1, <1>4 DEF ImportOutcome, Last
  <2>2. versions[Last].from \in Nat
    BY <2>1 DEF Versions
  <2>3. /\ SuccessorAt(c) \in Nat /\ call[c].at <= SuccessorAt(c)
        /\ versions[Last].from < SuccessorAt(c)
    BY <1>1, <2>2 DEF SuccessorAt, Later
  <2> DEFINE v == Version(c, SuccessorAt(c), start)
  <2>4. v \in Versions /\ v.to = Open /\ v.from = SuccessorAt(c)
    BY <2>3, VersionType DEF IInv, Version
  <2>5. versions' = Superseded(Last, v)
    BY <1>4 DEF Promote
  <2> HIDE DEF v
  <2>6. ~(known < SuccessorAt(c))
    BY <1>1, <2>1, <2>3, <2>4, <2>5, EarlierAnswersStand DEF IInv
  <2> QED
    BY <1>1, <1>2, <2>3, <2>6
<1>5. CASE ImportOutcome(c) \notin {"inserted", "superseded"}
  BY <1>5 DEF Promote, AsOf, Answers, KnownAt
<1> QED
  BY <1>3, <1>4, <1>5

(* A version a correction writes starts at the correction's own instant.   *)
LEMMA CorrectStands ==
  ASSUME IInv, NEW c \in Calls, NEW start \in Starts, Correct(c, start),
         NEW known \in Nat, NEW valid \in Nat, AsOf(known, valid)' # AsOf(known, valid)
  PROVE  \E d \in Calls : call'[d] # call[d] /\ call[d].at <= known
<1>1. /\ call[c] \in CallRecords /\ call[c].at \in Nat
      /\ versions \in Seq(Versions) /\ Len(versions) \in Nat
  BY MaxInstantAssumption DEF IInv, TypeOK, CallRecords, Instants
<1>2. call[c].state = "correction" /\ call[c].over \in 1..Len(versions) /\ versions # <<>>
  BY DEF Correct, IInv, Handles
<1>3. call'[c] # call[c]
  <2>1. call'[c].state \in {"corrected", "stale"}
    BY <1>1 DEF Correct, IInv, TypeOK, CallRecords
  <2> QED
    BY <1>2, <2>1
<1>4. Correctable(c)
  BY DEF Correct, AsOf, Answers, KnownAt
<1>5. call[c].over = Last
  BY <1>1, <1>2, <1>4 DEF Correctable, IInv, Chained, Ordered, Last
<1>6. versions[Last].from < call[c].at
  BY <1>4, <1>5 DEF Correctable
<1> DEFINE v == Version(c, call[c].at, start)
<1>7. v \in Versions /\ v.to = Open /\ v.from = call[c].at
  BY <1>1, VersionType DEF IInv, Version
<1>8. versions' = Superseded(Last, v)
  BY <1>4, <1>5 DEF Correct
<1> HIDE DEF v
<1>9. ~(known < call[c].at)
  BY <1>1, <1>2, <1>6, <1>7, <1>8, EarlierAnswersStand DEF IInv
<1> QED
  BY <1>1, <1>3, <1>9

-----------------------------------------------------------------------------

(* The inductive invariant holds in every reachable state.                 *)
THEOREM Inductive == Spec => []IInv
  BY InitEstablishes, StepKeeps, PTL DEF Spec

(* The rows are always a well-typed chain: one current row, at the end,    *)
(* and every other row ends where the next one starts (guard_temporal_     *)
(* version and the writers that satisfy it).                               *)
THEOREM ChainIsKept == Spec => []ChainInvariant
<1>1. IInv => ChainInvariant
  BY DEF IInv, ChainInvariant
<1> QED
  BY <1>1, Inductive, PTL

(* An as-of read never meets two versions of the fact, so one_or_none in   *)
(* get_gameweek_as_of never raises.                                        *)
THEOREM AsOfReadsAreUnique == Spec => []OneVersionAsOf
<1>1. IInv => OneVersionAsOf
  <2> SUFFICES ASSUME IInv, NEW known \in Horizon, NEW valid \in Starts,
                      NEW i \in 1..Len(versions), NEW j \in 1..Len(versions),
                      KnownAt(i, known), KnownAt(j, known), i < j
               PROVE  FALSE
    BY DEF OneVersionAsOf, AsOf, Answers, IInv, TypeOK
  <2>1. versions[i].to # Open /\ versions[i].to <= versions[j].from
    BY DEF IInv, Ordered
  <2>2. versions[i] \in Versions /\ versions[j] \in Versions
    BY DEF IInv, TypeOK
  <2>3. versions[i].to \in Nat /\ versions[j].from \in Nat
    BY <2>1, <2>2 DEF Versions
  <2>4. known < versions[i].to /\ versions[j].from <= known
    BY <2>1 DEF KnownAt
  <2>5. known \in Int
    BY DEF Horizon
  <2> QED
    BY <2>1, <2>3, <2>4, <2>5
<1> QED
  BY <1>1, Inductive, PTL

(* AS_OF_NOT_FOUND is raised only for an instant before the fact was first *)
(* known, or before the validity of the version known then began.          *)
NotFoundBeforeItHolds ==
  \A known, valid \in Nat :
    AsOf(known, valid) = {} =>
      \/ versions = <<>> \/ known < versions[1].from
      \/ \E i \in 1..Len(versions) : KnownAt(i, known) /\ valid < versions[i].valid

(* A read finds a version unless the fact was unknown or not yet valid: no *)
(* supersession, by whichever call, leaves an instant between two rows.    *)
THEOREM AsOfReadsFind == Spec => []NotFoundBeforeItHolds
<1>1. IInv => NotFoundBeforeItHolds
  <2> SUFFICES ASSUME IInv, NEW known \in Nat, NEW valid \in Nat,
                      versions # <<>>, ~(known < versions[1].from),
                      AsOf(known, valid) = {}
               PROVE  \E i \in 1..Len(versions) :
                        KnownAt(i, known) /\ valid < versions[i].valid
    BY DEF NotFoundBeforeItHolds
  <2>1. versions \in Seq(Versions) /\ Len(versions) \in Nat \ {0}
    BY DEF IInv, TypeOK
  <2>2. \A i \in 1..Len(versions) : versions[i].from \in Nat /\ versions[i].valid \in Nat
    <3>1. \A row \in Versions : row.from \in Nat /\ row.valid \in Nat
      BY StartsAssumption DEF Versions
    <3>2. \A i \in 1..Len(versions) : versions[i] \in Versions
      BY <2>1
    <3> QED
      BY <3>1, <3>2
  <2>3. versions[1].from <= known
    BY <2>1, <2>2
  <2>4. PICK i \in 1..Len(versions) : KnownAt(i, known)
    BY <2>3 DEF IInv, GapFree
  <2>5. ~(versions[i].valid <= valid)
    BY <2>4 DEF AsOf, Answers
  <2> QED
    BY <2>2, <2>4, <2>5
<1> QED
  BY <1>1, Inductive, PTL

(* An as-of answer changes only by a call known by the instant read: what  *)
(* a call commits starts at its own system time or later.                  *)
THEOREM AsOfAnswersStand == Spec => AnswersStand
<1> DEFINE Stands(known, valid) ==
      AsOf(known, valid)' # AsOf(known, valid) =>
        \E c \in Calls : call'[c] # call[c] /\ call[c].at <= known
<1>1. IInv /\ [Next]_vars => [\A known \in Horizon, valid \in Starts : Stands(known, valid)]_vars
  <2> SUFFICES ASSUME IInv, [Next]_vars, NEW known \in Horizon, NEW valid \in Starts
               PROVE  Stands(known, valid)
    OBVIOUS
  <2>1. known \in Nat /\ valid \in Nat
    BY StartsAssumption DEF Horizon
  <2>2. CASE UNCHANGED versions
    BY <2>2 DEF AsOf, Answers, KnownAt
  <2>3. ASSUME NEW c \in Calls, NEW start \in Starts, Promote(c, start)
        PROVE  Stands(known, valid)
    BY <2>1, <2>3, PromoteStands
  <2>4. ASSUME NEW c \in Calls, NEW start \in Starts, Correct(c, start)
        PROVE  Stands(known, valid)
    BY <2>1, <2>4, CorrectStands
  <2>5. UNCHANGED versions \/ (\E c \in Calls, start \in Starts : Promote(c, start) \/ Correct(c, start))
    BY DEF Next, BeginImport, BeginCorrection, ReadCurrent, Tick, vars
  <2> QED
    BY <2>2, <2>3, <2>4, <2>5
<1>2. [Next]_vars /\ IInv => [\A known \in Horizon, valid \in Starts : Stands(known, valid)]_vars
  BY <1>1
<1> QED
  BY <1>2, Inductive, PTL DEF Spec, AnswersStand

(* No two calls, imports or corrections, ever supersede one version.       *)
THEOREM NoLostUpdate == Spec => []SupersededOnce
<1>1. IInv => SupersededOnce
  BY DEF IInv
<1> QED
  BY <1>1, Inductive, PTL

=============================================================================
