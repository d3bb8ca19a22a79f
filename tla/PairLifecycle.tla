---------------------------- MODULE PairLifecycle ----------------------------
(***************************************************************************)
(* What the FPL ingestion service promises about one bootstrap/fixtures    *)
(* pair, with workers, transactions, clocks and canonical tables left out: *)
(* the pair climbs one ladder of stages, may leave it only through an      *)
(* escape stage, and its source bundle appears in the very step that makes *)
(* the pair USABLE or never.  FplPairIngestion implements this module.     *)
(***************************************************************************)

CONSTANT Pairs

VARIABLES
  stage,      \* stage[p]: the last stage of p that is not FAILED_RETRYABLE
  published   \* the pairs whose source bundle has been published

vars == <<stage, published>>

(* The stages at which a pair can be observed between two transactions.    *)
(* RECEIVED and QUALITY_PASSED are never the last stage of a committed     *)
(* pair: each is written together with the stage that follows it.          *)
Ladder == {"STORED", "RAW_DISCARDED", "PARSED", "VALIDATED", "MAPPED", "PROMOTED"}

(* The committed climbs, one per transaction of the service.               *)
Climbs ==
  [ ABSENT |-> {"STORED", "RAW_DISCARDED"}, STORED |-> {"PARSED"},
    PARSED |-> {"VALIDATED"}, VALIDATED |-> {"MAPPED"}, MAPPED |-> {"PROMOTED"},
    RAW_DISCARDED |-> {"REJECTED", "FAILED_PERMANENT"} ]

Init ==
  /\ stage = [p \in Pairs |-> "ABSENT"]
  /\ published = {}

Climb(p) ==
  /\ stage[p] \in DOMAIN Climbs
  /\ \E next \in Climbs[stage[p]] : stage' = [stage EXCEPT ![p] = next]
  /\ UNCHANGED published

(* The bundle is published now or never: no later step can add it.         *)
Settle(p) ==
  /\ stage[p] = "PROMOTED"
  /\ stage' = [stage EXCEPT ![p] = "USABLE"]
  /\ published' \in {published, published \cup {p}}

Quarantine(p) ==
  /\ stage[p] \in Ladder
  /\ stage' = [stage EXCEPT ![p] = "QUARANTINED"]
  /\ UNCHANGED published

Next == \E p \in Pairs : Climb(p) \/ Settle(p) \/ Quarantine(p)

Spec == Init /\ [][Next]_vars

=============================================================================
