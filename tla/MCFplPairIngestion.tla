-------------------------- MODULE MCFplPairIngestion --------------------------
(***************************************************************************)
(* Instances of FplPairIngestion for TLC: the descriptions that pairs may  *)
(* have in each run.                                                       *)
(***************************************************************************)
EXTENDS FplPairIngestion, TLC

CONSTANTS p1, p2, p3, w1, w2, k1, k2

Base ==
  [ profile |-> "synthetic", body |-> "valid", keys |-> {k1}, captured |-> 0,
    cutoff |-> 2, frozen |-> FALSE, gameweek |-> 1, reading |-> 1 ]

(* Two pairs that agree, contradict one another at one instant, share keys *)
(* or are captured at different instants.                                  *)
RaceSources ==
  { Base,
    [Base EXCEPT !.gameweek = 2],
    [Base EXCEPT !.reading = 2, !.keys = {k1, k2}],
    [Base EXCEPT !.captured = 1, !.gameweek = 2, !.keys = {k2}] }

(* One pair of every kind, against a clock that passes cutoffs.            *)
FaultSources ==
  { [Base EXCEPT !.cutoff = 1],
    [Base EXCEPT !.cutoff = 1, !.frozen = TRUE],
    [Base EXCEPT !.body = "malformed"],
    [Base EXCEPT !.body = "inconsistent"],
    [Base EXCEPT !.profile = "manual"],
    [Base EXCEPT !.profile = "manual", !.body = "malformed"],
    [Base EXCEPT !.profile = "manual", !.body = "inconsistent"] }

(* A third fault is of interest to manual pairs only: it exhausts the       *)
(* attempts of a validation.                                               *)
FaultsWithinBudget == faults <= 2 \/ \A p \in Pairs : Manual(p)

(* Three pairs: the second contradicts the first at one instant and the    *)
(* third, captured later, removes the contradiction.                       *)
OvertakingSources ==
  { Base, [Base EXCEPT !.gameweek = 2], [Base EXCEPT !.captured = 1, !.gameweek = 2] }

(* Three pairs whose keys overlap: the last, which has both keys, meets    *)
(* one identity or, when the others were mapped first, two.  The first may *)
(* be a pair that cannot be promoted; the second, captured last, agrees    *)
(* with it and the third does not.                                         *)
OverlappingSources ==
  { Base, [Base EXCEPT !.body = "malformed"], [Base EXCEPT !.body = "inconsistent"],
    [Base EXCEPT !.keys = {k2}, !.captured = 2],
    [Base EXCEPT !.keys = {k1, k2}, !.captured = 1, !.gameweek = 2] }

OverlapInit ==
  /\ Init
  /\ source[p1].keys = {k1}
  /\ source[p2].keys = {k2}
  /\ source[p3].keys = {k1, k2}

OverlapSpec == OverlapInit /\ [][Next]_vars /\ Fairness

(* Processes are alike, and so are pairs: identities are named after pairs *)
(* and compared with one another only.  Used with safety properties only. *)
Alike == Permutations(Workers) \cup Permutations(Pairs)

=============================================================================
