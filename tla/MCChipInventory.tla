---------------------------- MODULE MCChipInventory ----------------------------
(***************************************************************************)
(* Instances of ChipInventory and ChipReplay for TLC: three tokens under   *)
(* bundles that differ in limits, groups, durations, gaps and windows.     *)
(***************************************************************************)
EXTENDS ChipReplay

Grant ==
  [ chip |-> "A", group |-> "SQUAD", ready |-> TRUE, cancellable |-> TRUE,
    duration |-> 1, gap |-> 0, excluded |-> {}, acquired |-> 1, start |-> 1,
    end |-> 4, expires |-> 4 ]

(* Two copies of one chip with a gap and another chip, one at a time.      *)
OneAtATime ==
  [ limit |-> 1,
    grant |-> << [Grant EXCEPT !.gap = 1],
                 [Grant EXCEPT !.gap = 1, !.acquired = 2, !.start = 3, !.end = 5, !.expires = 5],
                 [Grant EXCEPT !.chip = "B", !.excluded = {1}] >> ]

(* Two may be in force together; one lasts two Gameweeks.                  *)
TwoAtATime ==
  [ limit |-> 2,
    grant |-> << [Grant EXCEPT !.duration = 2, !.end = 3],
                 [Grant EXCEPT !.chip = "B", !.group = "CAPTAIN"],
                 [Grant EXCEPT !.chip = "C", !.group = "BENCH", !.duration = 2,
                               !.start = 2, !.end = 3, !.expires = 3] >> ]

(* A long use next to an irreversible and a blocked chip, in one group.    *)
LongUse ==
  [ limit |-> 2,
    grant |-> << [Grant EXCEPT !.duration = 3, !.gap = 1, !.end = 5, !.expires = 5],
                 [Grant EXCEPT !.duration = 3, !.gap = 1, !.end = 5, !.expires = 5],
                 [Grant EXCEPT !.chip = "B", !.cancellable = FALSE, !.start = 2] >> ]

Blocked ==
  [ limit |-> 2,
    grant |-> << [Grant EXCEPT !.ready = FALSE, !.acquired = 2, !.start = 3],
                 [Grant EXCEPT !.chip = "B", !.group = "CAPTAIN", !.duration = 2, !.expires = 5],
                 [Grant EXCEPT !.chip = "B", !.group = "CAPTAIN", !.duration = 2, !.end = 2,
                               !.expires = 3] >> ]

Bundles4 == {OneAtATime, TwoAtATime, LongUse, Blocked}

=============================================================================
