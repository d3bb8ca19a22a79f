-------------------------- MODULE MCOddsPublication --------------------------
(* OddsPublication with two payloads: a plain one and one captured later,   *)
(* one that cannot be promoted and one whose import is given a later        *)
(* processing time, one with an incomplete book and a late one that         *)
(* contradicts what is stored.                                              *)
EXTENDS OddsPublication

Plain ==
  [ captured |-> 0, observed |-> 0, processing |-> Unset,
    promotable |-> TRUE, conflicting |-> FALSE, complete |-> TRUE ]

Later == [Plain EXCEPT !.captured = 1, !.observed = 1, !.processing = 2]

Assigned ==
  { <<Plain, [Plain EXCEPT !.captured = 1]>>,
    <<[Plain EXCEPT !.promotable = FALSE], Later>>,
    <<[Plain EXCEPT !.complete = FALSE],
      [Plain EXCEPT !.captured = 2, !.conflicting = TRUE]>> }

=============================================================================
