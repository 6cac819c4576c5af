----------------------------- MODULE MCAccount -----------------------------
(***************************************************************************)
(* Instances of QuotaAccount for TLC: two accounts of equal windows, the   *)
(* first without a rate, the second with a balance that is polled and has  *)
(* no reset.                                                               *)
(***************************************************************************)
EXTENDS QuotaAccount, TLC

CONSTANTS w1, w2, s1, s2

MCWorkers == {w1, w2}
MCSessions == {s1, s2}
MCJumps == {-1, 2}

PlanOf(limit, rate) == [windowed |-> TRUE, limit |-> limit, rate |-> rate]
MCSetups == {<<PlanOf(2, 0), PlanOf(2, 3)>>}

=============================================================================
