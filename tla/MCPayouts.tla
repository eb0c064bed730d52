------------------------------ MODULE MCPayouts ------------------------------
(* Instances of Payouts for TLC: what admins do with the status of a payout. *)
EXTENDS Payouts, TLC

\* Any status, as AdminUpdatePayoutDto allows.
AnyMove == Status \X Status

\* Admins who settle a pending payout once.
SettleOnce == {"Pending"} \X {"Paid", "Rejected"}

Symmetry == Permutations(Instructors) \cup Permutations(Requests)
=============================================================================
