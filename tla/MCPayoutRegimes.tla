---------------------------- MODULE MCPayoutRegimes ----------------------------
(* One exploration in two regimes: requests that overlap and admins who set *)
(* any status, with few payouts; and requests that come one at a time from  *)
(* one instructor, with admins who settle once, and more payouts.           *)
EXTENDS MCPayouts

VARIABLE regime

Owners == {statements[s].owner : s \in {k \in StatementId : statements[k] # None}}
          \cup {req[r].owner : r \in {q \in Requests : req[q].pc # "idle"}}

TwoOverlap ==
  /\ regime = "overlapping"
  /\ Cardinality(Created) <= 2 /\ today = 0
  /\ Cardinality({s \in StatementId : statements[s] # None}) <= 2

OneAtATime ==
  /\ regime = "sequential"
  /\ Cardinality({r \in Requests : req[r].pc # "idle"}) <= 1
  /\ Cardinality(Owners \cup accounts) <= 1

SettledOnce ==
  \A p \in Created :
    payouts'[p].status # payouts[p].status => payouts[p].status = "Pending"

RegimeInit == Init /\ regime \in {"overlapping", "sequential"}
RegimeNext ==
  /\ Next /\ UNCHANGED regime
  /\ \/ TwoOverlap'
     \/ OneAtATime' /\ SettledOnce
RegimeSpec == RegimeInit /\ [][RegimeNext]_<<vars, regime>>

\* createPayout refuses while a payout is pending, which is enough when an
\* instructor's requests do not overlap and no settled payout is set back.
SinglePendingInSequence == regime = "sequential" => SinglePending

\* getLastPayout has no order: when requests do not overlap, a statement is in two
\* payouts that are not rejected only if an older paid one could be picked.
OverlapInSequence == regime = "sequential" => OverlapNeedsOlderPaid
=============================================================================
