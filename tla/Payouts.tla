------------------------------- MODULE Payouts -------------------------------
(***************************************************************************)
(* Payouts to instructors: PayoutService.createPayout with its five reads,  *)
(* the statements that order executions commit meanwhile, and the status    *)
(* an admin gives a payout.  createPayout holds no lock and no transaction  *)
(* over its reads, so every await is a step boundary.                       *)
(***************************************************************************)
EXTENDS Integers, FiniteSets

CONSTANTS
  Instructors,
  Requests,        \* request slots: how many createPayout handlers overlap
  AdminMoves,      \* the changes of status admins make; the code accepts any
  LockDays,        \* User.payoutLockTime
  None,            \* undefined / null
  MaxStatements, MaxPayouts, MaxDays     \* bounds of the model

Status == {"Pending", "Paid", "Rejected"}
StatementId == 1 .. MaxStatements
PayoutId == 1 .. MaxPayouts

ASSUME PayoutBounds ==
  /\ IsFiniteSet(Requests)
  /\ MaxStatements \in Nat /\ MaxPayouts \in Nat /\ MaxDays \in Nat /\ LockDays \in Nat
ASSUME AdminAssumption == AdminMoves \subseteq Status \X Status

\* A statement that earns its instructor something, or nothing (a free bundle).
Statement == [owner : Instructors, free : BOOLEAN,
              state : {"inserted", "committed", "aborted"}]

\* covers is not a column: the statements whose amounts Payout.amount sums.
Payout == [owner : Instructors, status : Status, last : StatementId,
           covers : SUBSET StatementId, day : 0 .. MaxDays]

ASSUME NoneIsNoRow == None \notin Statement /\ None \notin Payout

VARIABLES
  statements,   \* the Statement table, by id; inserted rows are not visible yet
  payouts,      \* the Payout table, by id
  accounts,     \* instructors with a PayoutAccount
  today,        \* the date
  req           \* the createPayout handlers in flight

vars == <<statements, payouts, accounts, today, req>>

Idle == [pc |-> "idle"]

Request ==
  {Idle}
  \cup [pc : {"unpending"}, owner : Instructors]
  \cup [pc : {"unlocked"}, owner : Instructors, from : StatementId \cup {0}]
  \cup [pc : {"summed"}, owner : Instructors, from : StatementId \cup {0},
        covers : SUBSET StatementId]
  \cup [pc : {"computed"}, owner : Instructors, from : StatementId \cup {0},
        covers : SUBSET StatementId, last : StatementId]

TypeOK ==
  /\ statements \in [StatementId -> Statement \cup {None}]
  /\ payouts \in [PayoutId -> Payout \cup {None}]
  /\ accounts \subseteq Instructors
  /\ today \in 0 .. MaxDays
  /\ req \in [Requests -> Request]

Init ==
  /\ statements = [s \in StatementId |-> None]
  /\ payouts = [p \in PayoutId |-> None]
  /\ accounts = {}
  /\ today = 0
  /\ req = [r \in Requests |-> Idle]

-----------------------------------------------------------------------------
Created == {p \in PayoutId : payouts[p] # None}

PayoutsOf(i, status) ==
  {p \in Created : payouts[p].owner = i /\ payouts[p].status = status}

\* Mutant: a query sees the rows of transactions that have not committed.
VisibleDirty(i) ==
  {s \in StatementId : statements[s] # None /\ statements[s].owner = i}

\* The statements of instructor i that a query sees.
Visible(i) ==
  {s \in StatementId : /\ statements[s] # None /\ statements[s].owner = i
                       /\ statements[s].state = "committed"}

NextId(id, used) == id - 1 \in used \cup {0} /\ \A k \in used : k < id

-----------------------------------------------------------------------------
(* Executions of orders: ids are drawn at the insert, in any order of commit. *)

InsertStatement(s, i, free) ==
  /\ NextId(s, {k \in StatementId : statements[k] # None})
  /\ statements' = [statements EXCEPT ![s] =
                      [owner |-> i, free |-> free, state |-> "inserted"]]
  /\ UNCHANGED <<payouts, accounts, today, req>>

EndTransaction(s, outcome) ==
  /\ statements[s] # None /\ statements[s].state = "inserted"
  /\ statements' = [statements EXCEPT ![s].state = outcome]
  /\ UNCHANGED <<payouts, accounts, today, req>>

-----------------------------------------------------------------------------
(* createPayout, by instructor i in slot r.                                 *)

Proceed(r, step) == req' = [req EXCEPT ![r] = step]

\* Mutant: a payout that is pending is no obstacle.
CheckPendingSkipped(r, i) ==
  /\ req[r].pc = "idle"
  /\ Proceed(r, [pc |-> "unpending", owner |-> i])
  /\ UNCHANGED <<statements, payouts, accounts, today>>

CheckPending(r, i) ==
  /\ req[r].pc = "idle"
  /\ PayoutsOf(i, "Pending") = {}
  /\ Proceed(r, [pc |-> "unpending", owner |-> i])
  /\ UNCHANGED <<statements, payouts, accounts, today>>

\* The payoutLockTime of the user of a request: JwtStrategy.validate deletes it.
RequestLockTime == None

\* leftDays < instructor.payoutLockTime; a comparison with undefined is false.
Locked(p) == RequestLockTime # None /\ payouts[p].day - today < RequestLockTime

\* Mutant: every payout starts from the first statement.
LastStatementIgnored(p) == 0

\* Mutant: the column is not written.
LastStatementMissing(p) == None

\* lastPayout.lastStatementId.
LastStatementOf(p) == payouts[p].last

\* getLastPayout(Paid) is a findFirst with no orderBy: any paid payout may come.
ReadLastPaid(r) ==
  LET i == req[r].owner IN
  /\ req[r].pc = "unpending"
  /\ \/ /\ PayoutsOf(i, "Paid") = {}
        /\ Proceed(r, [pc |-> "unlocked", owner |-> i, from |-> 0])
     \/ \E p \in PayoutsOf(i, "Paid") :
          /\ ~ Locked(p)
          /\ Proceed(r, [pc |-> "unlocked", owner |-> i, from |-> LastStatementOf(p)])
  /\ UNCHANGED <<statements, payouts, accounts, today>>

\* The first query of getCalculatedPayoutWithLastStatement (each query of the batch
\* sees what is committed when it runs: READ COMMITTED).
SumStatements(r) ==
  /\ req[r].pc = "unlocked"
  /\ Proceed(r, [pc |-> "summed", owner |-> req[r].owner, from |-> req[r].from,
                 covers |-> {s \in Visible(req[r].owner) : s > req[r].from}])
  /\ UNCHANGED <<statements, payouts, accounts, today>>

\* Mutant: the oldest statement is read.
LastOldest(visible, s) == \A k \in visible : s <= k

\* orderBy: { id: 'desc' }
Last(visible, s) == \A k \in visible : k <= s

\* The second query, and the test that there is a positive amount.
ReadLastStatement(r) ==
  LET q == req[r] IN
  /\ q.pc = "summed"
  /\ \E s \in q.covers : ~ statements[s].free
  /\ \E s \in Visible(q.owner) :
       /\ Last(Visible(q.owner), s)
       /\ Proceed(r, [pc |-> "computed", owner |-> q.owner, from |-> q.from,
                      covers |-> q.covers, last |-> s])
  /\ UNCHANGED <<statements, payouts, accounts, today>>

CreatePayout(r, p) ==
  LET q == req[r] IN
  /\ q.pc = "computed"
  /\ q.owner \in accounts
  /\ NextId(p, Created)
  /\ payouts' = [payouts EXCEPT ![p] =
                   [owner |-> q.owner, status |-> "Pending", last |-> q.last,
                    covers |-> q.covers, day |-> today]]
  /\ Proceed(r, Idle)
  /\ UNCHANGED <<statements, accounts, today>>

\* The handler throws: not enough funds, no account, a failed query, a crash.
Fail(r) ==
  /\ req[r].pc # "idle"
  /\ Proceed(r, Idle)
  /\ UNCHANGED <<statements, payouts, accounts, today>>

-----------------------------------------------------------------------------
\* createPayoutAccount: creates the row, or updates the one that exists.
SaveAccount(i) ==
  /\ accounts' = accounts \cup {i}
  /\ UNCHANGED <<statements, payouts, today, req>>

\* updatePayoutAdmin: whatever the status was.
UpdateStatus(p, status) ==
  /\ p \in Created
  /\ <<payouts[p].status, status>> \in AdminMoves
  /\ payouts' = [payouts EXCEPT ![p].status = status]
  /\ UNCHANGED <<statements, accounts, today, req>>

NextDay ==
  /\ today < MaxDays
  /\ today' = today + 1
  /\ UNCHANGED <<statements, payouts, accounts, req>>

Next ==
  \/ \E s \in StatementId, i \in Instructors, free \in BOOLEAN : InsertStatement(s, i, free)
  \/ \E s \in StatementId, outcome \in {"committed", "aborted"} : EndTransaction(s, outcome)
  \/ \E r \in Requests :
       \/ \E i \in Instructors : CheckPending(r, i)
       \/ ReadLastPaid(r)
       \/ SumStatements(r)
       \/ ReadLastStatement(r)
       \/ \E p \in PayoutId : CreatePayout(r, p)
       \/ Fail(r)
  \/ \E i \in Instructors : SaveAccount(i)
  \/ \E p \in PayoutId, status \in Status : UpdateStatus(p, status)
  \/ NextDay

Spec == Init /\ [][Next]_vars

-----------------------------------------------------------------------------
\* A payout never pays a statement beyond its own watermark, nor one that is not
\* committed: the sum is taken before the last statement is read, so whatever
\* commits in between, the next payout can only miss a statement, not repeat it.
CoveredUpToWatermark ==
  \A p \in Created : \A s \in payouts[p].covers :
    /\ s <= payouts[p].last
    /\ statements[s] # None
    /\ statements[s].owner = payouts[p].owner /\ statements[s].state = "committed"

\* 'Payout is already pending, Please wait for that to complete first.'
SinglePending == \A i \in Instructors : Cardinality(PayoutsOf(i, "Pending")) <= 1

Overlap(p, q) == payouts[p].covers \cap payouts[q].covers # {}

\* One request at a time and admins that only settle what is pending: a statement is
\* in two payouts that are not rejected only if, when the second was asked for,
\* an older paid payout than the first was there to take the watermark from.
OverlapNeedsOlderPaid ==
  \A p, q \in Created :
    p < q /\ payouts[p].status # "Rejected" /\ Overlap(p, q) =>
      \E x \in Created : /\ x < p /\ payouts[x].status = "Paid"
                         /\ payouts[x].last < payouts[p].last

\* "last payout": a payout continues after the last statement that was paid.
NeverPaidTwice ==
  \A p, q \in Created :
    p # q /\ payouts[p].status = "Paid" /\ payouts[q].status = "Paid" => ~ Overlap(p, q)

\* "Days before which payout cannot be applied": an instructor's payouts are apart.
LockRespected ==
  \A p, q \in Created :
    p < q /\ payouts[p].owner = payouts[q].owner /\ payouts[p].status = "Paid" =>
      payouts[q].day - payouts[p].day >= LockDays
=============================================================================
