---------------------------- MODULE Payouts_proof ----------------------------
(***************************************************************************)
(* What Payouts guarantees for any number of instructors, overlapping       *)
(* requests, statements and payouts, and whatever admins do; and what it    *)
(* guarantees when requests come one at a time and admins settle once.      *)
(***************************************************************************)
EXTENDS MCPayoutRegimes, FiniteSetTheorems, TLAPS

\* What a handler has summed stays committed, and its watermark is not below it.
SummedStaysVisible ==
  /\ \A r \in Requests : req[r].pc \in {"summed", "computed"} =>
       \A s \in req[r].covers : s \in Visible(req[r].owner)
  /\ \A r \in Requests : req[r].pc = "computed" =>
       \A s \in req[r].covers : s <= req[r].last

\* The inductive invariant.
IInv == TypeOK /\ SummedStaysVisible /\ CoveredUpToWatermark

\* The fields a request has are those of its program counter.
LEMMA RequestShape ==
  ASSUME NEW q \in Request
  PROVE  /\ q.pc = "unpending" => q \in [pc : {"unpending"}, owner : Instructors]
         /\ q.pc = "unlocked" =>
              q \in [pc : {"unlocked"}, owner : Instructors, from : StatementId \cup {0}]
         /\ q.pc = "summed" =>
              q \in [pc : {"summed"}, owner : Instructors, from : StatementId \cup {0},
                     covers : SUBSET StatementId]
         /\ q.pc = "computed" =>
              q \in [pc : {"computed"}, owner : Instructors, from : StatementId \cup {0},
                     covers : SUBSET StatementId, last : StatementId]
  BY DEF Request, Idle

\* The inductive invariant holds of the empty database.
LEMMA InitInvariant == Init => IInv
  BY PayoutBounds, NoneIsNoRow
  DEF Init, IInv, TypeOK, SummedStaysVisible, CoveredUpToWatermark, Request, Idle, Created

\* What a query has seen, every later query sees.
LEMMA VisibleGrows ==
  ASSUME TypeOK, [Next]_vars, NEW i \in Instructors, NEW s \in Visible(i)
  PROVE  s \in Visible(i)'
<1>0. s \in StatementId /\ statements[s] # None /\ statements[s].state = "committed"
  BY DEF Visible
<1>1. ASSUME NEW k \in StatementId, NEW j \in Instructors, NEW free \in BOOLEAN,
             InsertStatement(k, j, free)
      PROVE  statements'[s] = statements[s]
  <2>1. s # k
    BY <1>0, <1>1 DEF InsertStatement, NextId, StatementId
  <2> QED BY <1>0, <1>1, <2>1 DEF InsertStatement, TypeOK
<1>2. ASSUME NEW k \in StatementId, NEW outcome \in {"committed", "aborted"},
             EndTransaction(k, outcome)
      PROVE  statements'[s] = statements[s]
  BY <1>0, <1>2 DEF EndTransaction, TypeOK
<1>3. statements'[s] = statements[s]
  BY <1>1, <1>2 DEF Next, vars, CheckPending, ReadLastPaid, SumStatements,
     ReadLastStatement, CreatePayout, Fail, SaveAccount, UpdateStatus, NextDay
<1> QED BY <1>0, <1>3 DEF Visible

\* Every step of createPayout, of an admin or of an execution keeps the types.
LEMMA NextType ==
  ASSUME TypeOK, [Next]_vars
  PROVE  TypeOK'
<1>1. ASSUME NEW s \in StatementId, NEW i \in Instructors, NEW free \in BOOLEAN,
             InsertStatement(s, i, free)
      PROVE  TypeOK'
  <2>1. [owner |-> i, free |-> free, state |-> "inserted"] \in Statement
    BY DEF Statement
  <2> QED BY <1>1, <2>1 DEF InsertStatement, TypeOK
<1>2. ASSUME NEW s \in StatementId, NEW outcome \in {"committed", "aborted"},
             EndTransaction(s, outcome)
      PROVE  TypeOK'
  <2>1. statements[s] \in Statement
    BY <1>2 DEF EndTransaction, TypeOK
  <2>2. [statements[s] EXCEPT !.state = outcome] \in Statement
    BY <2>1 DEF Statement
  <2> QED BY <1>2, <2>2 DEF EndTransaction, TypeOK
<1>3. ASSUME NEW r \in Requests, NEW i \in Instructors, CheckPending(r, i)
      PROVE  TypeOK'
  <2>1. [pc |-> "unpending", owner |-> i] \in Request
    BY DEF Request
  <2> QED BY <1>3, <2>1 DEF CheckPending, Proceed, TypeOK
<1>4. ASSUME NEW r \in Requests, ReadLastPaid(r)
      PROVE  TypeOK'
  <2>1. req[r].owner \in Instructors
    BY <1>4, RequestShape DEF ReadLastPaid, TypeOK
  <2>2. \A p \in PayoutsOf(req[r].owner, "Paid") : LastStatementOf(p) \in StatementId
    BY DEF PayoutsOf, Created, LastStatementOf, TypeOK, Payout
  <2>3. PICK from \in StatementId \cup {0} :
          Proceed(r, [pc |-> "unlocked", owner |-> req[r].owner, from |-> from])
    BY <1>4, <2>2 DEF ReadLastPaid
  <2>4. [pc |-> "unlocked", owner |-> req[r].owner, from |-> from] \in Request
    BY <2>1 DEF Request
  <2> QED BY <1>4, <2>3, <2>4 DEF ReadLastPaid, Proceed, TypeOK
<1>5. ASSUME NEW r \in Requests, SumStatements(r)
      PROVE  TypeOK'
  <2> DEFINE covers == {s \in Visible(req[r].owner) : s > req[r].from}
             step == [pc |-> "summed", owner |-> req[r].owner, from |-> req[r].from,
                      covers |-> covers]
  <2>1. req[r].owner \in Instructors /\ req[r].from \in StatementId \cup {0}
    BY <1>5, RequestShape DEF SumStatements, TypeOK
  <2>2. covers \subseteq StatementId
    BY DEF Visible
  <2>3. step \in Request
    BY <2>1, <2>2 DEF Request
  <2> QED BY <1>5, <2>3 DEF SumStatements, Proceed, TypeOK
<1>6. ASSUME NEW r \in Requests, ReadLastStatement(r)
      PROVE  TypeOK'
  <2>1. PICK s \in Visible(req[r].owner) :
          Proceed(r, [pc |-> "computed", owner |-> req[r].owner, from |-> req[r].from,
                      covers |-> req[r].covers, last |-> s])
    BY <1>6 DEF ReadLastStatement
  <2>2. /\ req[r].owner \in Instructors /\ req[r].from \in StatementId \cup {0}
        /\ req[r].covers \subseteq StatementId
    BY <1>6, RequestShape DEF ReadLastStatement, TypeOK
  <2>3. s \in StatementId
    BY DEF Visible
  <2>4. [pc |-> "computed", owner |-> req[r].owner, from |-> req[r].from,
         covers |-> req[r].covers, last |-> s] \in Request
    BY <2>2, <2>3 DEF Request
  <2> QED BY <1>6, <2>1, <2>4 DEF ReadLastStatement, Proceed, TypeOK
<1>7. ASSUME NEW r \in Requests, NEW p \in PayoutId, CreatePayout(r, p)
      PROVE  TypeOK'
  <2>1. /\ req[r].owner \in Instructors /\ req[r].covers \subseteq StatementId
        /\ req[r].last \in StatementId
    BY <1>7, RequestShape DEF CreatePayout, TypeOK
  <2>2. [owner |-> req[r].owner, status |-> "Pending", last |-> req[r].last,
         covers |-> req[r].covers, day |-> today] \in Payout
    BY <2>1 DEF Payout, Status, TypeOK
  <2> QED BY <1>7, <2>2 DEF CreatePayout, Proceed, Request, TypeOK
<1>8. ASSUME NEW r \in Requests, Fail(r)
      PROVE  TypeOK'
  BY <1>8 DEF Fail, Proceed, Request, TypeOK
<1>9. ASSUME NEW i \in Instructors, SaveAccount(i)
      PROVE  TypeOK'
  BY <1>9 DEF SaveAccount, TypeOK
<1>10. ASSUME NEW p \in PayoutId, NEW status \in Status, UpdateStatus(p, status)
       PROVE  TypeOK'
  <2>1. payouts[p] \in Payout
    BY <1>10 DEF UpdateStatus, Created, TypeOK
  <2>2. [payouts[p] EXCEPT !.status = status] \in Payout
    BY <2>1 DEF Payout
  <2> QED BY <1>10, <2>2 DEF UpdateStatus, TypeOK
<1>11. CASE NextDay
  BY <1>11, PayoutBounds DEF NextDay, TypeOK
<1>12. CASE UNCHANGED vars
  BY <1>12 DEF vars, TypeOK
<1> QED BY <1>1, <1>2, <1>3, <1>4, <1>5, <1>6, <1>7, <1>8, <1>9, <1>10, <1>11, <1>12 DEF Next

\* What a createPayout has summed stays committed while it runs, and is not beyond the
\* last statement it reads afterwards.
LEMMA NextSummed ==
  ASSUME TypeOK, SummedStaysVisible, [Next]_vars
  PROVE  SummedStaysVisible'
<1>1. ASSUME NEW q \in Requests, req'[q] = req[q]
      PROVE  /\ req'[q].pc \in {"summed", "computed"} =>
                  \A s \in req'[q].covers : s \in Visible(req[q].owner)'
             /\ req'[q].pc = "computed" => \A s \in req'[q].covers : s <= req'[q].last
  <2>1. CASE req[q].pc \in {"summed", "computed"}
    <3>1. PICK i \in Instructors : i = req[q].owner
      BY <2>1, RequestShape DEF TypeOK
    <3>2. \A s \in req[q].covers : s \in Visible(i)'
      BY <2>1, <3>1, VisibleGrows DEF SummedStaysVisible
    <3> QED BY <1>1, <2>1, <3>1, <3>2 DEF SummedStaysVisible, Visible
  <2> QED BY <1>1, <2>1
<1>2. ASSUME NEW r \in Requests, SumStatements(r)
      PROVE  /\ \A s \in req'[r].covers : s \in Visible(req[r].owner)'
             /\ req'[r].pc = "summed"
  BY <1>2 DEF SumStatements, Proceed, Visible, TypeOK
<1>3. ASSUME NEW r \in Requests, ReadLastStatement(r)
      PROVE  /\ \A s \in req'[r].covers : s \in Visible(req[r].owner)'
             /\ \A s \in req'[r].covers : s <= req'[r].last
  BY <1>3 DEF ReadLastStatement, Proceed, Last, Visible, SummedStaysVisible, TypeOK
<1>4. ASSUME NEW q \in Requests, req'[q] # req[q], req'[q].pc \in {"summed", "computed"}
      PROVE  SumStatements(q) \/ ReadLastStatement(q)
  <2>1. ASSUME NEW r \in Requests, NEW i \in Instructors, CheckPending(r, i)
        PROVE  FALSE
    BY <1>4, <2>1 DEF CheckPending, Proceed, TypeOK
  <2>2. ASSUME NEW r \in Requests, ReadLastPaid(r)
        PROVE  FALSE
    <3>1. ASSUME NEW k \in StatementId \cup {0, None},
                 Proceed(r, [pc |-> "unlocked", owner |-> req[r].owner, from |-> k])
          PROVE  FALSE
      BY <1>4, <3>1 DEF Proceed, TypeOK
    <3>2. \A p \in PayoutsOf(req[r].owner, "Paid") : LastStatementOf(p) \in StatementId
      BY DEF PayoutsOf, Created, LastStatementOf, TypeOK, Payout
    <3> QED BY <2>2, <3>1, <3>2 DEF ReadLastPaid
  <2>3. ASSUME NEW r \in Requests, SumStatements(r)
        PROVE  SumStatements(q)
    <3>1. r = q
      BY <1>4, <2>3 DEF SumStatements, Proceed, TypeOK
    <3> QED BY <2>3, <3>1
  <2>4. ASSUME NEW r \in Requests, ReadLastStatement(r)
        PROVE  ReadLastStatement(q)
    <3>1. r = q
      BY <1>4, <2>4 DEF ReadLastStatement, Proceed, TypeOK
    <3> QED BY <2>4, <3>1
  <2>5. ASSUME NEW r \in Requests, Fail(r) \/ \E p \in PayoutId : CreatePayout(r, p)
        PROVE  FALSE
    BY <1>4, <2>5 DEF CreatePayout, Fail, Proceed, Idle, TypeOK
  <2>6. CASE UNCHANGED req
    BY <1>4, <2>6
  <2> QED BY <2>1, <2>2, <2>3, <2>4, <2>5, <2>6
          DEF Next, vars, InsertStatement, EndTransaction, SaveAccount, UpdateStatus, NextDay
<1> QED BY <1>1, <1>2, <1>3, <1>4 DEF SummedStaysVisible

\* A payout row takes its sum and its watermark from one createPayout, and keeps them.
LEMMA NextCovered ==
  ASSUME TypeOK, SummedStaysVisible, CoveredUpToWatermark, [Next]_vars
  PROVE  CoveredUpToWatermark'
<1>1. ASSUME NEW p \in Created'
      PROVE  \/ /\ p \in Created /\ payouts'[p].owner = payouts[p].owner
                /\ payouts'[p].last = payouts[p].last
                /\ payouts'[p].covers = payouts[p].covers
             \/ \E r \in Requests :
                  /\ req[r].pc = "computed"
                  /\ payouts'[p].owner = req[r].owner
                  /\ payouts'[p].last = req[r].last /\ payouts'[p].covers = req[r].covers
  <2>1. CASE \E r \in Requests, k \in PayoutId : CreatePayout(r, k)
    BY <2>1 DEF CreatePayout, Created, TypeOK
  <2>2. CASE \E k \in PayoutId, status \in Status : UpdateStatus(k, status)
    <3>1. PICK k \in PayoutId, status \in Status : UpdateStatus(k, status)
      BY <2>2
    <3>2. payouts[k] \in Payout
      BY <3>1 DEF UpdateStatus, Created, TypeOK
    <3>3. \/ payouts'[p] = payouts[p]
          \/ p = k /\ payouts'[p] = [payouts[p] EXCEPT !.status = status]
      BY <3>1 DEF UpdateStatus, Created, TypeOK
    <3> QED BY <3>1, <3>2, <3>3 DEF UpdateStatus, Created, Payout
  <2>3. CASE UNCHANGED payouts
    BY <2>3 DEF Created
  <2> QED BY <2>1, <2>2, <2>3
          DEF Next, vars, InsertStatement, EndTransaction, CheckPending, ReadLastPaid,
              SumStatements, ReadLastStatement, Fail, SaveAccount, NextDay
<1>2. ASSUME NEW i \in Instructors, NEW s \in Visible(i)
      PROVE  /\ statements'[s] # None /\ statements'[s].owner = i
             /\ statements'[s].state = "committed"
  BY VisibleGrows DEF Visible
<1>3. \A p \in Created : payouts[p].owner \in Instructors /\ payouts[p].covers \subseteq StatementId
  BY DEF Created, TypeOK, Payout
<1>4. \A r \in Requests : req[r].pc = "computed" => req[r].owner \in Instructors
  BY RequestShape DEF TypeOK
<1>5. \A p \in Created : \A s \in payouts[p].covers :
        s \in Visible(payouts[p].owner) /\ s <= payouts[p].last
  BY <1>3 DEF CoveredUpToWatermark, Visible
<1> QED BY <1>1, <1>2, <1>3, <1>4, <1>5 DEF CoveredUpToWatermark, SummedStaysVisible

\* Every step preserves the inductive invariant.
LEMMA NextInvariant == IInv /\ [Next]_vars => IInv'
  BY NextType, NextSummed, NextCovered DEF IInv

\* The inductive invariant holds in every reachable state, however createPayout
\* handlers, order executions and admins interleave.
THEOREM Invariant == Spec => []IInv
  BY InitInvariant, NextInvariant, PTL DEF Spec

\* TypeOK: every row and every request in flight has its shape, always.
THEOREM TypeCorrect == Spec => []TypeOK
<1>1. IInv => TypeOK
  BY DEF IInv
<1> QED BY <1>1, Invariant, PTL

\* CoveredUpToWatermark: however requests, executions and admins interleave, a payout
\* sums only committed statements of its instructor up to its watermark (the order
\* of the two queries of getCalculatedPayoutWithLastStatement).
THEOREM PayoutsCoverCommitted == Spec => []CoveredUpToWatermark
<1>1. IInv => CoveredUpToWatermark
  BY DEF IInv
<1> QED BY <1>1, Invariant, PTL

-----------------------------------------------------------------------------
(* Requests one at a time, admins who settle once.                          *)

Busy == {r \in Requests : req[r].pc # "idle"}

\* No two requests are in flight.
OneBusy == \A r, s \in Busy : r = s

\* A payout's watermark is a statement that its instructor's queries see, and the
\* watermarks of an instructor's payouts do not decrease.
WatermarksGrow ==
  /\ \A p \in Created : payouts[p].last \in Visible(payouts[p].owner)
  /\ \A p, q \in Created :
       p < q /\ payouts[p].owner = payouts[q].owner => payouts[p].last <= payouts[q].last

\* What handler step q has found out of its instructor's payouts still holds: nothing is
\* pending, it starts from one that is paid if any is, and its watermark is not behind.
StillHolds(q) ==
  /\ PayoutsOf(q.owner, "Pending") = {}
  /\ q.pc \in {"unlocked", "summed", "computed"} =>
       \/ PayoutsOf(q.owner, "Paid") = {}
       \/ \E x \in PayoutsOf(q.owner, "Paid") : payouts[x].last = q.from
  /\ q.pc \in {"summed", "computed"} => \A s \in q.covers : s > q.from
  /\ q.pc = "computed" =>
       /\ q.last \in Visible(q.owner)
       /\ \A p \in Created : payouts[p].owner = q.owner => payouts[p].last <= q.last

OnePending == \A i \in Instructors : \A p, q \in PayoutsOf(i, "Pending") : p = q

\* The inductive invariant of the sequential regime.
SequenceInv ==
  /\ OneBusy /\ WatermarksGrow /\ OnePending /\ OverlapNeedsOlderPaid
  /\ \A r \in Busy : StillHolds(req[r])

\* A set of at most one element has no two.
LEMMA AtMostOne ==
  ASSUME NEW S, IsFiniteSet(S)
  PROVE  Cardinality(S) <= 1 <=> \A x, y \in S : x = y
<1>1. ASSUME Cardinality(S) <= 1, NEW x \in S, NEW y \in S, x # y
      PROVE  FALSE
  <2>1. IsFiniteSet({x}) /\ Cardinality({x}) = 1
    BY FS_Singleton
  <2>2. Cardinality({x} \cup {y}) = 2
    BY <1>1, <2>1, FS_AddElement
  <2>3. {x} \cup {y} \in SUBSET S
    BY <1>1
  <2>4. Cardinality({x} \cup {y}) <= Cardinality(S)
    BY <2>3, FS_Subset
  <2>5. Cardinality(S) \in Nat
    BY FS_CardinalityType
  <2> QED BY <1>1, <2>2, <2>4, <2>5
<1>2. ASSUME \A x, y \in S : x = y
      PROVE  Cardinality(S) <= 1
  <2>1. CASE S = {}
    BY <2>1, FS_EmptySet
  <2>2. CASE S # {}
    <3>1. PICK x : S = {x}
      BY <1>2, <2>2
    <3> QED BY <3>1, FS_Singleton
  <2> QED BY <2>1, <2>2
<1> QED BY <1>1, <1>2

\* Of a payout row only the status changes, and in the sequential regime only once.
LEMMA RowsKept ==
  ASSUME TypeOK, [Next]_vars, NEW p \in Created
  PROVE  /\ p \in Created' /\ payouts'[p].owner = payouts[p].owner
         /\ payouts'[p].last = payouts[p].last /\ payouts'[p].covers = payouts[p].covers
<1>1. payouts[p] \in Payout /\ payouts[p] # None
  BY DEF Created, TypeOK
<1>2. ASSUME NEW r \in Requests, NEW k \in PayoutId, CreatePayout(r, k)
      PROVE  payouts'[p] = payouts[p]
  <2>1. p # k
    BY <1>2 DEF CreatePayout, NextId, Created, PayoutId
  <2> QED BY <1>2, <2>1 DEF CreatePayout, Created, TypeOK
<1>3. ASSUME NEW k \in PayoutId, NEW status \in Status, UpdateStatus(k, status)
      PROVE  payouts'[p] = payouts[p] \/ payouts'[p] = [payouts[p] EXCEPT !.status = status]
  BY <1>3 DEF UpdateStatus, Created, TypeOK
<1>4. ASSUME NEW status \in Status
      PROVE  /\ [payouts[p] EXCEPT !.status = status] \in Payout
             /\ [payouts[p] EXCEPT !.status = status].owner = payouts[p].owner
             /\ [payouts[p] EXCEPT !.status = status].last = payouts[p].last
             /\ [payouts[p] EXCEPT !.status = status].covers = payouts[p].covers
  BY <1>1 DEF Payout
<1>5. \/ payouts'[p] = payouts[p]
      \/ \E status \in Status : payouts'[p] = [payouts[p] EXCEPT !.status = status]
  BY <1>2, <1>3 DEF Next, vars, InsertStatement, EndTransaction, CheckPending, ReadLastPaid,
     SumStatements, ReadLastStatement, Fail, SaveAccount, NextDay
<1>6. CASE payouts'[p] = payouts[p]
  BY <1>1, <1>6 DEF Created
<1>7. CASE \E status \in Status : payouts'[p] = [payouts[p] EXCEPT !.status = status]
  <2>1. payouts'[p] # None
    BY <1>4, <1>7, NoneIsNoRow
  <2> QED BY <1>4, <1>7, <2>1 DEF Created
<1> QED BY <1>5, <1>6, <1>7

\* A new row is a pending one, of what its createPayout had computed.
LEMMA NewRow ==
  ASSUME TypeOK, [Next]_vars, NEW p \in Created', p \notin Created
  PROVE  \E r \in Requests :
           /\ req[r].pc = "computed" /\ \A k \in Created : k < p
           /\ Created' = Created \cup {p} /\ req' = [req EXCEPT ![r] = Idle]
           /\ payouts' = [payouts EXCEPT ![p] =
                [owner |-> req[r].owner, status |-> "Pending", last |-> req[r].last,
                 covers |-> req[r].covers, day |-> today]]
<1>1. ASSUME NEW k \in PayoutId, NEW status \in Status, UpdateStatus(k, status)
      PROVE  FALSE
  BY <1>1 DEF UpdateStatus, Created, TypeOK
<1>2. PICK r \in Requests, k \in PayoutId : CreatePayout(r, k)
  BY <1>1 DEF Next, vars, InsertStatement, EndTransaction, CheckPending, ReadLastPaid,
     SumStatements, ReadLastStatement, Fail, SaveAccount, NextDay, Created
<1>3. k = p
  BY <1>2 DEF CreatePayout, Created, TypeOK
<1>4. payouts'[p] # None
  BY DEF Created
<1>5. Created' = Created \cup {p}
  BY <1>2, <1>3, <1>4 DEF CreatePayout, Created, TypeOK
<1> QED BY <1>2, <1>3, <1>5 DEF CreatePayout, NextId, Proceed

\* What a handler found out stays so as long as no payout is created.
LEMMA StillHoldsStays ==
  ASSUME TypeOK, [Next]_vars, SettledOnce, Created' = Created,
         NEW q \in Request, q.pc # "idle", StillHolds(q)
  PROVE  StillHolds(q)'
<1>1. q.owner \in Instructors
  BY DEF Request, Idle
<1>2. PayoutsOf(q.owner, "Pending")' = {}
  BY RowsKept DEF StillHolds, PayoutsOf, SettledOnce
<1>3. PayoutsOf(q.owner, "Paid")' = PayoutsOf(q.owner, "Paid")
  BY RowsKept DEF StillHolds, PayoutsOf, SettledOnce
<1>4. \A x \in PayoutsOf(q.owner, "Paid") : payouts'[x].last = payouts[x].last
  BY RowsKept DEF PayoutsOf
<1>5. q.pc = "computed" => q.last \in Visible(q.owner)'
  BY <1>1, VisibleGrows DEF StillHolds
<1>6. \A p \in Created : /\ payouts'[p].owner = payouts[p].owner
                         /\ payouts'[p].last = payouts[p].last
  BY RowsKept
<1> QED BY <1>2, <1>3, <1>4, <1>5, <1>6 DEF StillHolds

\* A step of a handler leaves it with what it has found out.
LEMMA HandlerHolds ==
  ASSUME TypeOK, SummedStaysVisible, WatermarksGrow, [Next]_vars,
         NEW r \in Requests, req'[r] # req[r], req'[r].pc # "idle",
         req[r].pc # "idle" => StillHolds(req[r])
  PROVE  /\ StillHolds(req'[r])
         /\ UNCHANGED <<statements, payouts>>
         /\ \A s \in Requests \ {r} : req'[s] = req[s]
<1> DEFINE q == req[r]
<1>1. ASSUME NEW i \in Instructors, CheckPending(r, i)
      PROVE  StillHolds(req'[r])
  BY <1>1 DEF CheckPending, Proceed, StillHolds, TypeOK
<1>2. ASSUME ReadLastPaid(r)
      PROVE  StillHolds(req'[r])
  <2>1. PayoutsOf(q.owner, "Pending") = {}
    BY <1>2 DEF ReadLastPaid, StillHolds
  <2>2. CASE /\ PayoutsOf(q.owner, "Paid") = {}
             /\ Proceed(r, [pc |-> "unlocked", owner |-> q.owner, from |-> 0])
    BY <2>1, <2>2 DEF Proceed, StillHolds, TypeOK
  <2>3. ASSUME NEW p \in PayoutsOf(q.owner, "Paid"),
               Proceed(r, [pc |-> "unlocked", owner |-> q.owner, from |-> LastStatementOf(p)])
        PROVE  StillHolds(req'[r])
    BY <2>1, <2>3 DEF Proceed, StillHolds, LastStatementOf, TypeOK
  <2> QED BY <1>2, <2>2, <2>3 DEF ReadLastPaid
<1>3. ASSUME SumStatements(r)
      PROVE  StillHolds(req'[r])
  BY <1>3 DEF SumStatements, Proceed, StillHolds, TypeOK
<1>4. ASSUME ReadLastStatement(r)
      PROVE  StillHolds(req'[r])
  <2>1. PICK s \in Visible(q.owner) :
          /\ Last(Visible(q.owner), s)
          /\ Proceed(r, [pc |-> "computed", owner |-> q.owner, from |-> q.from,
                         covers |-> q.covers, last |-> s])
    BY <1>4 DEF ReadLastStatement
  <2>2. \A p \in Created : payouts[p].owner = q.owner => payouts[p].last <= s
    BY <2>1 DEF Last, WatermarksGrow
  <2>3. req'[r] = [pc |-> "computed", owner |-> q.owner, from |-> q.from,
                   covers |-> q.covers, last |-> s]
    BY <2>1 DEF Proceed, TypeOK
  <2>4. StillHolds(q) /\ q.pc = "summed"
    BY <1>4 DEF ReadLastStatement
  <2> QED BY <2>2, <2>3, <2>4 DEF StillHolds
<1>5. ASSUME NEW s \in Requests,
             \/ \E i \in Instructors : CheckPending(s, i)
             \/ ReadLastPaid(s) \/ SumStatements(s) \/ ReadLastStatement(s)
      PROVE  /\ r = s /\ UNCHANGED <<statements, payouts>>
             /\ \A t \in Requests \ {r} : req'[t] = req[t]
  BY <1>5 DEF CheckPending, ReadLastPaid, SumStatements, ReadLastStatement, Proceed, TypeOK
<1>6. ASSUME NEW s \in Requests, Fail(s) \/ \E p \in PayoutId : CreatePayout(s, p)
      PROVE  FALSE
  BY <1>6 DEF Fail, CreatePayout, Proceed, Idle, TypeOK
<1> QED BY <1>1, <1>2, <1>3, <1>4, <1>5, <1>6
        DEF Next, vars, InsertStatement, EndTransaction, SaveAccount, UpdateStatus, NextDay

\* Nothing is found out, and nothing is there, when the database is empty.
LEMMA InitSequence == Init => SequenceInv
  BY DEF Init, SequenceInv, OneBusy, Busy, Idle, WatermarksGrow, OnePending, PayoutsOf,
     OverlapNeedsOlderPaid, Created

\* A payout that is created continues behind every statement that is paid.
LEMMA NewRowOverlap ==
  ASSUME IInv, SequenceInv, [Next]_vars, SettledOnce, OneBusy',
         NEW p \in Created', p \notin Created
  PROVE  SequenceInv'
<1>1. PICK r \in Requests :
        /\ req[r].pc = "computed" /\ \A k \in Created : k < p
        /\ Created' = Created \cup {p} /\ req' = [req EXCEPT ![r] = Idle]
        /\ payouts' = [payouts EXCEPT ![p] =
             [owner |-> req[r].owner, status |-> "Pending", last |-> req[r].last,
              covers |-> req[r].covers, day |-> today]]
  BY NewRow DEF IInv
<1> DEFINE q == req[r]
<1>2. /\ q \in [pc : {"computed"}, owner : Instructors, from : StatementId \cup {0},
                covers : SUBSET StatementId, last : StatementId]
      /\ StillHolds(q) /\ p \in PayoutId
  BY <1>1, RequestShape DEF IInv, TypeOK, SequenceInv, Busy, Created
<1>3. /\ payouts'[p].owner = q.owner /\ payouts'[p].status = "Pending"
      /\ payouts'[p].last = q.last /\ payouts'[p].covers = q.covers
      /\ \A k \in Created : payouts'[k] = payouts[k]
  BY <1>1, <1>2 DEF IInv, TypeOK, Created
<1>4. \A k \in Created : payouts[k] \in Payout
  BY DEF IInv, TypeOK, Created
<1>5. Busy' = {}
  BY <1>1 DEF Busy, OneBusy, SequenceInv, IInv, TypeOK, Idle
<1>6. WatermarksGrow'
  <2>1. ASSUME NEW k \in Created'
        PROVE  payouts'[k].last \in Visible(payouts[k].owner)'
    <3>1. CASE k \in Created
      <4>1. PICK i \in Instructors : i = payouts[k].owner
        BY <1>4, <3>1 DEF Payout
      <4>2. payouts[k].last \in Visible(i)
        BY <3>1, <4>1 DEF SequenceInv, WatermarksGrow
      <4>3. payouts[k].last \in Visible(i)'
        BY <4>2, VisibleGrows DEF IInv
      <4> QED BY <1>3, <3>1, <4>1, <4>3
    <3>2. CASE k = p
      <4>1. PICK i \in Instructors : i = q.owner
        BY <1>2
      <4>2. q.last \in Visible(i)
        BY <1>1, <1>2, <4>1 DEF StillHolds
      <4>3. q.last \in Visible(i)'
        BY <4>2, VisibleGrows DEF IInv
      <4> QED BY <1>3, <3>2, <4>1, <4>3
    <3> QED BY <1>1, <3>1, <3>2
  <2> HIDE DEF q
  <2>2. \A k \in Created : payouts[k].owner = q.owner => payouts[k].last <= q.last
    BY <1>1, <1>2 DEF StillHolds
  <2>3. \A k \in Created : ~ (p < k)
    BY <1>1, <1>2 DEF Created, PayoutId
  <2>4. ~ (p < p)
    BY <1>2 DEF PayoutId
  <2>5. ASSUME NEW k \in Created', NEW n \in Created', k < n,
               payouts'[k].owner = payouts'[n].owner
        PROVE  payouts'[k].last <= payouts'[n].last
    <3>1. k \in Created
      BY <1>1, <2>3, <2>4, <2>5
    <3>2. CASE n \in Created
      BY <1>3, <2>5, <3>1, <3>2 DEF SequenceInv, WatermarksGrow
    <3>3. CASE n = p
      BY <1>3, <2>2, <2>5, <3>1, <3>3
    <3> QED BY <1>1, <3>2, <3>3
  <2> QED BY <2>1, <2>5 DEF WatermarksGrow
<1>7. OnePending'
  BY <1>1, <1>2, <1>3 DEF OnePending, PayoutsOf, StillHolds, SequenceInv
<1>8. OverlapNeedsOlderPaid'
  <2> SUFFICES ASSUME NEW k \in Created', NEW n \in Created', k < n,
                      payouts'[k].status # "Rejected", Overlap(k, n)'
               PROVE  \E x \in Created' : /\ x < k /\ payouts'[x].status = "Paid"
                                          /\ payouts'[x].last < payouts'[k].last
    BY DEF OverlapNeedsOlderPaid
  <2>1. k \in Created
    <3>1. k # p
      BY <1>1, <1>2 DEF Created, PayoutId
    <3> QED BY <1>1, <3>1
  <2>2. CASE n \in Created
    BY <1>1, <1>3, <2>1, <2>2 DEF SequenceInv, OverlapNeedsOlderPaid, Overlap
  <2>3. CASE n = p
    <3>1. PICK s : s \in payouts[k].covers /\ s \in q.covers
      BY <1>3, <2>1, <2>3 DEF Overlap
    <3>2. s <= payouts[k].last /\ statements[s].owner = payouts[k].owner
      BY <2>1, <3>1 DEF IInv, CoveredUpToWatermark
    <3>3. statements[s].owner = q.owner /\ s > q.from
      BY <1>1, <1>2, <3>1 DEF IInv, SummedStaysVisible, Visible, StillHolds
    <3>4. payouts[k].status = "Paid"
      BY <1>2, <1>3, <1>4, <2>1, <3>2, <3>3 DEF StillHolds, PayoutsOf, Payout, Status
    <3>5. PICK x \in PayoutsOf(q.owner, "Paid") : payouts[x].last = q.from
      BY <1>2, <2>1, <3>2, <3>3, <3>4 DEF StillHolds, PayoutsOf
    <3>6. /\ s \in Int /\ q.from \in Int /\ payouts[k].last \in Int /\ k \in Int /\ x \in Int
      BY <1>2, <1>4, <2>1, <3>1, <3>5 DEF Payout, StatementId, PayoutId, Created, PayoutsOf
    <3>7. payouts[x].last < payouts[k].last
      BY <3>2, <3>3, <3>5, <3>6
    <3>8. x < k
      <4>1. x \in Created /\ payouts[x].owner = payouts[k].owner
        BY <3>2, <3>3, <3>5 DEF PayoutsOf
      <4>2. k < x => payouts[k].last <= payouts[x].last
        BY <2>1, <4>1 DEF SequenceInv, WatermarksGrow
      <4>3. payouts[x].last \in Int
        BY <1>4, <4>1 DEF Payout, StatementId
      <4>4. x # k /\ ~ (k < x)
        BY <3>6, <3>7, <4>2, <4>3
      <4> QED BY <3>6, <4>4
    <3> QED BY <1>1, <1>3, <2>1, <3>5, <3>7, <3>8 DEF PayoutsOf
  <2> QED BY <1>1, <2>2, <2>3
<1> QED BY <1>5, <1>6, <1>7, <1>8 DEF SequenceInv, OneBusy

\* Without a new payout, the order of the watermarks and what overlaps stays.
LEMMA SameRows ==
  ASSUME IInv, SequenceInv, [Next]_vars, SettledOnce, Created' = Created
  PROVE  WatermarksGrow' /\ OnePending' /\ OverlapNeedsOlderPaid'
<1>1. \A p \in Created :
        /\ payouts'[p].owner = payouts[p].owner
        /\ payouts'[p].last = payouts[p].last /\ payouts'[p].covers = payouts[p].covers
        /\ payouts'[p].status = payouts[p].status \/ payouts[p].status = "Pending"
  BY RowsKept DEF IInv, SettledOnce
<1>2. \A p \in Created : payouts[p].owner \in Instructors
  BY DEF IInv, TypeOK, Created, Payout
<1>3. WatermarksGrow'
  BY <1>1, <1>2, VisibleGrows DEF SequenceInv, WatermarksGrow, IInv
<1>4. OnePending'
  BY <1>1 DEF OnePending, PayoutsOf, SequenceInv
<1>5. OverlapNeedsOlderPaid'
  <2> SUFFICES ASSUME NEW p \in Created, NEW q \in Created, p < q,
                      payouts'[p].status # "Rejected", Overlap(p, q)'
               PROVE  \E x \in Created : /\ x < p /\ payouts'[x].status = "Paid"
                                         /\ payouts'[x].last < payouts'[p].last
    BY DEF OverlapNeedsOlderPaid
  <2>1. Overlap(p, q) /\ payouts[p].status # "Rejected"
    BY <1>1 DEF Overlap
  <2>2. PICK x \in Created : /\ x < p /\ payouts[x].status = "Paid"
                             /\ payouts[x].last < payouts[p].last
    BY <2>1 DEF SequenceInv, OverlapNeedsOlderPaid
  <2> QED BY <1>1, <2>2
<1> QED BY <1>3, <1>4, <1>5

\* Every step of the sequential regime preserves its invariant.
LEMMA NextSequence ==
  ASSUME IInv, SequenceInv, [Next]_vars, SettledOnce, OneBusy'
  PROVE  SequenceInv'
<1>1. CASE \E p \in Created' : p \notin Created
  BY <1>1, NewRowOverlap
<1>2. CASE Created' = Created
  <2>1. ASSUME NEW r \in Busy'
        PROVE  StillHolds(req[r])'
    <3>1. CASE req'[r] = req[r]
      <4>1. PICK q \in Request : q = req[r]
        BY DEF IInv, TypeOK, Busy
      <4>2. q.pc # "idle" /\ StillHolds(q)
        BY <3>1, <4>1 DEF Busy, SequenceInv
      <4>3. StillHolds(q)'
        BY <1>2, <4>2, StillHoldsStays DEF IInv
      <4> QED BY <3>1, <4>1, <4>3 DEF StillHolds, PayoutsOf, Visible
    <3>2. CASE req'[r] # req[r]
      <4>1. StillHolds(req'[r]) /\ UNCHANGED <<statements, payouts>>
        BY <3>2, HandlerHolds DEF IInv, SequenceInv, Busy
      <4> QED BY <4>1 DEF StillHolds, PayoutsOf, Created, Visible
    <3> QED BY <3>1, <3>2
  <2> QED BY <1>2, <2>1, SameRows DEF SequenceInv
<1> QED BY <1>1, <1>2, RowsKept DEF IInv

\* In the sequential regime its invariant holds in every reachable state.
THEOREM SequenceInvariant == RegimeSpec => [](IInv /\ (regime = "sequential" => SequenceInv))
<1> DEFINE Both == IInv /\ (regime = "sequential" => SequenceInv)
<1>1. RegimeInit => Both
  BY InitInvariant, InitSequence DEF RegimeInit
<1>2. Both /\ [RegimeNext]_<<vars, regime>> => Both'
  <2> SUFFICES ASSUME Both, [RegimeNext]_<<vars, regime>>
               PROVE  Both'
    OBVIOUS
  <2>1. [Next]_vars /\ regime' = regime
    BY DEF RegimeNext, vars
  <2>2. IInv'
    BY <2>1, NextInvariant
  <2>3. ASSUME regime = "sequential"
        PROVE  SequenceInv'
    <3>1. CASE RegimeNext
      <4>1. OneAtATime' /\ SettledOnce
        BY <2>1, <2>3, <3>1 DEF RegimeNext, TwoOverlap
      <4>2. IsFiniteSet(Busy')
        BY PayoutBounds, FS_Subset DEF Busy
      <4>3. OneBusy'
        BY <4>1, <4>2, AtMostOne DEF OneAtATime, OneBusy, Busy
      <4> QED BY <2>1, <2>3, <4>1, <4>3, NextSequence
    <3>2. CASE UNCHANGED <<vars, regime>>
      <4>1. SettledOnce /\ OneBusy'
        BY <2>3, <3>2 DEF vars, SettledOnce, SequenceInv, OneBusy, Busy
      <4> QED BY <2>1, <2>3, <4>1, NextSequence
    <3> QED BY <3>1, <3>2
  <2> QED BY <2>1, <2>2, <2>3
<1> QED BY <1>1, <1>2, PTL DEF RegimeSpec

\* SinglePendingInSequence: createPayout's test for a pending payout keeps an instructor
\* at one, when requests do not overlap and a settled payout stays settled.
THEOREM SinglePendingWhenInSequence == RegimeSpec => []SinglePendingInSequence
<1>1. IInv /\ (regime = "sequential" => SequenceInv) => SinglePendingInSequence
  <2> SUFFICES ASSUME IInv, SequenceInv, NEW i \in Instructors
               PROVE  Cardinality(PayoutsOf(i, "Pending")) <= 1
    BY DEF SinglePendingInSequence, SinglePending
  <2>1. IsFiniteSet(PayoutsOf(i, "Pending"))
    <3>1. IsFiniteSet(PayoutId)
      BY FS_Interval, PayoutBounds DEF PayoutId
    <3> QED BY <3>1, FS_Subset DEF PayoutsOf, Created
  <2> QED BY <2>1, AtMostOne DEF SequenceInv, OnePending
<1> QED BY <1>1, SequenceInvariant, PTL

\* OverlapInSequence: the unordered getLastPayout is all that can make two payouts of
\* requests that do not overlap cover one statement: it took an older watermark.
THEOREM OverlapWhenInSequence == RegimeSpec => []OverlapInSequence
<1>1. IInv /\ (regime = "sequential" => SequenceInv) => OverlapInSequence
  BY DEF SequenceInv, OverlapInSequence
<1> QED BY <1>1, SequenceInvariant, PTL
=============================================================================
