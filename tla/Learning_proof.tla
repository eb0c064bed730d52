--------------------------- MODULE Learning_proof ---------------------------
(***************************************************************************)
(* What Learning guarantees for any number of students, lectures and       *)
(* overlapping handlers; and what it keeps when they do not overlap.       *)
(***************************************************************************)
EXTENDS MCLearningRegimes, FiniteSetTheorems, TLAPS

\* What a handler goes by still holds when it writes: progress is not undone, an
\* assignment is not taken back, an enrollment row stays.
ReadsStand ==
  \A r \in Requests :
    /\ req[r].pc \in {"unlocking", "assigning"} =>
         /\ req[r].lecture \in Assigned
         /\ progress[req[r].student][req[r].lecture] # "none"
    /\ req[r].pc = "replying" => req[r].assignment \in Unlocked
    /\ req[r].pc = "eligible" =>
         /\ enrolled[req[r].student] # {}
         /\ progress[req[r].student][LastLecture] # "none"

\* The handlers that found no row of the assignment of lecture l.
Assigning(s, l) ==
  {r \in Requests : req[r].pc = "assigning" /\ req[r].student = s /\ req[r].lecture = l}

\* The handlers that found no certificate.
Certifying(s) ==
  {r \in Requests : req[r].pc \in {"requesting", "eligible"} /\ req[r].student = s}

\* The rows there are and the rows still to come were all let through at a time
\* when there was none, by handlers that are or were in different slots.
RowsLetThrough ==
  /\ \A s \in Students, l \in Lectures :
       Cardinality(ActiveOf(s, l)) + Cardinality(Assigning(s, l)) <= Cardinality(Requests)
  /\ \A s \in Students :
       certificates[s] + Cardinality(Certifying(s)) <= Cardinality(Requests)

\* The inductive invariant.
IInv ==
  TypeOK /\ ReadsStand /\ CertificateEarned /\ AssignmentsUnlocked /\ RowsLetThrough

\* The fields a handler has are those of its program counter.
LEMMA RequestShape ==
  ASSUME NEW q \in Request
  PROVE  /\ q.pc \in {"tracking", "upserting", "unlocking", "assigning"} =>
              q.student \in Students /\ q.lecture \in Lectures
         /\ q.pc = "tracking" => q.completed \in BOOLEAN
         /\ q.pc = "upserting" => q.completed \in BOOLEAN /\ q.old \in BOOLEAN
         /\ q.pc \in {"requesting", "eligible"} => q.student \in Students
         /\ q.pc = "replying" => q.assignment \in ActiveId /\ q.status \in AssignmentStatus
  BY DEF Request, Idle

\* An idle handler is in none of the other states.
LEMMA IdleShape == Idle \in Request /\ Idle.pc = "idle"
  BY DEF Request, Idle

\* The step of trackLectureProgress that unlocks goes on as the same request.
LEMMA AssigningShape ==
  ASSUME NEW q \in Request, q.pc = "unlocking"
  PROVE  /\ [q EXCEPT !.pc = "assigning"] \in Request
         /\ [q EXCEPT !.pc = "assigning"].pc = "assigning"
         /\ [q EXCEPT !.pc = "assigning"].student = q.student
         /\ [q EXCEPT !.pc = "assigning"].lecture = q.lecture
<1>1. q \in [pc : {"unlocking", "assigning"}, student : Students, lecture : Lectures]
  BY DEF Request, Idle
<1>2. [q EXCEPT !.pc = "assigning"]
        \in [pc : {"unlocking", "assigning"}, student : Students, lecture : Lectures]
  BY <1>1
<1> QED BY <1>1, <1>2 DEF Request

\* Every handler, mark, order and lapse keeps the types.
LEMMA NextType ==
  ASSUME TypeOK, ReadsStand, [Next]_vars
  PROVE  TypeOK'
<1>1. ASSUME NEW r \in Requests, NEW s \in Students, NEW l \in Lectures,
             NEW completed \in BOOLEAN, Track(r, s, l, completed)
      PROVE  TypeOK'
  <2>1. PICK e \in FoundEnrollment(s) :
          Proceed(r, [pc |-> "tracking", student |-> s, lecture |-> l,
                      enrollment |-> e, completed |-> completed])
    BY <1>1 DEF Track
  <2>2. e \in Expiry \cup {None}
    BY DEF FoundEnrollment, TypeOK
  <2>3. [pc |-> "tracking", student |-> s, lecture |-> l,
         enrollment |-> e, completed |-> completed] \in Request
    BY <2>2 DEF Request
  <2> QED BY <1>1, <2>1, <2>3 DEF Track, Proceed, TypeOK
<1>2. ASSUME NEW r \in Requests, ReadOldProgress(r)
      PROVE  TypeOK'
  <2> DEFINE step == [pc |-> "upserting", student |-> req[r].student,
                      lecture |-> req[r].lecture, completed |-> req[r].completed,
                      old |-> progress[req[r].student][req[r].lecture] = "completed"]
  <2>1. /\ req[r].student \in Students /\ req[r].lecture \in Lectures
        /\ req[r].completed \in BOOLEAN
    BY <1>2, RequestShape DEF ReadOldProgress, TypeOK
  <2>2. (progress[req[r].student][req[r].lecture] = "completed") \in BOOLEAN
    OBVIOUS
  <2>3. step \in Request
    BY <2>1, <2>2 DEF Request
  <2> QED BY <1>2, <2>3 DEF ReadOldProgress, Proceed, TypeOK
<1>3. ASSUME NEW r \in Requests, UpsertProgress(r)
      PROVE  TypeOK'
  <2>1. req[r].student \in Students /\ req[r].lecture \in Lectures
    BY <1>3, RequestShape DEF UpsertProgress, TypeOK
  <2>2. PICK kept \in {"watched", "completed"} :
          progress' = [progress EXCEPT ![req[r].student][req[r].lecture] = kept]
    BY <1>3 DEF UpsertProgress
  <2>3. progress' \in [Students -> [Lectures -> {"none", "watched", "completed"}]]
    BY <2>2 DEF TypeOK
  <2>4. [pc |-> "unlocking", student |-> req[r].student,
         lecture |-> Unlocks(req[r].lecture)] \in Request
    BY <2>1 DEF Request, Unlocks
  <2>5. req' \in [Requests -> Request]
    BY <1>3, <2>4, IdleShape DEF UpsertProgress, Proceed, TypeOK
  <2> QED BY <1>3, <2>3, <2>5 DEF UpsertProgress, TypeOK
<1>4. ASSUME NEW r \in Requests, CheckActive(r)
      PROVE  TypeOK'
  <2>1. [req[r] EXCEPT !.pc = "assigning"] \in Request
    BY <1>4, AssigningShape DEF CheckActive, TypeOK
  <2> QED BY <1>4, <2>1, IdleShape DEF CheckActive, Proceed, TypeOK
<1>5. ASSUME NEW r \in Requests, NEW a \in ActiveId, CreateActive(r, a)
      PROVE  TypeOK'
  <2>1. req[r].student \in Students /\ req[r].lecture \in Lectures
    BY <1>5, RequestShape DEF CreateActive, TypeOK
  <2>2. [student |-> req[r].student, lecture |-> req[r].lecture, status |-> "Incomplete"]
          \in ActiveAssignment
    BY <2>1 DEF ActiveAssignment, AssignmentStatus
  <2> QED BY <1>5, <2>2, IdleShape DEF CreateActive, Proceed, TypeOK
<1>6. ASSUME NEW r \in Requests, NEW a \in ActiveId, Reply(r, a)
      PROVE  TypeOK'
  <2>1. active[a] \in ActiveAssignment
    BY <1>6 DEF Reply, Unlocked, TypeOK
  <2>2. [pc |-> "replying", assignment |-> a, status |-> active[a].status] \in Request
    BY <2>1 DEF Request, ActiveAssignment
  <2> QED BY <1>6, <2>2 DEF Reply, Proceed, TypeOK
<1>7. ASSUME NEW r \in Requests, Submit(r)
      PROVE  TypeOK'
  <2> DEFINE a == req[r].assignment
  <2>1. a \in ActiveId
    BY <1>7, RequestShape DEF Submit, TypeOK
  <2>2. active[a] \in ActiveAssignment
    BY <1>7, <2>1 DEF Submit, ReadsStand, Unlocked, TypeOK
  <2>3. [active[a] EXCEPT !.status = Replied] \in ActiveAssignment
    BY <2>2 DEF ActiveAssignment, AssignmentStatus, Replied
  <2> QED BY <1>7, <2>1, <2>3, IdleShape DEF Submit, Proceed, TypeOK
<1>8. ASSUME NEW a \in ActiveId, NEW status \in {"Passed", "Failed"}, Mark(a, status)
      PROVE  TypeOK'
  <2>1. active[a] \in ActiveAssignment
    BY <1>8 DEF Mark, Unlocked, TypeOK
  <2>2. [active[a] EXCEPT !.status = status] \in ActiveAssignment
    BY <2>1 DEF ActiveAssignment, AssignmentStatus
  <2> QED BY <1>8, <2>2 DEF Mark, TypeOK
<1>9. ASSUME NEW r \in Requests, NEW s \in Students, RequestCertificate(r, s)
      PROVE  TypeOK'
  BY <1>9 DEF RequestCertificate, Proceed, Request, TypeOK
<1>10. ASSUME NEW r \in Requests, CheckEligible(r)
       PROVE  TypeOK'
  <2>1. [pc |-> "eligible", student |-> req[r].student] \in Request
    BY <1>10, RequestShape DEF CheckEligible, Request, TypeOK
  <2> QED BY <1>10, <2>1 DEF CheckEligible, Proceed, TypeOK
<1>11. ASSUME NEW r \in Requests, IssueCertificate(r)
       PROVE  TypeOK'
  <2>1. req[r].student \in Students
    BY <1>11, RequestShape DEF IssueCertificate, TypeOK
  <2>2. certificates[req[r].student] + 1 \in 0 .. MaxCertificates
    BY <1>11, <2>1, LearningBounds DEF IssueCertificate, TypeOK
  <2> QED BY <1>11, <2>2, IdleShape DEF IssueCertificate, Proceed, TypeOK
<1>12. ASSUME NEW r \in Requests, Fail(r)
       PROVE  TypeOK'
  BY <1>12, IdleShape DEF Fail, Proceed, TypeOK
<1>13. ASSUME NEW s \in Students, NEW e \in {"never", "ahead"}, Enroll(s, e)
       PROVE  TypeOK'
  <2>1. enrolled[s] \cup {e} \in SUBSET Expiry
    BY DEF Expiry, TypeOK
  <2> QED BY <1>13, <2>1 DEF Enroll, TypeOK
<1>14. ASSUME NEW s \in Students, Lapse(s)
       PROVE  TypeOK'
  <2>1. (enrolled[s] \ {"ahead"}) \cup {"past"} \in SUBSET Expiry
    BY DEF Expiry, TypeOK
  <2> QED BY <1>14, <2>1 DEF Lapse, TypeOK
<1>15. CASE UNCHANGED vars
  BY <1>15 DEF vars, TypeOK
<1> QED
  BY <1>1, <1>2, <1>3, <1>4, <1>5, <1>6, <1>7, <1>8, <1>9, <1>10, <1>11, <1>12,
     <1>13, <1>14, <1>15 DEF Next

\* Progress, enrollments and assignments are never taken away: the rows are only
\* created and updated.
LEMMA RowsStay ==
  ASSUME TypeOK, ReadsStand, [Next]_vars
  PROVE  /\ \A s \in Students, l \in Lectures : progress[s][l] # "none" => progress'[s][l] # "none"
         /\ \A s \in Students : enrolled[s] # {} => enrolled'[s] # {}
         /\ \A a \in Unlocked : /\ a \in Unlocked'
                               /\ active'[a].student = active[a].student
                               /\ active'[a].lecture = active[a].lecture
<1> DEFINE Kept == /\ \A s \in Students, l \in Lectures :
                        progress[s][l] # "none" => progress'[s][l] # "none"
                   /\ \A s \in Students : enrolled[s] # {} => enrolled'[s] # {}
                   /\ \A a \in Unlocked : /\ a \in Unlocked'
                                         /\ active'[a].student = active[a].student
                                         /\ active'[a].lecture = active[a].lecture
<1>1. ASSUME NEW r \in Requests, UpsertProgress(r)
      PROVE  Kept
  <2>1. PICK kept \in {"watched", "completed"} :
          progress' = [progress EXCEPT ![req[r].student][req[r].lecture] = kept]
    BY <1>1 DEF UpsertProgress
  <2>2. \A s \in Students, l \in Lectures : progress[s][l] # "none" => progress'[s][l] # "none"
    BY <2>1 DEF TypeOK
  <2> QED BY <1>1, <2>2 DEF UpsertProgress, Unlocked
<1>2. ASSUME NEW r \in Requests, NEW a \in ActiveId, CreateActive(r, a)
      PROVE  Kept
  <2>1. \A b \in Unlocked : b \in ActiveId /\ b # a
    BY <1>2 DEF CreateActive, Unlocked
  <2>2. \A b \in Unlocked : active'[b] = active[b]
    BY <1>2, <2>1 DEF CreateActive, TypeOK
  <2> QED BY <1>2, <2>1, <2>2 DEF CreateActive, Unlocked
<1>3. ASSUME NEW a \in ActiveId, NEW status \in AssignmentStatus, a \in Unlocked,
             active' = [active EXCEPT ![a].status = status],
             UNCHANGED <<progress, enrolled>>
      PROVE  Kept
  <2>1. active[a] \in ActiveAssignment
    BY <1>3 DEF Unlocked, TypeOK
  <2>2. /\ [active[a] EXCEPT !.status = status].student = active[a].student
        /\ [active[a] EXCEPT !.status = status].lecture = active[a].lecture
        /\ [active[a] EXCEPT !.status = status] \in ActiveAssignment
    BY <2>1 DEF ActiveAssignment
  <2>3. \A b \in ActiveId : active'[b] = IF b = a THEN [active[a] EXCEPT !.status = status]
                                         ELSE active[b]
    BY <1>3 DEF TypeOK
  <2> QED BY <1>3, <2>2, <2>3, NoneIsNothing DEF Unlocked
<1>4. ASSUME NEW r \in Requests, Submit(r)
      PROVE  Kept
  <2>1. req[r].assignment \in Unlocked /\ req[r].assignment \in ActiveId
    BY <1>4 DEF Submit, ReadsStand, Unlocked
  <2>2. CASE active' = active
    BY <1>4, <2>2 DEF Submit, Unlocked
  <2>3. CASE active' = [active EXCEPT ![req[r].assignment].status = Replied]
    BY <1>3, <1>4, <2>1, <2>3 DEF Submit, Replied, AssignmentStatus
  <2> QED BY <1>4, <2>2, <2>3 DEF Submit
<1>5. ASSUME NEW a \in ActiveId, NEW status \in {"Passed", "Failed"}, Mark(a, status)
      PROVE  Kept
  BY <1>3, <1>5 DEF Mark, AssignmentStatus
<1>6. ASSUME NEW s \in Students, NEW e \in {"never", "ahead"}, Enroll(s, e)
      PROVE  Kept
  BY <1>6 DEF Enroll, Unlocked, TypeOK
<1>7. ASSUME NEW s \in Students, Lapse(s)
      PROVE  Kept
  BY <1>7 DEF Lapse, Unlocked, TypeOK
<1>8. ASSUME UNCHANGED <<progress, enrolled, active>>
      PROVE  Kept
  BY <1>8 DEF Unlocked
<1>9. Kept
  BY <1>1, <1>2, <1>4, <1>5, <1>6, <1>7, <1>8 DEF Next, vars, Track, ReadOldProgress,
     CheckActive, Reply, RequestCertificate, CheckEligible, IssueCertificate, Fail
<1> QED BY <1>9

\* A handler that a step leaves alone goes by what it read as before.
LEMMA ReadsStandElsewhere ==
  ASSUME TypeOK, ReadsStand, [Next]_vars,
         NEW q \in Requests, req'[q] = req[q] \/ req'[q].pc \in
           {"idle", "tracking", "upserting", "requesting"}
  PROVE  /\ req'[q].pc \in {"unlocking", "assigning"} =>
              /\ req'[q].lecture \in Assigned
              /\ progress'[req'[q].student][req'[q].lecture] # "none"
         /\ req'[q].pc = "replying" => req'[q].assignment \in Unlocked'
         /\ req'[q].pc = "eligible" =>
              /\ enrolled'[req'[q].student] # {}
              /\ progress'[req'[q].student][LastLecture] # "none"
<1>1. CASE req'[q] = req[q]
  <2>1. req[q].pc \in {"unlocking", "assigning"} =>
          req[q].student \in Students /\ req[q].lecture \in Lectures
    BY RequestShape DEF TypeOK
  <2>2. req[q].pc = "eligible" => req[q].student \in Students
    BY RequestShape DEF TypeOK
  <2>3. LastLecture \in Lectures
    BY LectureAssumption DEF Lectures
  <2> QED BY <1>1, <2>1, <2>2, <2>3, RowsStay DEF ReadsStand
<1> QED BY <1>1

\* Whatever a handler relies on when it writes still holds.
LEMMA NextReads ==
  ASSUME TypeOK, ReadsStand, [Next]_vars
  PROVE  ReadsStand'
<1>1. ASSUME NEW r \in Requests, UpsertProgress(r)
      PROVE  ReadsStand'
  <2>1. req[r].student \in Students /\ req[r].lecture \in Lectures
    BY <1>1, RequestShape DEF UpsertProgress, TypeOK
  <2>2. progress'[req[r].student][req[r].lecture] # "none"
    BY <1>1, <2>1 DEF UpsertProgress, TypeOK
  <2>3. CASE req'[r] = Idle
    BY <1>1, <2>3, IdleShape, ReadsStandElsewhere DEF UpsertProgress, Proceed, TypeOK, ReadsStand
  <2>4. CASE /\ Unlocks(req[r].lecture) \in Assigned
             /\ req'[r] = [pc |-> "unlocking", student |-> req[r].student,
                           lecture |-> Unlocks(req[r].lecture)]
    <3>1. \A q \in Requests \ {r} : req'[q] = req[q]
      BY <1>1 DEF UpsertProgress, Proceed, TypeOK
    <3> QED BY <2>2, <2>4, <3>1, ReadsStandElsewhere DEF Unlocks, ReadsStand
  <2> QED BY <1>1, <2>3, <2>4 DEF UpsertProgress, Proceed, TypeOK
<1>2. ASSUME NEW r \in Requests, CheckActive(r)
      PROVE  ReadsStand'
  <2>1. req'[r] = Idle \/ req'[r] = [req[r] EXCEPT !.pc = "assigning"]
    BY <1>2 DEF CheckActive, Proceed, TypeOK
  <2>2. \A q \in Requests \ {r} : req'[q] = req[q]
    BY <1>2 DEF CheckActive, Proceed, TypeOK
  <2>3. CASE req'[r] = Idle
    BY <2>2, <2>3, IdleShape, ReadsStandElsewhere DEF ReadsStand
  <2>4. CASE req'[r] = [req[r] EXCEPT !.pc = "assigning"]
    <3>1. /\ req'[r].pc = "assigning" /\ req'[r].student = req[r].student
          /\ req'[r].lecture = req[r].lecture
      BY <1>2, <2>4, AssigningShape DEF CheckActive, TypeOK
    <3>2. req[r].lecture \in Assigned /\ progress'[req[r].student][req[r].lecture] # "none"
      BY <1>2 DEF CheckActive, ReadsStand
    <3> QED BY <2>2, <3>1, <3>2, ReadsStandElsewhere DEF ReadsStand
  <2> QED BY <2>1, <2>3, <2>4
<1>3. ASSUME NEW r \in Requests, NEW a \in ActiveId, Reply(r, a)
      PROVE  ReadsStand'
  <2>1. \A q \in Requests \ {r} : req'[q] = req[q]
    BY <1>3 DEF Reply, Proceed, TypeOK
  <2>2. req'[r] = [pc |-> "replying", assignment |-> a, status |-> active[a].status]
    BY <1>3 DEF Reply, Proceed, TypeOK
  <2>3. a \in Unlocked'
    BY <1>3, RowsStay DEF Reply
  <2> QED BY <2>1, <2>2, <2>3, ReadsStandElsewhere DEF ReadsStand
<1>4. ASSUME NEW r \in Requests, CheckEligible(r)
      PROVE  ReadsStand'
  <2>1. \A q \in Requests \ {r} : req'[q] = req[q]
    BY <1>4 DEF CheckEligible, Proceed, TypeOK
  <2>2. /\ req'[r] = [pc |-> "eligible", student |-> req[r].student]
        /\ enrolled'[req[r].student] # {}
        /\ progress'[req[r].student][LastLecture] # "none"
    BY <1>4 DEF CheckEligible, CompletedLast, Proceed, TypeOK
  <2> QED BY <2>1, <2>2, ReadsStandElsewhere DEF ReadsStand
<1>5. ASSUME NEW r \in Requests, NEW step,
             req' = [req EXCEPT ![r] = step],
             step.pc \in {"idle", "tracking", "upserting", "requesting"}
      PROVE  ReadsStand'
  BY <1>5, ReadsStandElsewhere DEF TypeOK, ReadsStand
<1>6. ASSUME NEW r \in Requests, NEW s \in Students, NEW l \in Lectures,
             NEW completed \in BOOLEAN, Track(r, s, l, completed)
      PROVE  ReadsStand'
  BY <1>5, <1>6 DEF Track, Proceed
<1>7. ASSUME NEW r \in Requests, ReadOldProgress(r)
      PROVE  ReadsStand'
  BY <1>5, <1>7 DEF ReadOldProgress, Proceed
<1>8. ASSUME NEW r \in Requests, NEW s \in Students, RequestCertificate(r, s)
      PROVE  ReadsStand'
  BY <1>5, <1>8 DEF RequestCertificate, Proceed
<1>9. ASSUME NEW r \in Requests,
             \/ \E a \in ActiveId : CreateActive(r, a)
             \/ Submit(r) \/ IssueCertificate(r) \/ Fail(r)
      PROVE  ReadsStand'
  BY <1>5, <1>9, IdleShape DEF CreateActive, Submit, IssueCertificate, Fail, Proceed
<1>10. ASSUME req' = req
       PROVE  ReadsStand'
  BY <1>10, ReadsStandElsewhere DEF ReadsStand
<1> QED
  BY <1>1, <1>2, <1>3, <1>4, <1>6, <1>7, <1>8, <1>9, <1>10
  DEF Next, vars, Mark, Enroll, Lapse

\* requestCertificate creates a row only for a student it has found eligible.
LEMMA NextCertificates ==
  ASSUME TypeOK, ReadsStand, CertificateEarned, [Next]_vars
  PROVE  CertificateEarned'
<1> SUFFICES ASSUME NEW s \in Students, certificates'[s] > 0
             PROVE  enrolled'[s] # {} /\ progress'[s][LastLecture] # "none"
  BY DEF CertificateEarned, Certified
<1>1. LastLecture \in Lectures
  BY LectureAssumption DEF Lectures
<1>2. ASSUME NEW r \in Requests, IssueCertificate(r), s = req[r].student
      PROVE  enrolled[s] # {} /\ progress[s][LastLecture] # "none"
  BY <1>2 DEF IssueCertificate, ReadsStand
<1>3. ASSUME NEW r \in Requests, IssueCertificate(r), s # req[r].student
      PROVE  certificates'[s] = certificates[s]
  BY <1>3 DEF IssueCertificate, TypeOK
<1>4. ASSUME UNCHANGED certificates
      PROVE  certificates'[s] = certificates[s]
  BY <1>4
<1>5. \/ certificates'[s] = certificates[s]
      \/ enrolled[s] # {} /\ progress[s][LastLecture] # "none"
  BY <1>2, <1>3, <1>4 DEF Next, vars, Track, ReadOldProgress, UpsertProgress,
     CheckActive, CreateActive, Reply, Submit, Mark, RequestCertificate, CheckEligible,
     Fail, Enroll, Lapse
<1>6. enrolled[s] # {} /\ progress[s][LastLecture] # "none"
  BY <1>5 DEF CertificateEarned, Certified
<1> QED BY <1>1, <1>6, RowsStay

\* trackLectureProgress creates an assignment only after the progress it rewards.
LEMMA NextAssignments ==
  ASSUME TypeOK, ReadsStand, AssignmentsUnlocked, [Next]_vars
  PROVE  AssignmentsUnlocked'
<1> SUFFICES ASSUME NEW a \in ActiveId, a \in Unlocked'
             PROVE  /\ active'[a].lecture \in Assigned
                    /\ progress'[active'[a].student][active'[a].lecture] # "none"
  BY DEF AssignmentsUnlocked, Unlocked
<1>1. CASE a \in Unlocked
  <2>1. active[a].student \in Students /\ active[a].lecture \in Lectures
    BY <1>1 DEF Unlocked, TypeOK, ActiveAssignment
  <2> QED BY <1>1, <2>1, RowsStay DEF AssignmentsUnlocked
<1>2. CASE a \notin Unlocked
  <2>1. ASSUME NEW r \in Requests, NEW b \in ActiveId, CreateActive(r, b)
        PROVE  /\ active'[a].student = req[r].student
               /\ active'[a].lecture = req[r].lecture
    <3>1. a = b
      BY <1>2, <2>1 DEF CreateActive, Unlocked, TypeOK
    <3> QED BY <2>1, <3>1 DEF CreateActive, TypeOK
  <2>2. ASSUME NEW r \in Requests, Submit(r)
        PROVE  a \in Unlocked
    <3>1. req[r].assignment \in Unlocked
      BY <2>2 DEF Submit, ReadsStand
    <3> QED BY <2>2, <3>1 DEF Submit, Unlocked, TypeOK
  <2>3. ASSUME NEW b \in ActiveId, NEW status \in {"Passed", "Failed"}, Mark(b, status)
        PROVE  a \in Unlocked
    BY <2>3 DEF Mark, Unlocked, TypeOK
  <2>4. active' # active
    BY <1>2 DEF Unlocked
  <2>5. PICK r \in Requests, b \in ActiveId : CreateActive(r, b)
    BY <1>2, <2>2, <2>3, <2>4 DEF Next, vars, Track, ReadOldProgress, UpsertProgress,
       CheckActive, Reply, RequestCertificate, CheckEligible, IssueCertificate,
       Fail, Enroll, Lapse
  <2>6. req[r].lecture \in Assigned /\ progress[req[r].student][req[r].lecture] # "none"
    BY <2>5 DEF CreateActive, ReadsStand
  <2>7. progress' = progress
    BY <2>5 DEF CreateActive
  <2>8. active'[a].student = req[r].student /\ active'[a].lecture = req[r].lecture
    BY <2>1, <2>5
  <2> QED BY <2>6, <2>7, <2>8
<1> QED BY <1>1, <1>2
\* The sets that are counted are finite.
LEMMA FiniteRows ==
  ASSUME TypeOK
  PROVE  /\ Cardinality(Requests) \in Nat
         /\ \A s, l : /\ IsFiniteSet(ActiveOf(s, l)) /\ IsFiniteSet(Assigning(s, l))
                     /\ Cardinality(ActiveOf(s, l)) \in Nat
                     /\ Cardinality(Assigning(s, l)) \in Nat
                     /\ Cardinality(Assigning(s, l)) <= Cardinality(Requests)
         /\ \A s : /\ IsFiniteSet(Certifying(s))
                  /\ Cardinality(Certifying(s)) \in Nat
                  /\ Cardinality(Certifying(s)) <= Cardinality(Requests)
<1>1. IsFiniteSet(ActiveId)
  BY FS_Interval, LearningBounds DEF ActiveId
<1>2. \A s, l : ActiveOf(s, l) \in SUBSET ActiveId /\ Assigning(s, l) \in SUBSET Requests
  BY DEF ActiveOf, Unlocked, Assigning
<1>3. \A s : Certifying(s) \in SUBSET Requests
  BY DEF Certifying
<1>4. \A s, l : /\ IsFiniteSet(ActiveOf(s, l)) /\ IsFiniteSet(Assigning(s, l))
              /\ Cardinality(Assigning(s, l)) <= Cardinality(Requests)
  BY <1>1, <1>2, FS_Subset, RequestsAssumption
<1>5. \A s : /\ IsFiniteSet(Certifying(s))
           /\ Cardinality(Certifying(s)) <= Cardinality(Requests)
  BY <1>3, FS_Subset, RequestsAssumption
<1> QED BY <1>4, <1>5, FS_CardinalityType, RequestsAssumption

\* The same in the next state, where the sets are of the new rows and handlers.
LEMMA FiniteRowsNext ==
  ASSUME TypeOK'
  PROVE  /\ \A s, l : /\ IsFiniteSet(ActiveOf(s, l)') /\ IsFiniteSet(Assigning(s, l)')
                     /\ Cardinality(ActiveOf(s, l)') \in Nat
                     /\ Cardinality(Assigning(s, l)') \in Nat
                     /\ Cardinality(Assigning(s, l)') <= Cardinality(Requests)
         /\ \A s : /\ IsFiniteSet(Certifying(s)')
                  /\ Cardinality(Certifying(s)') \in Nat
                  /\ Cardinality(Certifying(s)') <= Cardinality(Requests)
<1>1. IsFiniteSet(ActiveId)
  BY FS_Interval, LearningBounds DEF ActiveId
<1>2. \A s, l : ActiveOf(s, l)' \in SUBSET ActiveId /\ Assigning(s, l)' \in SUBSET Requests
  BY DEF ActiveOf, Unlocked, Assigning
<1>3. \A s : Certifying(s)' \in SUBSET Requests
  BY DEF Certifying
<1>4. \A s, l : /\ IsFiniteSet(ActiveOf(s, l)') /\ IsFiniteSet(Assigning(s, l)')
              /\ Cardinality(Assigning(s, l)') <= Cardinality(Requests)
  BY <1>1, <1>2, FS_Subset, RequestsAssumption
<1>5. \A s : /\ IsFiniteSet(Certifying(s)')
           /\ Cardinality(Certifying(s)') <= Cardinality(Requests)
  BY <1>3, FS_Subset, RequestsAssumption
<1> QED BY <1>4, <1>5, FS_CardinalityType, RequestsAssumption

\* A step that adds no assignment and lets no handler through keeps the bound.
LEMMA AssignmentsNoMore ==
  ASSUME TypeOK, TypeOK', RowsLetThrough, NEW s \in Students, NEW l \in Lectures,
         ActiveOf(s, l)' = ActiveOf(s, l), Assigning(s, l)' \subseteq Assigning(s, l)
  PROVE  Cardinality(ActiveOf(s, l)') + Cardinality(Assigning(s, l)') <= Cardinality(Requests)
<1>1. Cardinality(Assigning(s, l)') <= Cardinality(Assigning(s, l))
  BY FS_Subset, FiniteRows
<1> QED BY <1>1, FiniteRows, FiniteRowsNext DEF RowsLetThrough

\* createActiveAssignment lets a handler through only when there is no row, so the
\* rows and the handlers let through are never more than the slots.
LEMMA NextAssignmentRows ==
  ASSUME TypeOK, TypeOK', ReadsStand, RowsLetThrough, [Next]_vars,
         NEW s \in Students, NEW l \in Lectures
  PROVE  Cardinality(ActiveOf(s, l)') + Cardinality(Assigning(s, l)') <= Cardinality(Requests)
<1> DEFINE Bound == Cardinality(ActiveOf(s, l)') + Cardinality(Assigning(s, l)')
                      <= Cardinality(Requests)
<1>1. ASSUME NEW r \in Requests, CheckActive(r)
      PROVE  Bound
  <2>1. ActiveOf(s, l)' = ActiveOf(s, l)
    BY <1>1 DEF CheckActive, ActiveOf, Unlocked
  <2>2. \A q \in Requests \ {r} : req'[q] = req[q]
    BY <1>1 DEF CheckActive, Proceed, TypeOK
  <2>3. CASE req'[r] = Idle
    <3>1. Assigning(s, l)' \subseteq Assigning(s, l)
      BY <2>2, <2>3, IdleShape DEF Assigning
    <3> QED BY <2>1, <3>1, AssignmentsNoMore
  <2>4. CASE Missing(req[r]) /\ req'[r] = [req[r] EXCEPT !.pc = "assigning"]
    <3>1. req'[r].student = req[r].student /\ req'[r].lecture = req[r].lecture
      BY <1>1, <2>4, AssigningShape DEF CheckActive, TypeOK
    <3>2. CASE req[r].student = s /\ req[r].lecture = l
      <4>1. ActiveOf(s, l)' = {}
        BY <2>1, <2>4, <3>2 DEF Missing
      <4>2. Cardinality(ActiveOf(s, l)') = 0
        BY <4>1, FS_EmptySet
      <4> QED BY <4>2, FiniteRows, FiniteRowsNext
    <3>3. CASE ~ (req[r].student = s /\ req[r].lecture = l)
      <4>1. Assigning(s, l)' \subseteq Assigning(s, l)
        BY <2>2, <3>1, <3>3 DEF Assigning
      <4> QED BY <2>1, <4>1, AssignmentsNoMore
    <3> QED BY <3>2, <3>3
  <2> QED BY <1>1, <2>3, <2>4 DEF CheckActive, Proceed, TypeOK
<1>2. ASSUME NEW r \in Requests, NEW a \in ActiveId, CreateActive(r, a)
      PROVE  Bound
  <2>1. \A q \in Requests \ {r} : req'[q] = req[q]
    BY <1>2 DEF CreateActive, Proceed, TypeOK
  <2>2. req'[r] = Idle
    BY <1>2 DEF CreateActive, Proceed, TypeOK
  <2>3. /\ a \notin Unlocked
        /\ \A b \in ActiveId \ {a} : active'[b] = active[b]
        /\ active'[a] = [student |-> req[r].student, lecture |-> req[r].lecture,
                         status |-> "Incomplete"]
    BY <1>2 DEF CreateActive, TypeOK
  <2>4. active'[a].student = req[r].student /\ active'[a].lecture = req[r].lecture
    BY <2>3
  <2>5. CASE req[r].student = s /\ req[r].lecture = l
    <3>1. active'[a] # None
      BY <1>2, NoneIsNothing, RequestShape
      DEF CreateActive, TypeOK, ActiveAssignment, AssignmentStatus
    <3>2. ActiveOf(s, l)' = ActiveOf(s, l) \cup {a} /\ a \notin ActiveOf(s, l)
      BY <2>3, <2>4, <2>5, <3>1 DEF ActiveOf, Unlocked
    <3>3. Assigning(s, l)' = Assigning(s, l) \ {r} /\ r \in Assigning(s, l)
      BY <1>2, <2>1, <2>2, <2>5, IdleShape DEF Assigning, CreateActive
    <3>4. Cardinality(ActiveOf(s, l)') = Cardinality(ActiveOf(s, l)) + 1
      BY <3>2, FiniteRows, FS_AddElement
    <3>5. Cardinality(Assigning(s, l)') = Cardinality(Assigning(s, l)) - 1
      BY <3>3, FiniteRows, FS_RemoveElement
    <3> QED BY <3>4, <3>5, FiniteRows DEF RowsLetThrough
  <2>6. CASE ~ (req[r].student = s /\ req[r].lecture = l)
    <3>1. ActiveOf(s, l)' = ActiveOf(s, l)
      BY <2>3, <2>4, <2>6 DEF ActiveOf, Unlocked
    <3>2. Assigning(s, l)' \subseteq Assigning(s, l)
      BY <2>1, <2>2, IdleShape DEF Assigning
    <3> QED BY <3>1, <3>2, AssignmentsNoMore
  <2> QED BY <2>5, <2>6
<1>3. ASSUME NEW r \in Requests, \A q \in Requests \ {r} : req'[q] = req[q],
             req'[r].pc # "assigning", ActiveOf(s, l)' = ActiveOf(s, l)
      PROVE  Bound
  <2>1. Assigning(s, l)' \subseteq Assigning(s, l)
    BY <1>3 DEF Assigning
  <2> QED BY <1>3, <2>1, AssignmentsNoMore
<1>4. ASSUME req' = req, ActiveOf(s, l)' = ActiveOf(s, l)
      PROVE  Bound
  <2>1. Assigning(s, l)' = Assigning(s, l)
    BY <1>4 DEF Assigning
  <2> QED BY <1>4, <2>1, AssignmentsNoMore
<1>5. ASSUME NEW a \in Unlocked, a \in ActiveId, NEW status \in AssignmentStatus,
             active' = [active EXCEPT ![a].status = status]
      PROVE  ActiveOf(s, l)' = ActiveOf(s, l)
  <2>1. active[a] \in ActiveAssignment
    BY <1>5 DEF Unlocked, TypeOK
  <2>2. /\ [active[a] EXCEPT !.status = status].student = active[a].student
        /\ [active[a] EXCEPT !.status = status].lecture = active[a].lecture
        /\ [active[a] EXCEPT !.status = status] \in ActiveAssignment
    BY <2>1 DEF ActiveAssignment
  <2>3. \A b \in ActiveId : active'[b] = IF b = a THEN [active[a] EXCEPT !.status = status]
                                         ELSE active[b]
    BY <1>5 DEF TypeOK
  <2>4. \A b \in ActiveId : /\ active'[b] # None <=> active[b] # None
                            /\ active[b] # None => /\ active'[b].student = active[b].student
                                                   /\ active'[b].lecture = active[b].lecture
    BY <2>1, <2>2, <2>3, NoneIsNothing
  <2> QED BY <2>4 DEF ActiveOf, Unlocked
<1>6. ASSUME UNCHANGED active
      PROVE  ActiveOf(s, l)' = ActiveOf(s, l)
  BY <1>6 DEF ActiveOf, Unlocked
<1>7. ASSUME NEW r \in Requests, Submit(r)
      PROVE  Bound
  <2>1. req[r].assignment \in Unlocked /\ req[r].assignment \in ActiveId
    BY <1>7 DEF Submit, ReadsStand, Unlocked
  <2>2. ActiveOf(s, l)' = ActiveOf(s, l)
    BY <1>5, <1>6, <1>7, <2>1 DEF Submit, Replied, AssignmentStatus
  <2>3. /\ \A q \in Requests \ {r} : req'[q] = req[q]
        /\ req'[r].pc # "assigning"
    BY <1>7, IdleShape DEF Submit, Proceed, TypeOK
  <2> QED BY <1>3, <2>2, <2>3
<1>8. ASSUME NEW a \in ActiveId, NEW status \in {"Passed", "Failed"}, Mark(a, status)
      PROVE  Bound
  <2>1. ActiveOf(s, l)' = ActiveOf(s, l)
    BY <1>5, <1>8 DEF Mark, AssignmentStatus
  <2> QED BY <1>4, <1>8, <2>1 DEF Mark
<1>9. ASSUME NEW r \in Requests, NEW t \in Students, NEW k \in Lectures,
             NEW completed \in BOOLEAN, Track(r, t, k, completed)
      PROVE  Bound
  <2>1. /\ \A q \in Requests \ {r} : req'[q] = req[q]
        /\ req'[r].pc # "assigning"
    BY <1>9 DEF Track, Proceed, TypeOK
  <2>2. ActiveOf(s, l)' = ActiveOf(s, l)
    BY <1>6, <1>9 DEF Track
  <2> QED BY <1>3, <2>1, <2>2
<1>10. ASSUME NEW r \in Requests, ReadOldProgress(r)
       PROVE  Bound
  <2>1. /\ \A q \in Requests \ {r} : req'[q] = req[q]
        /\ req'[r].pc # "assigning"
    BY <1>10 DEF ReadOldProgress, Proceed, TypeOK
  <2>2. ActiveOf(s, l)' = ActiveOf(s, l)
    BY <1>6, <1>10 DEF ReadOldProgress
  <2> QED BY <1>3, <2>1, <2>2
<1>11. ASSUME NEW r \in Requests, UpsertProgress(r)
       PROVE  Bound
  <2>1. /\ \A q \in Requests \ {r} : req'[q] = req[q]
        /\ req'[r].pc # "assigning"
    BY <1>11, IdleShape DEF UpsertProgress, Proceed, TypeOK
  <2>2. ActiveOf(s, l)' = ActiveOf(s, l)
    BY <1>6, <1>11 DEF UpsertProgress
  <2> QED BY <1>3, <2>1, <2>2
<1>12. ASSUME NEW r \in Requests, NEW a \in ActiveId, Reply(r, a)
       PROVE  Bound
  <2>1. /\ \A q \in Requests \ {r} : req'[q] = req[q]
        /\ req'[r].pc # "assigning"
    BY <1>12 DEF Reply, Proceed, TypeOK
  <2>2. ActiveOf(s, l)' = ActiveOf(s, l)
    BY <1>6, <1>12 DEF Reply
  <2> QED BY <1>3, <2>1, <2>2
<1>13. ASSUME NEW r \in Requests, NEW t \in Students, RequestCertificate(r, t)
       PROVE  Bound
  <2>1. /\ \A q \in Requests \ {r} : req'[q] = req[q]
        /\ req'[r].pc # "assigning"
    BY <1>13 DEF RequestCertificate, Proceed, TypeOK
  <2>2. ActiveOf(s, l)' = ActiveOf(s, l)
    BY <1>6, <1>13 DEF RequestCertificate
  <2> QED BY <1>3, <2>1, <2>2
<1>14. ASSUME NEW r \in Requests, CheckEligible(r) \/ IssueCertificate(r) \/ Fail(r)
       PROVE  Bound
  <2>1. /\ \A q \in Requests \ {r} : req'[q] = req[q]
        /\ req'[r].pc # "assigning"
    BY <1>14, IdleShape DEF CheckEligible, IssueCertificate, Fail, Proceed, TypeOK
  <2>2. ActiveOf(s, l)' = ActiveOf(s, l)
    BY <1>6, <1>14 DEF CheckEligible, IssueCertificate, Fail
  <2> QED BY <1>3, <2>1, <2>2
<1>15. ASSUME UNCHANGED <<req, active>>
       PROVE  Bound
  BY <1>4, <1>6, <1>15
<1>16. Bound
  BY <1>1, <1>2, <1>7, <1>8, <1>9, <1>10, <1>11, <1>12, <1>13, <1>14, <1>15
  DEF Next, vars, Enroll, Lapse
<1> QED BY <1>16

\* A step that issues nothing and lets no request through keeps the bound.
LEMMA CertificatesNoMore ==
  ASSUME TypeOK, TypeOK', RowsLetThrough, NEW s \in Students,
         certificates'[s] = certificates[s], Certifying(s)' \subseteq Certifying(s)
  PROVE  certificates'[s] + Cardinality(Certifying(s)') <= Cardinality(Requests)
<1>1. Cardinality(Certifying(s)') <= Cardinality(Certifying(s))
  BY FS_Subset, FiniteRows
<1>2. certificates[s] \in Nat
  BY LearningBounds DEF TypeOK
<1> QED BY <1>1, <1>2, FiniteRows, FiniteRowsNext DEF RowsLetThrough

\* requestCertificate goes on only when there is no certificate.
LEMMA NextCertificateRows ==
  ASSUME TypeOK, TypeOK', RowsLetThrough, [Next]_vars, NEW s \in Students
  PROVE  certificates'[s] + Cardinality(Certifying(s)') <= Cardinality(Requests)
<1> DEFINE Bound == certificates'[s] + Cardinality(Certifying(s)') <= Cardinality(Requests)
<1>1. ASSUME NEW r \in Requests, NEW t \in Students, RequestCertificate(r, t)
      PROVE  Bound
  <2>1. \A q \in Requests : req'[q] = IF q = r THEN [pc |-> "requesting", student |-> t]
                                      ELSE req[q]
    BY <1>1 DEF RequestCertificate, Proceed, TypeOK
  <2>2. certificates'[s] = certificates[s]
    BY <1>1 DEF RequestCertificate
  <2>3. CASE s = t
    <3>1. certificates'[s] = 0
      BY <1>1, <2>2, <2>3, LearningBounds DEF RequestCertificate, Certified, TypeOK
    <3> QED BY <3>1, FiniteRows, FiniteRowsNext
  <2>4. CASE s # t
    <3>1. Certifying(s)' \subseteq Certifying(s)
      BY <2>1, <2>4 DEF Certifying
    <3> QED BY <2>2, <3>1, CertificatesNoMore
  <2> QED BY <2>3, <2>4
<1>2. ASSUME NEW r \in Requests, CheckEligible(r)
      PROVE  Bound
  <2>1. \A q \in Requests : req'[q] = IF q = r
                                      THEN [pc |-> "eligible", student |-> req[r].student]
                                      ELSE req[q]
    BY <1>2 DEF CheckEligible, Proceed, TypeOK
  <2>2. Certifying(s)' \subseteq Certifying(s)
    BY <1>2, <2>1 DEF Certifying, CheckEligible
  <2> QED BY <1>2, <2>2, CertificatesNoMore DEF CheckEligible
<1>3. ASSUME NEW r \in Requests, IssueCertificate(r)
      PROVE  Bound
  <2>1. \A q \in Requests : req'[q] = IF q = r THEN Idle ELSE req[q]
    BY <1>3 DEF IssueCertificate, Proceed, TypeOK
  <2>2. CASE req[r].student = s
    <3>1. Certifying(s)' = Certifying(s) \ {r} /\ r \in Certifying(s)
      BY <1>3, <2>1, <2>2, IdleShape DEF Certifying, IssueCertificate
    <3>2. Cardinality(Certifying(s)') = Cardinality(Certifying(s)) - 1
      BY <3>1, FiniteRows, FS_RemoveElement
    <3>3. certificates'[s] = certificates[s] + 1
      BY <1>3, <2>2 DEF IssueCertificate, TypeOK
    <3>4. certificates[s] \in Nat
      BY LearningBounds DEF TypeOK
    <3> QED BY <3>2, <3>3, <3>4, FiniteRows DEF RowsLetThrough
  <2>3. CASE req[r].student # s
    <3>1. certificates'[s] = certificates[s]
      BY <1>3, <2>3 DEF IssueCertificate, TypeOK
    <3>2. Certifying(s)' \subseteq Certifying(s)
      BY <2>1, IdleShape DEF Certifying
    <3> QED BY <3>1, <3>2, CertificatesNoMore
  <2> QED BY <2>2, <2>3
<1>4. ASSUME NEW r \in Requests, \A q \in Requests \ {r} : req'[q] = req[q],
             req'[r].pc \notin {"requesting", "eligible"}, UNCHANGED certificates
      PROVE  Bound
  <2>1. Certifying(s)' \subseteq Certifying(s)
    BY <1>4 DEF Certifying
  <2> QED BY <1>4, <2>1, CertificatesNoMore
<1>5. ASSUME NEW r \in Requests, NEW t \in Students, NEW k \in Lectures,
             NEW completed \in BOOLEAN, Track(r, t, k, completed)
      PROVE  Bound
  <2>1. /\ \A q \in Requests \ {r} : req'[q] = req[q]
        /\ req'[r].pc \notin {"requesting", "eligible"}
    BY <1>5 DEF Track, Proceed, TypeOK
  <2> QED BY <1>4, <1>5, <2>1 DEF Track
<1>6. ASSUME NEW r \in Requests, ReadOldProgress(r)
      PROVE  Bound
  <2>1. /\ \A q \in Requests \ {r} : req'[q] = req[q]
        /\ req'[r].pc \notin {"requesting", "eligible"}
    BY <1>6 DEF ReadOldProgress, Proceed, TypeOK
  <2> QED BY <1>4, <1>6, <2>1 DEF ReadOldProgress
<1>7. ASSUME NEW r \in Requests, UpsertProgress(r)
      PROVE  Bound
  <2>1. /\ \A q \in Requests \ {r} : req'[q] = req[q]
        /\ req'[r].pc \notin {"requesting", "eligible"}
    BY <1>7, IdleShape DEF UpsertProgress, Proceed, TypeOK
  <2> QED BY <1>4, <1>7, <2>1 DEF UpsertProgress
<1>8. ASSUME NEW r \in Requests, CheckActive(r)
      PROVE  Bound
  <2>1. /\ \A q \in Requests \ {r} : req'[q] = req[q]
        /\ req'[r].pc \notin {"requesting", "eligible"}
    BY <1>8, IdleShape, AssigningShape DEF CheckActive, Proceed, TypeOK
  <2> QED BY <1>4, <1>8, <2>1 DEF CheckActive
<1>9. ASSUME NEW r \in Requests, NEW a \in ActiveId, CreateActive(r, a) \/ Reply(r, a)
      PROVE  Bound
  <2>1. /\ \A q \in Requests \ {r} : req'[q] = req[q]
        /\ req'[r].pc \notin {"requesting", "eligible"}
    BY <1>9, IdleShape DEF CreateActive, Reply, Proceed, TypeOK
  <2> QED BY <1>4, <1>9, <2>1 DEF CreateActive, Reply
<1>10. ASSUME NEW r \in Requests, Submit(r) \/ Fail(r)
       PROVE  Bound
  <2>1. /\ \A q \in Requests \ {r} : req'[q] = req[q]
        /\ req'[r].pc \notin {"requesting", "eligible"}
    BY <1>10, IdleShape DEF Submit, Fail, Proceed, TypeOK
  <2> QED BY <1>4, <1>10, <2>1 DEF Submit, Fail
<1>11. ASSUME UNCHANGED <<req, certificates>>
       PROVE  Bound
  <2>1. Certifying(s)' = Certifying(s)
    BY <1>11 DEF Certifying
  <2> QED BY <1>11, <2>1, CertificatesNoMore
<1>12. Bound
  BY <1>1, <1>2, <1>3, <1>5, <1>6, <1>7, <1>8, <1>9, <1>10, <1>11
  DEF Next, vars, Mark, Enroll, Lapse
<1> QED BY <1>12

\* Nothing has been created, and no handler is in flight.
LEMMA InitInvariant == Init => IInv
<1> SUFFICES ASSUME Init PROVE IInv
  OBVIOUS
<1>1. TypeOK
  BY LearningBounds, IdleShape DEF Init, TypeOK, Expiry
<1>2. ReadsStand /\ CertificateEarned /\ AssignmentsUnlocked
  BY IdleShape DEF Init, ReadsStand, CertificateEarned, Certified, AssignmentsUnlocked, Unlocked
<1>3. \A s, l : ActiveOf(s, l) = {}
  BY DEF Init, ActiveOf, Unlocked
<1>4. \A s, l : Cardinality(ActiveOf(s, l)) = 0
  BY <1>3, FS_EmptySet
<1>5. \A s \in Students : certificates[s] = 0
  BY DEF Init
<1>6. RowsLetThrough
  BY <1>1, <1>4, <1>5, FiniteRows DEF RowsLetThrough
<1> QED BY <1>1, <1>2, <1>6 DEF IInv

\* Every step of every handler keeps the inductive invariant.
LEMMA NextInvariant == IInv /\ [Next]_vars => IInv'
<1> SUFFICES ASSUME TypeOK, ReadsStand, CertificateEarned, AssignmentsUnlocked,
                    RowsLetThrough, [Next]_vars
             PROVE  IInv'
  BY DEF IInv
<1>1. TypeOK'
  BY NextType
<1>2. ReadsStand'
  BY NextReads
<1>3. CertificateEarned'
  BY NextCertificates
<1>4. AssignmentsUnlocked'
  BY NextAssignments
<1>5. RowsLetThrough'
  BY <1>1, NextAssignmentRows, NextCertificateRows DEF RowsLetThrough
<1> QED BY <1>1, <1>2, <1>3, <1>4, <1>5 DEF IInv

\* The inductive invariant holds of every behaviour.
THEOREM Invariant == Spec => []IInv
BY InitInvariant, NextInvariant, PTL DEF Spec

\* Every table and every handler keeps its shape.
THEOREM TypeCorrect == Spec => []TypeOK
<1>1. IInv => TypeOK
  BY DEF IInv
<1> QED BY <1>1, Invariant, PTL

\* A certificate is of a student who enrolled and followed the last lecture.
THEOREM CertificatesAreEarned == Spec => []CertificateEarned
<1>1. IInv => CertificateEarned
  BY DEF IInv
<1> QED BY <1>1, Invariant, PTL

\* An assignment is unlocked by progress in its own lecture.
THEOREM AssignmentsAreUnlocked == Spec => []AssignmentsUnlocked
<1>1. IInv => AssignmentsUnlocked
  BY DEF IInv
<1> QED BY <1>1, Invariant, PTL

\* With n slots for handlers a student never has more than n rows for one assignment
\* or more than n certificates; one at a time, never more than one of each.
THEOREM RowsBounded == Spec => []RowsWithinOverlap
<1>1. IInv => RowsWithinOverlap
  <2> SUFFICES ASSUME IInv PROVE RowsWithinOverlap
    OBVIOUS
  <2>1. \A s \in Students : certificates[s] \in Nat
    BY LearningBounds DEF IInv, TypeOK
  <2> QED BY <2>1, FiniteRows DEF IInv, RowsLetThrough, RowsWithinOverlap
<1> QED BY <1>1, Invariant, PTL

-----------------------------------------------------------------------------
(* One handler, or mark, at a time.                                         *)

\* What the only handler has read is as it was: the old progress, and the status of the
\* assignment, which was not passed.
ReadsAsIs(q) ==
  /\ q.pc = "upserting" /\ progress[q.student][q.lecture] = "completed" => q.old
  /\ q.pc = "replying" => active[q.assignment].status = q.status /\ q.status # "Passed"

\* The inductive invariant of the sequential regime.
SequenceInv ==
  regime = "sequential" =>
    Cardinality(Busy) <= 1 /\ \A r \in Requests : ReadsAsIs(req[r])

\* Of at most one busy handler there are no two.
LEMMA OnlyOne ==
  ASSUME NEW S \in SUBSET Requests, Cardinality(S) <= 1, NEW r \in S, NEW x \in S
  PROVE  x = r
<1>1. IsFiniteSet(S) /\ Cardinality(S) \in Nat
  BY RequestsAssumption, FS_Subset, FS_CardinalityType
<1>2. Cardinality(S) = 0 <=> S = {}
  BY <1>1, FS_EmptySet
<1>3. Cardinality(S) = 1
  BY <1>1, <1>2
<1>4. PICK y : S = {y}
  BY <1>1, <1>3, FS_Singleton
<1>5. QED  BY <1>4

\* When one handler takes a step the others are idle.
LEMMA OthersIdle ==
  ASSUME Cardinality(Busy) <= 1, Cardinality(Busy') <= 1,
         NEW r \in Requests, req[r].pc # "idle" \/ req'[r].pc # "idle",
         NEW x \in Requests, x # r, req'[x] = req[x]
  PROVE  req'[x].pc = "idle"
<1>1. SUFFICES ASSUME req'[x].pc # "idle" PROVE FALSE
  OBVIOUS
<1>2. CASE req[r].pc # "idle"
  <2>1. r \in Busy /\ x \in Busy /\ Busy \in SUBSET Requests
    BY <1>1, <1>2 DEF Busy
  <2>2. QED  BY <2>1, OnlyOne
<1>3. CASE req'[r].pc # "idle"
  <2>1. r \in Busy' /\ x \in Busy' /\ Busy' \in SUBSET Requests
    BY <1>1, <1>3 DEF Busy
  <2>2. QED  BY <2>1, OnlyOne
<1>4. QED  BY <1>2, <1>3

\* A handler's step keeps the invariant if it has read what it goes on with.
LEMMA StepInSequence ==
  ASSUME TypeOK, SequenceInv, regime = "sequential", regime' = regime, Cardinality(Busy') <= 1,
         NEW r \in Requests, NEW step, Proceed(r, step),
         req[r].pc # "idle" \/ step.pc # "idle",
         step.pc = "upserting" =>
           (progress'[step.student][step.lecture] = "completed" => step.old),
         step.pc = "replying" =>
           active'[step.assignment].status = step.status /\ step.status # "Passed"
  PROVE  SequenceInv'
<1>1. req'[r] = step /\ \A x \in Requests : x # r => req'[x] = req[x]
  BY DEF Proceed, TypeOK
<1>2. Cardinality(Busy) <= 1
  BY DEF SequenceInv
<1>3. ASSUME NEW x \in Requests PROVE ReadsAsIs(req[x])'
  <2>1. CASE x = r
    BY <1>1, <2>1 DEF ReadsAsIs
  <2>2. CASE x # r
    <3>1. req'[x].pc = "idle"
      BY <1>1, <1>2, <2>2, OthersIdle
    <3>2. QED  BY <3>1 DEF ReadsAsIs
  <2>3. QED  BY <2>1, <2>2
<1>4. QED  BY <1>3 DEF SequenceInv

\* The invariant of the sequential regime is inductive.
LEMMA NextSequence ==
  ASSUME TypeOK, SequenceInv, [RegimeNext]_<<vars, regime>>
  PROVE  SequenceInv'
<1>1. CASE UNCHANGED <<vars, regime>>
  <2>1. UNCHANGED <<progress, active, req, regime>>
    BY <1>1 DEF vars
  <2>2. SequenceInv
    OBVIOUS
  <2>3. QED  BY <2>1, <2>2 DEF SequenceInv, ReadsAsIs, Busy
<1>2. CASE regime # "sequential" /\ RegimeNext
  BY <1>2 DEF RegimeNext, SequenceInv
<1>3. CASE regime = "sequential" /\ RegimeNext
  <2>1. /\ Next /\ regime' = regime /\ Cardinality(Busy') <= 1
        /\ active' # active => req' # req \/ Busy = {}
    BY <1>3 DEF RegimeNext, TwoOverlap, OneAtATime
  <2>idle. Idle.pc = "idle"
    BY IdleShape
  <2>2. ASSUME NEW r \in Requests, ReadOldProgress(r) PROVE SequenceInv'
    <3> DEFINE step == [pc |-> "upserting", student |-> req[r].student,
                        lecture |-> req[r].lecture, completed |-> req[r].completed,
                        old |-> progress[req[r].student][req[r].lecture] = "completed"]
    <3>1. Proceed(r, step) /\ progress' = progress /\ req[r].pc # "idle"
      BY <2>2 DEF ReadOldProgress
    <3>2. step.pc = "upserting" /\ step.student = req[r].student /\ step.lecture = req[r].lecture
          /\ (step.old <=> progress[req[r].student][req[r].lecture] = "completed")
      OBVIOUS
    <3> HIDE DEF step
    <3>3. QED  BY <1>3, <2>1, <3>1, <3>2, StepInSequence
  <2>3. ASSUME NEW r \in Requests, NEW a \in ActiveId, Reply(r, a) PROVE SequenceInv'
    <3> DEFINE step == [pc |-> "replying", assignment |-> a, status |-> active[a].status]
    <3>1. Proceed(r, step) /\ active' = active /\ active[a].status # "Passed"
      BY <2>3 DEF Reply, MayReply
    <3>2. step.pc = "replying" /\ step.assignment = a /\ step.status = active[a].status
      OBVIOUS
    <3> HIDE DEF step
    <3>3. QED  BY <1>3, <2>1, <3>1, <3>2, StepInSequence
  <2>4. ASSUME NEW r \in Requests, NEW step, Proceed(r, step),
               req[r].pc # "idle" \/ step.pc # "idle", step.pc \notin {"upserting", "replying"}
        PROVE  SequenceInv'
    BY <1>3, <2>1, <2>4, StepInSequence
  <2>5. ASSUME NEW r \in Requests, NEW s \in Students, NEW l \in Lectures,
               NEW completed \in BOOLEAN, Track(r, s, l, completed)
        PROVE  SequenceInv'
    <3>1. PICK e \in FoundEnrollment(s) :
            Proceed(r, [pc |-> "tracking", student |-> s, lecture |-> l,
                        enrollment |-> e, completed |-> completed])
      BY <2>5 DEF Track
    <3>2. QED  BY <2>4, <3>1
  <2>6. ASSUME NEW r \in Requests, UpsertProgress(r) PROVE SequenceInv'
    BY <2>4, <2>6, <2>idle DEF UpsertProgress
  <2>7. ASSUME NEW r \in Requests, CheckActive(r) PROVE SequenceInv'
    <3>1. [req[r] EXCEPT !.pc = "assigning"].pc = "assigning"
      BY <2>7, AssigningShape DEF CheckActive, TypeOK
    <3>2. QED  BY <2>4, <2>7, <2>idle, <3>1 DEF CheckActive
  <2>8. ASSUME NEW r \in Requests, NEW s \in Students, RequestCertificate(r, s) PROVE SequenceInv'
    BY <2>4, <2>8 DEF RequestCertificate
  <2>9. ASSUME NEW r \in Requests, CheckEligible(r) PROVE SequenceInv'
    BY <2>4, <2>9 DEF CheckEligible
  <2>10. ASSUME NEW r \in Requests,
                \/ \E a \in ActiveId : CreateActive(r, a)
                \/ Submit(r) \/ IssueCertificate(r) \/ Fail(r)
         PROVE  SequenceInv'
    BY <2>4, <2>10, <2>idle DEF CreateActive, Submit, IssueCertificate, Fail
  <2>11. ASSUME NEW a \in ActiveId, NEW status \in {"Passed", "Failed"}, Mark(a, status)
         PROVE  SequenceInv'
    <3>1. req' = req /\ progress' = progress
      BY <2>11 DEF Mark
    <3>2. CASE active' = active
      <4>1. SequenceInv
        OBVIOUS
      <4>2. QED  BY <2>1, <3>1, <3>2, <4>1 DEF SequenceInv, ReadsAsIs, Busy
    <3>3. CASE Busy = {}
      <4>1. \A r \in Requests : req'[r].pc = "idle"
        BY <3>1, <3>3 DEF Busy
      <4>2. QED  BY <2>1, <4>1 DEF SequenceInv, ReadsAsIs
    <3>4. QED  BY <2>1, <3>1, <3>2, <3>3
  <2>12. ASSUME UNCHANGED <<progress, active, req>> PROVE SequenceInv'
    <3>1. SequenceInv
      OBVIOUS
    <3>2. QED  BY <2>1, <2>12, <3>1 DEF SequenceInv, ReadsAsIs, Busy
  <2>13. QED
    BY <2>1, <2>2, <2>3, <2>5, <2>6, <2>7, <2>8, <2>9, <2>10, <2>11, <2>12
    DEF Next, Enroll, Lapse
<1>4. QED  BY <1>1, <1>2, <1>3

\* In either regime the invariant of Learning holds, and that of the sequential one.
THEOREM SequenceInvariant == RegimeSpec => [](IInv /\ SequenceInv)
<1>1. RegimeInit => IInv /\ SequenceInv
  <2>1. SUFFICES ASSUME RegimeInit PROVE IInv /\ SequenceInv
    OBVIOUS
  <2>2. Init
    BY <2>1 DEF RegimeInit
  <2>3. \A r \in Requests : req[r].pc = "idle"
    BY <2>2, IdleShape DEF Init
  <2>4. Busy = {}
    BY <2>3 DEF Busy
  <2>5. Cardinality(Busy) = 0
    BY <2>4, FS_EmptySet
  <2>6. QED  BY <2>2, <2>3, <2>5, InitInvariant DEF SequenceInv, ReadsAsIs
<1>2. IInv /\ SequenceInv /\ [RegimeNext]_<<vars, regime>> => (IInv /\ SequenceInv)'
  <2>1. SUFFICES ASSUME IInv, SequenceInv, [RegimeNext]_<<vars, regime>>
                 PROVE  IInv' /\ SequenceInv'
    OBVIOUS
  <2>2. [Next]_vars
    BY <2>1 DEF RegimeNext
  <2>3. IInv'
    BY <2>1, <2>2, NextInvariant
  <2>4. SequenceInv'
    BY <2>1, NextSequence DEF IInv
  <2>5. QED  BY <2>3, <2>4
<1>3. QED  BY <1>1, <1>2, PTL DEF RegimeSpec

\* One handler at a time: what was completed stays completed, although every request writes
\* what it has computed from the progress that it read.
THEOREM CompletedStays == RegimeSpec => CompletedStaysInSequence
<1> DEFINE Kept == \A s \in Students, l \in Lectures :
                     progress[s][l] = "completed" => progress'[s][l] = "completed"
<1>1. ASSUME TypeOK, SequenceInv, RegimeNext, regime = "sequential" PROVE Kept
  <2>1. ASSUME NEW r \in Requests, UpsertProgress(r) PROVE Kept
    <3> DEFINE q == req[r]
               now == IF CompletedEver(q) THEN "completed" ELSE "watched"
    <3>1. /\ q.student \in Students /\ q.lecture \in Lectures
          /\ progress[q.student][q.lecture] = "completed" => q.old
      BY <1>1, <2>1, RequestShape DEF UpsertProgress, TypeOK, SequenceInv, ReadsAsIs
    <3>2. progress' = [progress EXCEPT ![q.student][q.lecture] = now]
      BY <2>1 DEF UpsertProgress
    <3>3. progress[q.student][q.lecture] = "completed" => now = "completed"
      BY <3>1 DEF CompletedEver
    <3> HIDE DEF now, q
    <3>4. QED  BY <1>1, <3>1, <3>2, <3>3 DEF TypeOK
  <2>2. ASSUME UNCHANGED progress PROVE Kept
    BY <2>2
  <2>3. Next
    BY <1>1 DEF RegimeNext
  <2>4. QED  BY <2>1, <2>2, <2>3 DEF Next, Track, ReadOldProgress, CheckActive, CreateActive,
               Reply, Submit, Mark, RequestCertificate, CheckEligible, IssueCertificate, Fail,
               Enroll, Lapse
<1>2. IInv /\ SequenceInv /\ [RegimeNext]_<<vars, regime>>
      => [regime = "sequential" => Kept]_<<vars, regime>>
  BY <1>1 DEF IInv
<1>3. QED  BY <1>2, SequenceInvariant, PTL DEF RegimeSpec, CompletedStaysInSequence

\* ... and a passed assignment is never turned into a submitted one by a reply.
THEOREM PassedStays == RegimeSpec => PassedStaysInSequence
<1> DEFINE Kept == \A a \in Unlocked :
                     active[a].status = "Passed" => active'[a].status # "Submited"
<1>1. ASSUME TypeOK, ReadsStand, SequenceInv, RegimeNext, regime = "sequential" PROVE Kept
  <2>1. ASSUME NEW r \in Requests, Submit(r) PROVE Kept
    <3> DEFINE q == req[r]
    <3>1. /\ active[q.assignment].status # "Passed"
          /\ active' = active \/ active' = [active EXCEPT ![q.assignment].status = Replied]
      BY <1>1, <2>1 DEF Submit, SequenceInv, ReadsAsIs
    <3>2. \A a \in Unlocked : a # q.assignment => active'[a] = active[a]
      BY <1>1, <3>1 DEF Unlocked, TypeOK
    <3>3. QED  BY <3>1, <3>2
  <2>2. ASSUME NEW a \in ActiveId, NEW status \in {"Passed", "Failed"}, Mark(a, status) PROVE Kept
    <3>1. active[a] \in ActiveAssignment /\ active \in [ActiveId -> ActiveAssignment \cup {None}]
      BY <1>1, <2>2 DEF Mark, Unlocked, TypeOK
    <3>2. [active[a] EXCEPT !.status = status].status = status
      BY <3>1 DEF ActiveAssignment
    <3>3. \A b \in Unlocked : active'[b] = IF b = a THEN [active[a] EXCEPT !.status = status]
                                            ELSE active[b]
      BY <2>2, <3>1 DEF Mark, Unlocked
    <3>4. QED  BY <3>2, <3>3
  <2>3. ASSUME NEW r \in Requests, NEW a \in ActiveId, CreateActive(r, a) PROVE Kept
    BY <1>1, <2>3 DEF CreateActive, Unlocked, TypeOK
  <2>4. ASSUME UNCHANGED active PROVE Kept
    BY <2>4
  <2>5. Next
    BY <1>1 DEF RegimeNext
  <2>6. QED  BY <2>1, <2>2, <2>3, <2>4, <2>5 DEF Next, Track, ReadOldProgress, UpsertProgress,
               CheckActive, Reply, RequestCertificate, CheckEligible, IssueCertificate, Fail,
               Enroll, Lapse
<1>2. IInv /\ SequenceInv /\ [RegimeNext]_<<vars, regime>>
      => [regime = "sequential" => Kept]_<<vars, regime>>
  BY <1>1 DEF IInv
<1>3. QED  BY <1>2, SequenceInvariant, PTL DEF RegimeSpec, PassedStaysInSequence

=============================================================================
