------------------------------ MODULE Learning ------------------------------
(***************************************************************************)
(* Following one course: progress through its lectures, the assignments    *)
(* that a completed lecture unlocks, their replies and marks, and the      *)
(* certificate.  No handler here holds a transaction, so every await       *)
(* between a read and the write that relies on it is a step boundary.      *)
(***************************************************************************)
EXTENDS Naturals, FiniteSets

CONSTANTS
  Students,
  LastLecture,     \* the lectures of the course are 1 .. LastLecture, by id
  Assigned,        \* the lectures that carry an assignment
  Requests,        \* request slots: how many handlers overlap
  None,            \* undefined / null
  MaxActive, MaxCertificates     \* bounds of the model

Lectures == 1 .. LastLecture
ActiveId == 1 .. MaxActive

ASSUME LectureAssumption == LastLecture \in Nat \ {0} /\ Assigned \subseteq Lectures
ASSUME LearningBounds == MaxActive \in Nat /\ MaxCertificates \in Nat

\* Enrollment.expiry against the clock.
Expiry == {"never", "ahead", "past"}

AssignmentStatus == {"Incomplete", "Submited", "Passed", "Failed"}

ActiveAssignment == [student : Students, lecture : Lectures, status : AssignmentStatus]

ASSUME RequestsAssumption == IsFiniteSet(Requests)
ASSUME NoneIsNothing == None \notin Expiry /\ None \notin ActiveAssignment

VARIABLES
  enrolled,       \* the expiries of the Enrollment rows of each student
  progress,       \* LectureProgress, one row for each student and lecture at most
  active,         \* the ActiveAssignment table, by id
  certificates,   \* how many Certificate rows each student has
  req             \* the handlers in flight and what each has read

vars == <<enrolled, progress, active, certificates, req>>

Idle == [pc |-> "idle"]

Request ==
  {Idle}
  \cup [pc : {"tracking"}, student : Students, lecture : Lectures,
        enrollment : Expiry \cup {None}, completed : BOOLEAN]
  \cup [pc : {"upserting"}, student : Students, lecture : Lectures,
        completed : BOOLEAN, old : BOOLEAN]
  \cup [pc : {"unlocking", "assigning"}, student : Students, lecture : Lectures]
  \cup [pc : {"replying"}, assignment : ActiveId, status : AssignmentStatus]
  \cup [pc : {"requesting", "eligible"}, student : Students]

TypeOK ==
  /\ enrolled \in [Students -> SUBSET Expiry]
  /\ progress \in [Students -> [Lectures -> {"none", "watched", "completed"}]]
  /\ active \in [ActiveId -> ActiveAssignment \cup {None}]
  /\ certificates \in [Students -> 0 .. MaxCertificates]
  /\ req \in [Requests -> Request]

Init ==
  /\ enrolled = [s \in Students |-> {}]
  /\ progress = [s \in Students |-> [l \in Lectures |-> "none"]]
  /\ active = [a \in ActiveId |-> None]
  /\ certificates = [s \in Students |-> 0]
  /\ req = [r \in Requests |-> Idle]

-----------------------------------------------------------------------------
Proceed(r, step) == req' = [req EXCEPT ![r] = step]

Unlocked == {a \in ActiveId : active[a] # None}

\* The rows of student s for the assignment of lecture l.
ActiveOf(s, l) == {a \in Unlocked : active[a].student = s /\ active[a].lecture = l}

-----------------------------------------------------------------------------
(* trackLectureProgress.                                                    *)

\* getEnrollmentByLectureAndUser: any one of the student's rows, if there is one.
FoundEnrollment(s) == IF enrolled[s] = {} THEN {None} ELSE enrolled[s]

\* if (enrollment && enrollment.expiry) { if (exp.diff() > 0) throw ... }
Refused(enrollment) == enrollment = "ahead"

\* completed: the duration is within ten seconds of the lecture's.
Track(r, s, l, completed) ==
  /\ req[r].pc = "idle"
  /\ \E e \in FoundEnrollment(s) :
       /\ ~ Refused(e)
       /\ Proceed(r, [pc |-> "tracking", student |-> s, lecture |-> l,
                      enrollment |-> e, completed |-> completed])
  /\ UNCHANGED <<enrolled, progress, active, certificates>>

ReadOldProgress(r) ==
  LET q == req[r] IN
  /\ q.pc = "tracking"
  /\ Proceed(r, [pc |-> "upserting", student |-> q.student, lecture |-> q.lecture,
                 completed |-> q.completed,
                 old |-> progress[q.student][q.lecture] = "completed"])
  /\ UNCHANGED <<enrolled, progress, active, certificates>>

\* Mutant: the old progress is forgotten.
CompletedNow(q) == q.completed

\* _oldProgress && _oldProgress.completed ? true : completed
CompletedEver(q) == q.old \/ q.completed

\* Mutant: the assignment of the next lecture is unlocked, as the code once did.
UnlocksNext(l) == l + 1

\* A completed lecture unlocks its own assignment.
Unlocks(l) == l

\* The assignment is unlocked on what this request completed, not on the old progress.
UpsertProgress(r) ==
  LET q == req[r] IN
  /\ q.pc = "upserting"
  /\ progress' = [progress EXCEPT ![q.student][q.lecture] =
                    IF CompletedEver(q) THEN "completed" ELSE "watched"]
  /\ Proceed(r, IF q.completed /\ Unlocks(q.lecture) \in Assigned
                THEN [pc |-> "unlocking", student |-> q.student,
                      lecture |-> Unlocks(q.lecture)]
                ELSE Idle)
  /\ UNCHANGED <<enrolled, active, certificates>>

\* Mutant: the row that exists is not looked for.
MissingAlways(q) == TRUE

\* createActiveAssignment returns at once if the student has the assignment.
Missing(q) == ActiveOf(q.student, q.lecture) = {}

CheckActive(r) ==
  /\ req[r].pc = "unlocking"
  /\ Proceed(r, IF Missing(req[r]) THEN [req[r] EXCEPT !.pc = "assigning"] ELSE Idle)
  /\ UNCHANGED <<enrolled, progress, active, certificates>>

CreateActive(r, a) ==
  /\ req[r].pc = "assigning"
  /\ a - 1 \in Unlocked \cup {0} /\ a \notin Unlocked
  /\ active' = [active EXCEPT ![a] = [student |-> req[r].student,
                                      lecture |-> req[r].lecture,
                                      status |-> "Incomplete"]]
  /\ Proceed(r, Idle)
  /\ UNCHANGED <<enrolled, progress, certificates>>

-----------------------------------------------------------------------------
(* Assignments: the student's replies and the instructor's marks.          *)

\* Mutant: a passed assignment may be replied to.
RepliesAlways(a) == TRUE

\* 'Assignment is already completed' otherwise.
MayReply(a) == active[a].status # "Passed"

\* createAssignmentReply by the student; what follows the read, attachments and the
\* message, leaves these tables alone.
Reply(r, a) ==
  /\ req[r].pc = "idle"
  /\ a \in Unlocked /\ MayReply(a)
  /\ Proceed(r, [pc |-> "replying", assignment |-> a, status |-> active[a].status])
  /\ UNCHANGED <<enrolled, progress, active, certificates>>

\* Mutant: a status that the enum does not have.
RepliedMisspelt == "Submitted"

Replied == "Submited"

\* The status that was read decides, whatever the status is by now.
Submit(r) ==
  LET q == req[r] IN
  /\ q.pc = "replying"
  /\ active' = IF q.status = Replied THEN active
               ELSE [active EXCEPT ![q.assignment].status = Replied]
  /\ Proceed(r, Idle)
  /\ UNCHANGED <<enrolled, progress, certificates>>

\* updateActiveAssignment: Passed from minMarks on, whatever the status was.
Mark(a, status) ==
  /\ a \in Unlocked
  /\ active' = [active EXCEPT ![a].status = status]
  /\ UNCHANGED <<enrolled, progress, certificates, req>>

-----------------------------------------------------------------------------
(* requestCertificate.                                                      *)

Certified(s) == certificates[s] > 0

RequestCertificate(r, s) ==
  /\ req[r].pc = "idle"
  /\ ~ Certified(s)
  /\ Proceed(r, [pc |-> "requesting", student |-> s])
  /\ UNCHANGED <<enrolled, progress, active, certificates>>

\* Mutant: any lecture that was completed will do.
CompletedAny(s) == \E l \in Lectures : progress[s][l] = "completed"

\* getLastLecture is the lecture with the highest id, deleted or not.
CompletedLast(s) == progress[s][LastLecture] = "completed"

\* The enrollment is read first, but a row once there stays.
CheckEligible(r) ==
  LET s == req[r].student IN
  /\ req[r].pc = "requesting"
  /\ enrolled[s] # {}
  /\ CompletedLast(s)
  /\ Proceed(r, [pc |-> "eligible", student |-> s])
  /\ UNCHANGED <<enrolled, progress, active, certificates>>

IssueCertificate(r) ==
  LET s == req[r].student IN
  /\ req[r].pc = "eligible"
  /\ certificates[s] < MaxCertificates
  /\ certificates' = [certificates EXCEPT ![s] = @ + 1]
  /\ Proceed(r, Idle)
  /\ UNCHANGED <<enrolled, progress, active>>

\* A check fails, a query fails, or the process stops: what was written stays.
Fail(r) ==
  /\ req[r].pc # "idle"
  /\ Proceed(r, Idle)
  /\ UNCHANGED <<enrolled, progress, active, certificates>>

-----------------------------------------------------------------------------
\* Orders enroll students (OrderFulfilment), and enrollments lapse.
Enroll(s, e) ==
  /\ enrolled' = [enrolled EXCEPT ![s] = @ \cup {e}]
  /\ UNCHANGED <<progress, active, certificates, req>>

Lapse(s) ==
  /\ "ahead" \in enrolled[s]
  /\ enrolled' = [enrolled EXCEPT ![s] = (@ \ {"ahead"}) \cup {"past"}]
  /\ UNCHANGED <<progress, active, certificates, req>>

Next ==
  \/ \E r \in Requests :
       \/ \E s \in Students, l \in Lectures, completed \in BOOLEAN : Track(r, s, l, completed)
       \/ ReadOldProgress(r)
       \/ UpsertProgress(r)
       \/ CheckActive(r)
       \/ \E a \in ActiveId : CreateActive(r, a)
       \/ \E a \in ActiveId : Reply(r, a)
       \/ Submit(r)
       \/ \E s \in Students : RequestCertificate(r, s)
       \/ CheckEligible(r)
       \/ IssueCertificate(r)
       \/ Fail(r)
  \/ \E a \in ActiveId, status \in {"Passed", "Failed"} : Mark(a, status)
  \/ \E s \in Students, e \in {"never", "ahead"} : Enroll(s, e)
  \/ \E s \in Students : Lapse(s)

Spec == Init /\ [][Next]_vars

-----------------------------------------------------------------------------
\* A certificate is of a student who enrolled and has followed the last lecture,
\* whatever overlaps between the checks of requestCertificate and its creation.
CertificateEarned ==
  \A s \in Students : Certified(s) =>
    enrolled[s] # {} /\ progress[s][LastLecture] # "none"

\* An assignment is unlocked by progress in its own lecture (trackLectureProgress
\* creates it only after the progress was written).
AssignmentsUnlocked ==
  \A a \in Unlocked :
    active[a].lecture \in Assigned /\ progress[active[a].student][active[a].lecture] # "none"

\* createActiveAssignment and requestCertificate look before they create: there are
\* never more rows of one kind for a student than handlers that overlapped.
RowsWithinOverlap ==
  /\ \A s \in Students, l \in Lectures : Cardinality(ActiveOf(s, l)) <= Cardinality(Requests)
  /\ \A s \in Students : certificates[s] <= Cardinality(Requests)

\* 'You are not enrolled in this course.': progress is not tracked for a student
\* whose enrollment has expired.
ExpiredIsRefused == \A r \in Requests : req[r].pc = "tracking" => req[r].enrollment # "past"
=============================================================================
