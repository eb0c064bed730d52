------------------------------- MODULE Notices -------------------------------
(***************************************************************************)
(* Notifications: the devices users register, and the announcements of     *)
(* instructors, which are stored, listed, and pushed in the background to  *)
(* the devices of enrolled students.                                       *)
(***************************************************************************)
EXTENDS Naturals, FiniteSets, SequencesExt

CONSTANTS
  Users, Courses, Tokens,
  InstructorOf,       \* Course.instructorId
  Requests, None,
  Window,             \* lrange reads the newest 501 devices of a user: Window of them here
  MaxDevice, MaxNotice      \* bounds of the model

NoticeId == 1 .. MaxNotice

VARIABLES
  devices,      \* the redis list of a user's tokens, the newest first
  enrolled,     \* the enrollments: "live" or "expired", by user and course
  notices,      \* the Notificaiton table, by id; due and tried: who was to be pushed, and was
  req

tables == <<devices, enrolled, notices>>
vars == <<tables, req>>

Idle == [pc |-> "idle"]

\* Announcements carry the course; no notification carries its user.
Notice ==
  [course : Courses \cup {None}, due : SUBSET Users, tried : SUBSET Users, done : BOOLEAN]

Request ==
  {Idle}
  \cup [pc : {"registering"}, user : Users, token : Tokens]
  \cup [pc : {"announcing"}, course : Courses]
  \cup [pc : {"asking"}, notice : NoticeId]
  \cup [pc : {"pushing"}, notice : NoticeId, left : SUBSET (Users \X Courses),
        found : SUBSET (Users \X Courses)]

TypeOK ==
  /\ devices \in [Users -> Seq(Tokens)]
  /\ \A u \in Users : Len(devices[u]) <= MaxDevice
  /\ enrolled \in [Users -> [Courses -> {"none", "live", "expired"}]]
  /\ notices \in [NoticeId -> Notice \cup {None}]
  /\ req \in [Requests -> Request]

Init ==
  /\ devices = [u \in Users |-> << >>]
  /\ enrolled = [u \in Users |-> [c \in Courses |-> "none"]]
  /\ notices = [n \in NoticeId |-> None]
  /\ req = [r \in Requests |-> Idle]

-----------------------------------------------------------------------------
(* What is found and shown.                                                 *)

\* getUserDevices.
UserDevices(u) == SubSeq(devices[u], 1, Min({Window, Len(devices[u])}))

Copies(u, t) == Cardinality({k \in DOMAIN UserDevices(u) : UserDevices(u)[k] = t})

\* Mutant: the token that is registered is not found.
RegisteredNever(u, t) == FALSE

\* devices.includes(token)
Registered(u, t) == Contains(UserDevices(u), t)

Live(u, c) == enrolled[u][c] = "live"

\* Mutant: the comparison with the date is the other way round.
InForceLapsed == {e \in Users \X Courses : enrolled[e[1]][e[2]] = "expired"}

\* The enrollments getCourseUsersDevices reads.  The notification was returned without its
\* courseId: the condition on the course is undefined, and all courses' are read.
InForce == {e \in Users \X Courses : Live(e[1], e[2])}

\* listInstructorNotifications: those that are shown, and those that are counted.
AnnouncedBy(i) ==
  {n \in NoticeId : notices[n] # None /\ notices[n].course # None
                    /\ InstructorOf[notices[n].course] = i}

\* listUserNotifications: nothing is addressed to a user; the announcements of expired
\* enrollments' courses are listed too.
ListedUser(u) ==
  {n \in NoticeId : notices[n] # None /\ notices[n].course # None
                    /\ enrolled[u][notices[n].course] # "none"}

-----------------------------------------------------------------------------
Proceed(r, step) == req' = [req EXCEPT ![r] = step]

Start(r, step) == req[r].pc = "idle" /\ Proceed(r, step)

NextNotice(n) == notices[n] = None /\ \A k \in NoticeId : k < n => notices[k] # None

\* registerNotification reads the devices,
CheckDevice(r, u, t) ==
  /\ ~ Registered(u, t)
  /\ Start(r, [pc |-> "registering", user |-> u, token |-> t])
  /\ UNCHANGED tables

\* and adds one in front.
RegisterDevice(r) ==
  LET u == req[r].user IN
  /\ req[r].pc = "registering" /\ Len(devices[u]) < MaxDevice
  /\ devices' = [devices EXCEPT ![u] = <<req[r].token>> \o @]
  /\ Proceed(r, Idle)
  /\ UNCHANGED <<enrolled, notices>>

\* Orders and time, of other modules.
Enroll(u, c) ==
  /\ ~ Live(u, c)
  /\ enrolled' = [enrolled EXCEPT ![u][c] = "live"]
  /\ UNCHANGED <<devices, notices, req>>

Expire(u, c) ==
  /\ Live(u, c)
  /\ enrolled' = [enrolled EXCEPT ![u][c] = "expired"]
  /\ notices' = [n \in NoticeId |->
       IF notices[n] # None /\ notices[n].course = c
         THEN [notices[n] EXCEPT !.due = @ \ {u}] ELSE notices[n]]
  /\ UNCHANGED <<devices, req>>

\* A notification to one user: a row of which only the push, sent in the background to her
\* devices, tells her.
NotifyUser(n) ==
  /\ NextNotice(n)
  /\ notices' = [notices EXCEPT ![n] = [course |-> None, due |-> {}, tried |-> {}, done |-> TRUE]]
  /\ UNCHANGED <<devices, enrolled, req>>

\* instructorCourseNotification finds the instructor's course,
FindCourse(r, i, c) ==
  /\ InstructorOf[c] = i
  /\ Start(r, [pc |-> "announcing", course |-> c])
  /\ UNCHANGED tables

\* stores the announcement, and does not wait for it to be pushed.
CreateNotification(r, n) ==
  LET c == req[r].course IN
  /\ req[r].pc = "announcing" /\ NextNotice(n)
  /\ notices' = [notices EXCEPT ![n] =
       [course |-> c, tried |-> {}, done |-> FALSE,
        due |-> {u \in Users : Live(u, c) /\ devices[u] # << >>}]]
  /\ Proceed(r, [pc |-> "asking", notice |-> n])
  /\ UNCHANGED <<devices, enrolled>>

\* getCourseUsersDevices reads the enrollments,
AskStudents(r) ==
  /\ req[r].pc = "asking"
  /\ Proceed(r, [pc |-> "pushing", notice |-> req[r].notice, left |-> InForce, found |-> {}])
  /\ UNCHANGED tables

\* then the devices of one student after the other: once for each enrollment.
ReadDevices(r, e) ==
  LET q == req[r] IN
  /\ q.pc = "pushing" /\ e \in q.left
  /\ Proceed(r, [q EXCEPT !.left = @ \ {e},
                          !.found = IF devices[e[1]] # << >> THEN @ \cup {e} ELSE @])
  /\ UNCHANGED tables

\* Then the devices are sent to.  One that fails does not stop the others, and what is
\* not registered any more is not removed: the removal is of undefined.
Push(r, e) ==
  LET q == req[r] IN
  /\ q.pc = "pushing" /\ q.left = {} /\ e \in q.found
  /\ notices' = [notices EXCEPT ![q.notice].tried = @ \cup {e[1]}]
  /\ Proceed(r, [q EXCEPT !.found = @ \ {e}])
  /\ UNCHANGED <<devices, enrolled>>

EndPush(r) ==
  LET q == req[r] IN
  /\ q.pc = "pushing" /\ q.left = {} /\ q.found = {}
  /\ notices' = [notices EXCEPT ![q.notice].done = TRUE]
  /\ Proceed(r, Idle)
  /\ UNCHANGED <<devices, enrolled>>

\* A refusal, a failing query, or the end of the process.
Fail(r) ==
  /\ req[r].pc # "idle"
  /\ Proceed(r, Idle)
  /\ UNCHANGED tables

Next ==
  \/ \E u \in Users, c \in Courses : Enroll(u, c) \/ Expire(u, c)
  \/ \E n \in NoticeId : NotifyUser(n)
  \/ \E r \in Requests :
       \/ \E u \in Users :
            \/ \E t \in Tokens : CheckDevice(r, u, t)
            \/ \E c \in Courses : FindCourse(r, u, c)
       \/ \E n \in NoticeId : CreateNotification(r, n)
       \/ \E e \in Users \X Courses : ReadDevices(r, e) \/ Push(r, e)
       \/ RegisterDevice(r) \/ AskStudents(r) \/ EndPush(r) \/ Fail(r)

-----------------------------------------------------------------------------
\* A device is read, and pushed to, once, or as many times as requests to register it have
\* overlapped.
DevicesWithin(overlap) == \A u \in Users, t \in Tokens : Copies(u, t) <= overlap

\* Once an announcement has been pushed, the devices of all that were enrolled in the
\* course when it was stored, and whose enrollments have not expired since, have been
\* tried; and it is listed to them.
AnnouncedToAll ==
  \A n \in NoticeId :
    notices[n] # None /\ notices[n].done
    => /\ notices[n].due \subseteq notices[n].tried
       /\ \A u \in notices[n].due : n \in ListedUser(u)
=============================================================================
