------------------------------- MODULE Support -------------------------------
(***************************************************************************)
(* Tickets about courses, which instructors close, and tickets about the   *)
(* platform, which admins close.                                           *)
(***************************************************************************)
EXTENDS Naturals, FiniteSets

CONSTANTS
  Users, Courses,
  InstructorOf,       \* Course.instructorId: a user, or None for an organization's
  Requests, None,
  MaxTicket, MaxComment      \* bounds of the model

TicketId == 1 .. MaxTicket

VARIABLES
  tickets,      \* the Ticket table, by id
  comments,     \* the TicketComment rows of a ticket: by its users, and by admins
  req

tables == <<tickets, comments>>
vars == <<tables, req>>

Idle == [pc |-> "idle"]

\* A ticket of type Course may lack the course: courseId is optional.
Ticket == [user : Users, platform : BOOLEAN, course : Courses \cup {None}, closed : BOOLEAN]

Request ==
  {Idle}
  \cup [pc : {"creating"}, user : Users, platform : BOOLEAN, course : Courses \cup {None}]
  \cup [pc : {"opening", "commenting", "answering"}, ticket : TicketId]
  \cup [pc : {"updating", "administering"}, ticket : TicketId, closed : BOOLEAN]

TypeOK ==
  /\ tickets \in [TicketId -> Ticket \cup {None}]
  /\ comments \in [TicketId -> [users : 0 .. MaxComment, admins : 0 .. MaxComment]]
  /\ \A t \in TicketId :
       tickets[t] = None => comments[t] = [users |-> 0, admins |-> 0]
  /\ req \in [Requests -> Request]

Init ==
  /\ tickets = [t \in TicketId |-> None]
  /\ comments = [t \in TicketId |-> [users |-> 0, admins |-> 0]]
  /\ req = [r \in Requests |-> Idle]

-----------------------------------------------------------------------------
(* What is found and shown.                                                 *)

\* getTicketById.
Existing == {t \in TicketId : tickets[t] # None}

\* getPlatformTicketById: what admins may act on.
FoundPlatform == {t \in Existing : tickets[t].platform}

\* listUserTickets.  A ticket of type Course without a course fails it where its
\* thumbnail is linked, one about an organization's course where its instructor is.
ListedUser(u) == {t \in Existing : tickets[t].user = u}
UserListingFails(u) ==
  \E t \in ListedUser(u) :
    ~ tickets[t].platform /\ (tickets[t].course = None \/ InstructorOf[tickets[t].course] = None)

\* listInstructorTickets, by the instructor of the course.
ListedInstructor(u) ==
  {t \in Existing : ~ tickets[t].platform /\ tickets[t].course # None
                    /\ InstructorOf[tickets[t].course] = u}

\* listAdminTickets.
ListedAdmin == {t \in Existing : tickets[t].platform}

\* listTicketComments, and listPlatformTicketComments of the admin.
CommentsOf(t) == comments[t].users + comments[t].admins
PlatformCommentsOf(t) == IF t \in FoundPlatform THEN CommentsOf(t) ELSE 0

\* Who may read and write the comments of a ticket.  For a course without an instructor
\* the comparison fails.
MayComment(u, t) ==
  \/ tickets[t].user = u
  \/ tickets[t].platform
  \/ t \in ListedInstructor(u)

-----------------------------------------------------------------------------
Proceed(r, step) == req' = [req EXCEPT ![r] = step]

Start(r, step) == req[r].pc = "idle" /\ Proceed(r, step)

\* createTicket: the attachments are verified; a course that is named must exist.
CreateTicket(r, u, platform, c) ==
  /\ Start(r, [pc |-> "creating", user |-> u, platform |-> platform,
               course |-> IF platform THEN None ELSE c])
  /\ UNCHANGED tables

InsertTicket(r, t) ==
  LET q == req[r] IN
  /\ q.pc = "creating"
  /\ tickets[t] = None /\ \A k \in TicketId : k < t => tickets[k] # None
  /\ tickets' = [tickets EXCEPT ![t] = [user |-> q.user, platform |-> q.platform,
                                        course |-> q.course, closed |-> FALSE]]
  /\ Proceed(r, [pc |-> "opening", ticket |-> t])
  /\ UNCHANGED comments

\* Mutant: a closed ticket takes comments.
ClosedNever(t) == FALSE

\* 'Ticket is closed'.
Closed(t) == tickets[t].closed

\* createTicketComment reads the ticket,
CheckTicket(r, u, t) ==
  /\ t \in Existing
  /\ MayComment(u, t) /\ ~ Closed(t)
  /\ Start(r, [pc |-> "commenting", ticket |-> t])
  /\ UNCHANGED tables

\* and comments.  The first comment of a ticket, which its creation writes, is not
\* preceded by the check, but by the insertion.
InsertComment(r) ==
  LET t == req[r].ticket IN
  /\ req[r].pc \in {"opening", "commenting"} /\ comments[t].users < MaxComment
  /\ comments' = [comments EXCEPT ![t].users = @ + 1]
  /\ Proceed(r, Idle)
  /\ UNCHANGED tickets

\* updateInstructorTicket refuses tickets about the platform; its second guard is for
\* tickets that are not about a course, and so never holds.
FindCourseTicket(r, t, closed) ==
  /\ t \in Existing \ FoundPlatform
  /\ Start(r, [pc |-> "updating", ticket |-> t, closed |-> closed])
  /\ UNCHANGED tables

\* updateTicket of the repository.
UpdateTicket(r) ==
  /\ req[r].pc = "updating"
  /\ tickets' = [tickets EXCEPT ![req[r].ticket].closed = req[r].closed]
  /\ Proceed(r, Idle)
  /\ UNCHANGED comments

\* updateTicket of the admin.
FindPlatformTicket(r, t, closed) ==
  /\ t \in FoundPlatform
  /\ Start(r, [pc |-> "administering", ticket |-> t, closed |-> closed])
  /\ UNCHANGED tables

UpdateTicketAdmin(r) ==
  /\ req[r].pc = "administering"
  /\ tickets' = [tickets EXCEPT ![req[r].ticket].closed = req[r].closed]
  /\ Proceed(r, Idle)
  /\ UNCHANGED comments

\* createPlatformTicketComment: an admin may answer a closed ticket.
AnswerTicket(r, t) ==
  /\ t \in FoundPlatform
  /\ Start(r, [pc |-> "answering", ticket |-> t])
  /\ UNCHANGED tables

InsertAnswer(r) ==
  LET t == req[r].ticket IN
  /\ req[r].pc = "answering" /\ comments[t].admins < MaxComment
  /\ comments' = [comments EXCEPT ![t].admins = @ + 1]
  /\ Proceed(r, Idle)
  /\ UNCHANGED tickets

\* A refusal, a failing query, or the end of the process: what was written stays.
Fail(r) ==
  /\ req[r].pc # "idle"
  /\ Proceed(r, Idle)
  /\ UNCHANGED tables

Next ==
  \E r \in Requests :
    \/ \E u \in Users :
         \/ \E platform \in BOOLEAN, c \in Courses \cup {None} : CreateTicket(r, u, platform, c)
         \/ \E t \in TicketId : CheckTicket(r, u, t)
    \/ \E t \in TicketId :
         \/ InsertTicket(r, t) \/ AnswerTicket(r, t)
         \/ \E closed \in BOOLEAN : FindCourseTicket(r, t, closed) \/ FindPlatformTicket(r, t, closed)
    \/ InsertComment(r) \/ UpdateTicket(r) \/ UpdateTicketAdmin(r) \/ InsertAnswer(r) \/ Fail(r)

-----------------------------------------------------------------------------
\* (of a step) Users add no comments to a ticket that is closed, and only admins answer
\* tickets, those about the platform.
ClosedStaysQuiet ==
  \A t \in TicketId :
    /\ t \in Existing /\ tickets[t].closed => comments'[t].users = comments[t].users
    /\ comments'[t].admins # comments[t].admins => t \in FoundPlatform
=============================================================================
