--------------------------- MODULE Catalogue_proof ---------------------------
(***************************************************************************)
(* Associates have accepted, and what is listed or bundled has an          *)
(* instructor, for any courses, bundles, invitations and instructors and   *)
(* any number of handlers.                                                 *)
(***************************************************************************)
EXTENDS Platform, FiniteSetTheorems, TLAPS

Invitation == [course : CourseId, instructor : Instructors, accepted : BOOLEAN]

\* The course c of the table cs has an instructor; the invitation v of vs is accepted.
HasInstructor(cs, c) == cs[c] # None /\ cs[c].owner \in Instructors

IsAccepted(vs, v) == vs[v] # None /\ vs[v].accepted

\* What is published or bundled has an instructor.
Instructed(cs) ==
  \A c \in CourseId :
    cs[c] # None /\ (cs[c].published \/ cs[c].bundle # None) => HasInstructor(cs, c)

\* What a handler has found is still so: nothing takes an instructor from a course, and
\* nothing takes an invitation or its acceptance back.
Holding(q, cs, vs) ==
  /\ q.pc \in {"publishing", "rewarding"} => HasInstructor(cs, q.course)
  /\ q.pc = "popular" => \A c \in q.chosen : HasInstructor(cs, c)
  /\ q.pc = "bundling" => \A c \in q.new : HasInstructor(cs, c)
  /\ q.pc = "accepting" => vs[q.invite] # None
  /\ q.pc = "associating" => IsAccepted(vs, q.invite)

IInv ==
  /\ courses \in [CourseId -> Course \cup {None}]
  /\ invites \in [InviteId -> Invitation \cup {None}]
  /\ req \in [Requests -> Request]
  /\ Instructed(courses)
  /\ AssociatesAccepted
  /\ \A r \in Requests : Holding(req[r], courses, invites)

\* Nothing is taken back.
InstructorsKept == \A c \in CourseId : HasInstructor(courses, c) => HasInstructor(courses', c)

InvitesKept ==
  \A v \in InviteId : invites[v] # None =>
    /\ invites'[v] # None
    /\ invites'[v].course = invites[v].course /\ invites'[v].instructor = invites[v].instructor
    /\ invites[v].accepted => invites'[v].accepted

\* The constants that None must differ from.
NoneApart == None \notin Course /\ None \notin Invitation /\ None \notin Instructors

-----------------------------------------------------------------------------
\* At first there is nothing.
LEMMA InitIInv == Init => IInv
<1> SUFFICES ASSUME Init PROVE IInv
  OBVIOUS
<1>1. Idle \in Request /\ \A r \in Requests : Holding(req[r], courses, invites)
  BY DEF Init, Idle, Request, Holding
<1>2. AssociatesAccepted
  BY DEF Init, AssociatesAccepted
<1>3. QED  BY <1>1, <1>2 DEF Init, IInv, Instructed

\* What handlers hold names rows of the tables.
LEMMA HeldFields ==
  ASSUME IInv, NEW r \in Requests
  PROVE  /\ req[r].pc \in {"publishing", "rewarding"} => req[r].course \in CourseId
         /\ req[r].pc = "inviting" => req[r].course \in CourseId /\ req[r].instructor \in Instructors
         /\ req[r].pc \in {"accepting", "associating"} => req[r].invite \in InviteId
         /\ req[r].pc = "bundling" => req[r].bundle \in BundleId /\ req[r].new \in SUBSET CourseId
         /\ req[r].pc = "popular" => req[r].chosen \in SUBSET CourseId
<1>1. req[r] \in Request
  BY DEF IInv
<1>2. QED  BY <1>1 DEF Request, Idle

\* A handler holds what it held when nothing is taken back.
LEMMA StillHolding ==
  ASSUME IInv, InstructorsKept, InvitesKept, NEW r \in Requests
  PROVE  Holding(req[r], courses', invites')
<1>1. Holding(req[r], courses, invites)
  BY DEF IInv
<1>2. req[r].pc \in {"publishing", "rewarding"} => HasInstructor(courses', req[r].course)
  BY <1>1, HeldFields DEF Holding, InstructorsKept
<1>3. req[r].pc = "popular" => \A c \in req[r].chosen : HasInstructor(courses', c)
  BY <1>1, HeldFields DEF Holding, InstructorsKept
<1>4. req[r].pc = "bundling" => \A c \in req[r].new : HasInstructor(courses', c)
  BY <1>1, HeldFields DEF Holding, InstructorsKept
<1>5. req[r].pc = "accepting" => invites'[req[r].invite] # None
  BY <1>1, HeldFields DEF Holding, InvitesKept
<1>6. req[r].pc = "associating" => IsAccepted(invites', req[r].invite)
  BY <1>1, HeldFields DEF Holding, InvitesKept, IsAccepted
<1>7. QED  BY <1>2, <1>3, <1>4, <1>5, <1>6 DEF Holding

\* A step of no handler.
LEMMA NoHandler ==
  ASSUME IInv, courses' \in [CourseId -> Course \cup {None}], Instructed(courses'),
         InstructorsKept, UNCHANGED <<invites, associates, req>>
  PROVE  IInv'
<1>1. InvitesKept
  BY DEF InvitesKept
<1>2. \A s \in Requests : Holding(req'[s], courses', invites')
  BY <1>1, StillHolding
<1>3. AssociatesAccepted'
  BY DEF IInv, AssociatesAccepted
<1>4. QED  BY <1>2, <1>3 DEF IInv

\* A step of a handler that holds what it should hold next.
LEMMA OneHandler ==
  ASSUME IInv, courses' \in [CourseId -> Course \cup {None}], Instructed(courses'),
         InstructorsKept, invites' \in [InviteId -> Invitation \cup {None}], InvitesKept,
         AssociatesAccepted', NEW r \in Requests, NEW step \in Request, Proceed(r, step),
         Holding(step, courses', invites')
  PROVE  IInv'
<1>1. req' = [req EXCEPT ![r] = step] /\ req \in [Requests -> Request]
  BY DEF Proceed, IInv
<1>2. req' \in [Requests -> Request]
  BY <1>1
<1>3. \A s \in Requests : Holding(req'[s], courses', invites')
  BY <1>1, StillHolding
<1>4. QED  BY <1>2, <1>3 DEF IInv

\* ... and writes none of the tables that matter here.
LEMMA Reading ==
  ASSUME IInv, NEW r \in Requests, NEW step \in Request, Proceed(r, step),
         Holding(step, courses, invites), UNCHANGED <<courses, invites, associates>>
  PROVE  IInv'
<1>1. InstructorsKept /\ InvitesKept
  BY DEF InstructorsKept, InvitesKept
<1>2. AssociatesAccepted'
  BY DEF IInv, AssociatesAccepted
<1>3. QED  BY <1>1, <1>2, OneHandler DEF IInv

\* Done, a handler holds nothing.
LEMMA Done == Idle \in Request /\ \A cs, vs : Holding(Idle, cs, vs)
  BY DEF Idle, Request, Holding

-----------------------------------------------------------------------------
\* Rows that change keep their instructor, and have one if they are published or bundled.
LEMMA RowsChange ==
  ASSUME NoneApart, IInv, courses' \in [CourseId -> Course \cup {None}],
         \A c \in CourseId : courses[c] # None =>
           courses'[c] # None /\ courses'[c].owner = courses[c].owner,
         \A c \in CourseId :
           /\ courses'[c] # None /\ courses'[c] # courses[c]
           /\ courses'[c].published \/ courses'[c].bundle # None
           => courses'[c].owner \in Instructors
  PROVE  Instructed(courses') /\ InstructorsKept
<1>1. InstructorsKept
  BY DEF InstructorsKept, HasInstructor
<1>2. Instructed(courses')
  BY DEF Instructed, HasInstructor, IInv
<1>3. QED  BY <1>1, <1>2

\* A course that is created is neither published nor bundled.
LEMMA CreateCourseKeeps ==
  ASSUME NoneApart, IInv, NEW c \in CourseId, NEW i \in Instructors,
         NEW org \in BOOLEAN, NEW free \in BOOLEAN, CreateCourse(c, i, org, free)
  PROVE  IInv'
<1> DEFINE row == [owner |-> IF org THEN None ELSE i, organization |-> i \in Members,
                   free |-> free, priced |-> ~ free, approved |-> FALSE, published |-> FALSE,
                   bundle |-> None]
<1>1. row \in Course /\ ~ row.published /\ row.bundle = None
  BY DEF Course
<1>2. courses[c] = None /\ courses' = [courses EXCEPT ![c] = row]
      /\ UNCHANGED <<invites, associates, req>>
  BY DEF CreateCourse, NextId
<1>3. courses' \in [CourseId -> Course \cup {None}]
  BY <1>1, <1>2 DEF IInv
<1>4. InstructorsKept
  BY <1>2 DEF InstructorsKept, HasInstructor, IInv
<1>5. ASSUME NEW d \in CourseId, courses'[d] # None,
             courses'[d].published \/ courses'[d].bundle # None
      PROVE  HasInstructor(courses', d)
  <2>1. d # c
    BY <1>1, <1>2, <1>5 DEF IInv
  <2>2. courses'[d] = courses[d]
    BY <1>2, <2>1 DEF IInv
  <2>3. QED  BY <1>5, <2>2 DEF IInv, Instructed, HasInstructor
<1>6. Instructed(courses')
  BY <1>5 DEF Instructed
<1>7. QED  BY <1>2, <1>3, <1>4, <1>6, NoHandler

\* A change of one course that keeps its instructor.
LEMMA OneCourse ==
  ASSUME NoneApart, IInv, NEW c \in CourseId, courses[c] # None, NEW row \in Course,
         courses' = [courses EXCEPT ![c] = row], row.owner = courses[c].owner,
         row.published \/ row.bundle # None => row.owner \in Instructors
  PROVE  /\ courses' \in [CourseId -> Course \cup {None}]
         /\ Instructed(courses') /\ InstructorsKept
<1>1. courses' \in [CourseId -> Course \cup {None}]
  BY DEF IInv
<1>2. InstructorsKept
  BY DEF InstructorsKept, HasInstructor, IInv, NoneApart
<1>3. ASSUME NEW d \in CourseId, courses'[d] # None,
             courses'[d].published \/ courses'[d].bundle # None
      PROVE  HasInstructor(courses', d)
  <2>1. CASE d = c
    BY <2>1, <1>3 DEF HasInstructor, IInv
  <2>2. CASE d # c
    BY <2>2, <1>3 DEF HasInstructor, Instructed, IInv
  <2>3. QED  BY <2>1, <2>2
<1>4. Instructed(courses')
  BY <1>3 DEF Instructed
<1>5. QED  BY <1>1, <1>2, <1>4

\* Prices and approvals change no instructor.
LEMMA UpdateCourseKeeps ==
  ASSUME NoneApart, IInv, NEW c \in CourseId, NEW i \in Instructors,
         NEW billing \in {None, "Free", "Paid"}, NEW priced \in BOOLEAN,
         UpdateCourse(c, i, billing, priced)
  PROVE  IInv'
<1> DEFINE row == [courses[c] EXCEPT !.free = IF billing = None THEN @ ELSE billing = "Free",
                                     !.priced = billing # "Free" /\ (priced \/ @)]
<1>1. courses[c] # None /\ courses[c] \in Course
  BY DEF UpdateCourse, ListedInstructor, Existing, IInv
<1>2. (IF billing = None THEN courses[c].free ELSE billing = "Free") \in BOOLEAN
      /\ (billing # "Free" /\ (priced \/ courses[c].priced)) \in BOOLEAN
  BY <1>1 DEF Course
<1>3. row \in Course /\ row.owner = courses[c].owner /\ row.published = courses[c].published
      /\ row.bundle = courses[c].bundle
  BY <1>1, <1>2 DEF Course
<1>4. courses' = [courses EXCEPT ![c] = row] /\ UNCHANGED <<invites, associates, req>>
  BY DEF UpdateCourse, IInv
<1>5. row.published \/ row.bundle # None => row.owner \in Instructors
  BY <1>1, <1>3 DEF IInv, Instructed, HasInstructor
<1>6. QED  BY <1>1, <1>3, <1>4, <1>5, OneCourse, NoHandler

\* The admin's approval changes neither instructor nor bundle.
LEMMA ApproveKeeps ==
  ASSUME NoneApart, IInv, NEW c \in CourseId, NEW approved \in BOOLEAN, Approve(c, approved)
  PROVE  IInv'
<1> DEFINE row == [courses[c] EXCEPT !.approved = approved]
<1>1. courses[c] # None /\ courses[c] \in Course
  BY DEF Approve, Existing, IInv
<1>2. row \in Course /\ row.owner = courses[c].owner /\ row.published = courses[c].published
      /\ row.bundle = courses[c].bundle
  BY <1>1 DEF Course
<1>3. courses' = [courses EXCEPT ![c] = row] /\ UNCHANGED <<invites, associates, req>>
  BY DEF Approve, IInv
<1>4. row.published \/ row.bundle # None => row.owner \in Instructors
  BY <1>1, <1>2 DEF IInv, Instructed, HasInstructor
<1>5. QED  BY <1>1, <1>2, <1>3, <1>4, OneCourse, NoHandler

\* A course is published by its instructor only, who is still there when it is written.
LEMMA SetPublishedKeeps ==
  ASSUME NoneApart, IInv, NEW r \in Requests, SetPublished(r)
  PROVE  IInv'
<1> DEFINE c == req[r].course
           row == [courses[c] EXCEPT !.published = TRUE]
           step == [req[r] EXCEPT !.pc = "rewarding"]
<1>1. req[r].pc = "publishing" /\ req[r] \in Request
  BY DEF SetPublished, IInv
<1>2. c \in CourseId /\ HasInstructor(courses, c)
  BY <1>1, HeldFields DEF IInv, Holding
<1>3. courses[c] # None /\ courses[c] \in Course /\ courses[c].owner \in Instructors
  BY <1>2 DEF HasInstructor, IInv
<1>4. row \in Course /\ row.owner = courses[c].owner
  BY <1>3 DEF Course
<1>5. courses' = [courses EXCEPT ![c] = row] /\ Proceed(r, step) /\ UNCHANGED <<invites, associates>>
  BY <1>2 DEF SetPublished, IInv
<1>6. courses' \in [CourseId -> Course \cup {None}] /\ Instructed(courses') /\ InstructorsKept
  BY <1>2, <1>3, <1>4, <1>5, OneCourse
<1>7. req[r] \in [pc : {"publishing", "rewarding"}, course : CourseId]
  BY <1>1 DEF Request, Idle
<1>8. step \in Request /\ step.pc = "rewarding" /\ step.course = c
  BY <1>7 DEF Request
<1>9. Holding(step, courses', invites')
  BY <1>2, <1>6, <1>8 DEF Holding, InstructorsKept
<1>10. InvitesKept /\ AssociatesAccepted' /\ invites' \in [InviteId -> Invitation \cup {None}]
  BY <1>5 DEF InvitesKept, IInv, AssociatesAccepted
<1>11. QED  BY <1>5, <1>6, <1>8, <1>9, <1>10, OneHandler

-----------------------------------------------------------------------------
\* A course in another bundle, or in none, is the same otherwise.
LEMMA Rebundled ==
  ASSUME NEW row \in Course, NEW b \in BundleId \cup {None}
  PROVE  /\ [row EXCEPT !.bundle = b] \in Course
         /\ [row EXCEPT !.bundle = b].owner = row.owner
         /\ [row EXCEPT !.bundle = b].published = row.published
         /\ [row EXCEPT !.bundle = b].bundle = b
  BY DEF Course

\* Courses of the instructor are bundled.
LEMMA CreateBundleKeeps ==
  ASSUME NoneApart, IInv, NEW b \in BundleId, NEW i \in Instructors,
         NEW new \in SUBSET CourseId, CreateBundle(b, i, new)
  PROVE  IInv'
<1>1. UNCHANGED <<invites, associates, req>>
      /\ courses' = [c \in CourseId |-> IF c \in new THEN [courses[c] EXCEPT !.bundle = b]
                                        ELSE courses[c]]
  BY DEF CreateBundle, Bundled
<1>2. ASSUME NEW c \in new PROVE courses[c] \in Course /\ courses[c].owner \in Instructors
  BY DEF CreateBundle, Bundleable, Owned, Existing, IInv
<1>3. ASSUME NEW c \in CourseId
      PROVE  /\ courses'[c] \in Course \cup {None}
             /\ courses[c] # None => courses'[c] # None /\ courses'[c].owner = courses[c].owner
             /\ courses'[c] # courses[c] => courses'[c].owner \in Instructors
  <2>1. CASE c \in new
    <3>1. courses'[c] = [courses[c] EXCEPT !.bundle = b]
      BY <1>1, <2>1
    <3>2. courses'[c] \in Course /\ courses'[c].owner = courses[c].owner
      BY <1>2, <2>1, <3>1, Rebundled
    <3>3. QED  BY <1>2, <2>1, <3>2 DEF NoneApart
  <2>2. CASE c \notin new
    BY <1>1, <2>2 DEF IInv
  <2>3. QED  BY <2>1, <2>2
<1>4. courses' \in [CourseId -> Course \cup {None}]
  BY <1>1, <1>3
<1>5. Instructed(courses') /\ InstructorsKept
  BY <1>3, <1>4, RowsChange
<1>6. QED  BY <1>1, <1>4, <1>5, NoHandler

\* The courses that leave have no bundle, and those that come were the instructor's.
LEMMA UpdateBundleKeeps ==
  ASSUME NoneApart, IInv, NEW r \in Requests, UpdateBundle(r)
  PROVE  IInv'
<1> DEFINE q == req[r]
           old == q.old \cap CoursesOf(q.bundle)
           left == [c \in CourseId |->
                      IF c \in old THEN [courses[c] EXCEPT !.bundle = None] ELSE courses[c]]
<1>1. q.pc = "bundling" /\ UNCHANGED <<invites, associates>> /\ Proceed(r, Idle)
      /\ courses' = [c \in CourseId |-> IF c \in q.new
                                        THEN [left[c] EXCEPT !.bundle = q.bundle] ELSE left[c]]
  BY DEF UpdateBundle
<1>2. q.bundle \in BundleId /\ q.new \in SUBSET CourseId
  BY <1>1, HeldFields
<1>3. ASSUME NEW c \in q.new PROVE courses[c] \in Course /\ courses[c].owner \in Instructors
  BY <1>1, <1>2, <1>3 DEF IInv, Holding, HasInstructor
<1>4. ASSUME NEW c \in CourseId, courses[c] # None
      PROVE  left[c] \in Course /\ left[c].owner = courses[c].owner
             /\ (left[c] # courses[c] => left[c].bundle = None)
             /\ left[c].published = courses[c].published
  <2>1. courses[c] \in Course
    BY <1>4 DEF IInv
  <2>2. CASE c \in old
    <3>1. left[c] = [courses[c] EXCEPT !.bundle = None]
      BY <2>2
    <3>2. QED  BY <2>1, <3>1, Rebundled
  <2>3. CASE c \notin old
    BY <2>1, <2>3
  <2>4. QED  BY <2>2, <2>3
<1>5. ASSUME NEW c \in CourseId
      PROVE  /\ courses'[c] \in Course \cup {None}
             /\ courses[c] # None => courses'[c] # None /\ courses'[c].owner = courses[c].owner
             /\ /\ courses'[c] # None /\ courses'[c] # courses[c]
                /\ courses'[c].published \/ courses'[c].bundle # None
                => courses'[c].owner \in Instructors
  <2>1. CASE c \in q.new
    <3>1. courses'[c] = [left[c] EXCEPT !.bundle = q.bundle]
      BY <1>1, <2>1
    <3>2. courses[c] # None
      BY <1>3, <2>1 DEF NoneApart
    <3>3. courses'[c] \in Course /\ courses'[c].owner = courses[c].owner
      BY <1>2, <1>4, <3>1, <3>2, Rebundled
    <3>4. QED  BY <1>3, <2>1, <3>3 DEF NoneApart
  <2>2. CASE c \notin q.new /\ courses[c] # None
    <3>1. courses'[c] = left[c]
      BY <1>1, <2>2
    <3>2. left[c] \in Course /\ left[c].owner = courses[c].owner
          /\ (left[c] # courses[c] => left[c].bundle = None)
          /\ left[c].published = courses[c].published
      BY <1>4, <2>2
    <3>3. courses[c].published => courses[c].owner \in Instructors
      BY <2>2 DEF IInv, Instructed, HasInstructor
    <3>4. QED  BY <3>1, <3>2, <3>3 DEF NoneApart
  <2>3. CASE c \notin q.new /\ courses[c] = None
    <3>1. c \notin old
      BY <2>3 DEF CoursesOf, Existing
    <3>2. QED  BY <1>1, <2>3, <3>1
  <2>4. QED  BY <2>1, <2>2, <2>3
<1>6. courses' \in [CourseId -> Course \cup {None}]
  BY <1>1, <1>5
<1>7. Instructed(courses') /\ InstructorsKept
  BY <1>5, <1>6, RowsChange
<1>8. InvitesKept /\ AssociatesAccepted' /\ invites' \in [InviteId -> Invitation \cup {None}]
  BY <1>1 DEF InvitesKept, IInv, AssociatesAccepted
<1>9. QED  BY <1>1, <1>6, <1>7, <1>8, Done, OneHandler

-----------------------------------------------------------------------------
\* A new invitation is open and takes no other's place.
LEMMA CreateInviteKeeps ==
  ASSUME NoneApart, IInv, NEW r \in Requests, NEW v \in InviteId, CreateInvite(r, v)
  PROVE  IInv'
<1> DEFINE row == [course |-> req[r].course, accepted |-> FALSE, instructor |-> req[r].instructor]
<1>1. row \in Invitation
  BY HeldFields DEF CreateInvite, Invitation
<1>2. invites[v] = None /\ invites' = [invites EXCEPT ![v] = row] /\ Proceed(r, Idle)
      /\ UNCHANGED <<courses, associates>>
  BY DEF CreateInvite, NextId
<1>3. invites' \in [InviteId -> Invitation \cup {None}]
  BY <1>1, <1>2 DEF IInv
<1>4. InvitesKept
  BY <1>2 DEF InvitesKept, IInv
<1>5. AssociatesAccepted'
  BY <1>2 DEF IInv, AssociatesAccepted
<1>6. InstructorsKept
  BY <1>2 DEF InstructorsKept
<1>7. QED  BY <1>2, <1>3, <1>4, <1>5, <1>6, Done, OneHandler DEF IInv

\* An acceptance changes nothing else of the invitation.
LEMMA MarkAcceptedKeeps ==
  ASSUME NoneApart, IInv, NEW r \in Requests, MarkAccepted(r)
  PROVE  IInv'
<1> DEFINE v == req[r].invite
           row == [invites[v] EXCEPT !.accepted = TRUE]
           step == [req[r] EXCEPT !.pc = "associating"]
<1>1. req[r].pc = "accepting" /\ req[r] \in Request
  BY DEF MarkAccepted, IInv
<1>2. v \in InviteId /\ invites[v] \in Invitation
  BY <1>1, HeldFields DEF IInv, Holding
<1>3. row \in Invitation /\ row.accepted
      /\ row.course = invites[v].course /\ row.instructor = invites[v].instructor
  BY <1>2 DEF Invitation
<1>4. invites' = [invites EXCEPT ![v] = row] /\ Proceed(r, step)
      /\ UNCHANGED <<courses, associates>>
  BY <1>2 DEF MarkAccepted, IInv
<1>5. invites' \in [InviteId -> Invitation \cup {None}]
  BY <1>2, <1>3, <1>4 DEF IInv
<1>6. InvitesKept
  BY <1>2, <1>3, <1>4 DEF InvitesKept, IInv, NoneApart
<1>7. AssociatesAccepted'
  BY <1>4, <1>6 DEF IInv, AssociatesAccepted, InvitesKept
<1>8. InstructorsKept
  BY <1>4 DEF InstructorsKept
<1>9. req[r] \in [pc : {"accepting", "associating"}, invite : InviteId]
  BY <1>1 DEF Request, Idle
<1>10. step \in Request /\ step.pc = "associating" /\ step.invite = v
  BY <1>9 DEF Request
<1>11. invites'[v] = row
  BY <1>2, <1>4 DEF IInv
<1>12. Holding(step, courses', invites')
  BY <1>3, <1>10, <1>11 DEF Holding, IsAccepted, NoneApart
<1>13. QED  BY <1>4, <1>5, <1>6, <1>7, <1>8, <1>10, <1>12, OneHandler DEF IInv

\* Who becomes an associate has accepted.
LEMMA CreateAssociateKeeps ==
  ASSUME IInv, NEW r \in Requests, CreateAssociate(r)
  PROVE  IInv'
<1> DEFINE v == req[r].invite
<1>1. req[r].pc = "associating" /\ UNCHANGED <<courses, invites>> /\ Proceed(r, Idle)
      /\ associates' = associates \cup {<<invites[v].course, invites[v].instructor>>}
  BY DEF CreateAssociate
<1>2. v \in InviteId /\ invites[v] # None /\ invites[v].accepted
  BY <1>1, HeldFields DEF IInv, Holding, IsAccepted
<1>3. AssociatesAccepted'
  BY <1>1, <1>2 DEF IInv, AssociatesAccepted
<1>4. InstructorsKept /\ InvitesKept
  BY <1>1 DEF InstructorsKept, InvitesKept
<1>5. QED  BY <1>1, <1>3, <1>4, Done, OneHandler DEF IInv

-----------------------------------------------------------------------------
\* What a handler starts with is what it has found.
LEMMA StartKeeps ==
  ASSUME NoneApart, IInv, NEW r \in Requests
  PROVE  /\ \A c \in CourseId, i \in Instructors : PublishCourse(r, c, i) => IInv'
         /\ ChoosePopular(r) => IInv'
         /\ \A c \in CourseId, j \in Instructors : Invite(r, c, j) => IInv'
         /\ \A v \in InviteId : AcceptInvite(r, v) => IInv'
         /\ \A b \in BundleId, i \in Instructors :
              /\ FindBundle(r, b, i) => IInv'
              /\ \A new \in SUBSET CourseId : FindBundleCourses(r, b, i, new) => IInv'
         /\ \A s \in Students, c \in CourseId : CheckReview(r, s, c) => IInv'
<1> USE DEF Start, tables
<1>1. ASSUME NEW c \in CourseId, NEW i \in Instructors, PublishCourse(r, c, i) PROVE IInv'
  <2> DEFINE step == [pc |-> "publishing", course |-> c]
  <2>1. step \in Request
    BY DEF Request
  <2>2. Holding(step, courses, invites)
    BY <1>1 DEF PublishCourse, Existing, MayPublish, Holding, HasInstructor
  <2>3. QED  BY <1>1, <2>1, <2>2, Reading DEF PublishCourse
<1>2. ASSUME ChoosePopular(r) PROVE IInv'
  <2> DEFINE step == [pc |-> "popular", chosen |-> ListedPublic]
  <2>1. step \in Request
    BY DEF Request, ListedPublic
  <2>2. \A c \in ListedPublic : HasInstructor(courses, c)
    BY DEF ListedPublic, Public, Existing, IInv, Instructed
  <2>3. Holding(step, courses, invites)
    BY <2>2 DEF Holding
  <2>4. QED  BY <1>2, <2>1, <2>3, Reading DEF ChoosePopular
<1>3. ASSUME NEW c \in CourseId, NEW j \in Instructors, Invite(r, c, j) PROVE IInv'
  <2> DEFINE step == [pc |-> "inviting", course |-> c, instructor |-> j]
  <2>1. step \in Request /\ Holding(step, courses, invites)
    BY DEF Request, Holding
  <2>2. QED  BY <1>3, <2>1, Reading DEF Invite
<1>4. ASSUME NEW v \in InviteId, AcceptInvite(r, v) PROVE IInv'
  <2> DEFINE step == [pc |-> "accepting", invite |-> v]
  <2>1. step \in Request /\ Holding(step, courses, invites)
    BY <1>4 DEF Request, Holding, AcceptInvite
  <2>2. QED  BY <1>4, <2>1, Reading DEF AcceptInvite
<1>5. ASSUME NEW b \in BundleId, NEW i \in Instructors, FindBundle(r, b, i) PROVE IInv'
  <2> DEFINE step == [pc |-> "unbundling", bundle |-> b]
  <2>1. step \in Request /\ Holding(step, courses, invites)
    BY DEF Request, Holding
  <2>2. QED  BY <1>5, <2>1, Reading DEF FindBundle
<1>6. ASSUME NEW b \in BundleId, NEW i \in Instructors, NEW new \in SUBSET CourseId,
             FindBundleCourses(r, b, i, new)
      PROVE  IInv'
  <2> DEFINE step == [pc |-> "bundling", bundle |-> b, instructor |-> i,
                      old |-> CoursesOf(b), new |-> new]
  <2>1. step \in Request
    BY DEF Request, CoursesOf, Existing
  <2>2. Holding(step, courses, invites)
    BY <1>6 DEF FindBundleCourses, Bundleable, Owned, Existing, Holding, HasInstructor
  <2>3. QED  BY <1>6, <2>1, <2>2, Reading DEF FindBundleCourses
<1>7. ASSUME NEW s \in Students, NEW c \in CourseId, CheckReview(r, s, c) PROVE IInv'
  <2> DEFINE step == [pc |-> "reviewing", student |-> s, course |-> c, exists |-> Reviewed(s, c)]
  <2>1. step \in Request /\ Holding(step, courses, invites)
    BY DEF Request, Holding, Reviewed
  <2>2. QED  BY <1>7, <2>1, Reading DEF CheckReview
<1>8. QED  BY <1>1, <1>2, <1>3, <1>4, <1>5, <1>6, <1>7

\* A handler that is done, or fails, keeps what it had written.
LEMMA DoneKeeps ==
  ASSUME IInv, NEW r \in Requests,
         GiveReward(r) \/ AnswerPopular(r) \/ DeleteBundle(r) \/ CreateReview(r) \/ Fail(r)
  PROVE  IInv'
<1>1. Proceed(r, Idle) /\ UNCHANGED <<courses, invites, associates>>
  BY DEF GiveReward, AnswerPopular, DeleteBundle, CreateReview, Fail, tables
<1>2. QED  BY <1>1, Done, Reading

\* A step that writes no table that matters here.
LEMMA ElsewhereKeeps ==
  ASSUME IInv, UNCHANGED <<courses, invites, associates, req>>
  PROVE  IInv'
<1>1. InstructorsKept
  BY DEF InstructorsKept
<1>2. QED  BY <1>1, NoHandler DEF IInv

\* Every step keeps the invariant.
LEMMA NextIInv ==
  ASSUME NoneApart
  PROVE  IInv /\ [Next]_vars => IInv'
<1> SUFFICES ASSUME IInv, [Next]_vars PROVE IInv'
  OBVIOUS
<1>1. CASE CourseStep
  <2>1. ASSUME NEW c \in CourseId, NEW i \in Instructors, NEW org \in BOOLEAN,
               NEW free \in BOOLEAN, CreateCourse(c, i, org, free)
        PROVE  IInv'
    BY <2>1, CreateCourseKeeps
  <2>2. ASSUME NEW c \in CourseId, NEW i \in Instructors, NEW billing \in {None, "Free", "Paid"},
               NEW priced \in BOOLEAN, UpdateCourse(c, i, billing, priced)
        PROVE  IInv'
    BY <2>2, UpdateCourseKeeps
  <2>3. ASSUME NEW c \in CourseId, NEW approved \in BOOLEAN, Approve(c, approved) PROVE IInv'
    BY <2>3, ApproveKeeps
  <2>4. ASSUME NEW r \in Requests, SetPublished(r) PROVE IInv'
    BY <2>4, SetPublishedKeeps
  <2>5. ASSUME NEW r \in Requests,
               (\E c \in CourseId, i \in Instructors : PublishCourse(r, c, i)) \/ ChoosePopular(r)
        PROVE  IInv'
    BY <2>5, StartKeeps
  <2>6. ASSUME NEW r \in Requests, GiveReward(r) \/ AnswerPopular(r) PROVE IInv'
    BY <2>6, DoneKeeps
  <2>7. QED  BY <1>1, <2>1, <2>2, <2>3, <2>4, <2>5, <2>6 DEF CourseStep
<1>2. CASE AssociateStep
  <2>1. ASSUME NEW r \in Requests,
               \/ \E c \in CourseId, j \in Instructors : Invite(r, c, j)
               \/ \E v \in InviteId : AcceptInvite(r, v)
        PROVE  IInv'
    BY <2>1, StartKeeps
  <2>2. ASSUME NEW r \in Requests, NEW v \in InviteId, CreateInvite(r, v) PROVE IInv'
    BY <2>2, CreateInviteKeeps
  <2>3. ASSUME NEW r \in Requests, MarkAccepted(r) PROVE IInv'
    BY <2>3, MarkAcceptedKeeps
  <2>4. ASSUME NEW r \in Requests, CreateAssociate(r) PROVE IInv'
    BY <2>4, CreateAssociateKeeps
  <2>5. QED  BY <1>2, <2>1, <2>2, <2>3, <2>4 DEF AssociateStep
<1>3. CASE BundleStep
  <2>1. ASSUME NEW b \in BundleId, NEW i \in Instructors, NEW new \in SUBSET CourseId,
               CreateBundle(b, i, new)
        PROVE  IInv'
    BY <2>1, CreateBundleKeeps
  <2>2. ASSUME NEW r \in Requests, NEW b \in BundleId, NEW i \in Instructors,
               \/ FindBundle(r, b, i)
               \/ \E new \in SUBSET CourseId : FindBundleCourses(r, b, i, new)
        PROVE  IInv'
    BY <2>2, StartKeeps
  <2>3. ASSUME NEW b \in BundleId, NEW i \in Instructors, TakeBundle(b, i) PROVE IInv'
    BY <2>3, ElsewhereKeeps DEF TakeBundle
  <2>4. ASSUME NEW r \in Requests, UpdateBundle(r) PROVE IInv'
    BY <2>4, UpdateBundleKeeps
  <2>5. ASSUME NEW r \in Requests, DeleteBundle(r) PROVE IInv'
    BY <2>5, DoneKeeps
  <2>6. QED  BY <1>3, <2>1, <2>2, <2>3, <2>4, <2>5 DEF BundleStep
<1>4. CASE StudentStep
  <2>1. ASSUME NEW s \in Students, NEW bought \in SUBSET CourseId, Enroll(s, bought) PROVE IInv'
    BY <2>1, ElsewhereKeeps DEF Enroll
  <2>2. ASSUME NEW r \in Requests, NEW s \in Students, NEW c \in CourseId, CheckReview(r, s, c)
        PROVE  IInv'
    BY <2>2, StartKeeps
  <2>3. ASSUME NEW r \in Requests, CreateReview(r) PROVE IInv'
    BY <2>3, DoneKeeps
  <2>4. QED  BY <1>4, <2>1, <2>2, <2>3 DEF StudentStep
<1>5. ASSUME NEW r \in Requests, Fail(r) PROVE IInv'
  BY <1>5, DoneKeeps
<1>6. CASE UNCHANGED vars
  BY <1>6, ElsewhereKeeps DEF vars, tables
<1>7. QED  BY <1>1, <1>2, <1>3, <1>4, <1>5, <1>6 DEF Next

-----------------------------------------------------------------------------
(* Rows and handlers are counted together: a handler that has found no row  *)
(* writes one at most, and a row keeps later handlers from writing another. *)

Fit(n, handlers) == n + Cardinality(handlers) <= overlap

\* Rows that are not more, and handlers that are among those there were.
LEMMA FitLess ==
  ASSUME overlap \in Nat, NEW n \in Nat, NEW m \in Nat, m <= n,
         NEW S \in SUBSET Requests, NEW T \in SUBSET S, Fit(n, S)
  PROVE  Fit(m, T)
<1>1. IsFiniteSet(S) /\ Cardinality(S) \in Nat
  BY HandlersAssumption, FS_Subset, FS_CardinalityType
<1>2. Cardinality(T) <= Cardinality(S) /\ Cardinality(T) \in Nat
  BY <1>1, FS_Subset, FS_CardinalityType
<1>3. QED  BY <1>1, <1>2 DEF Fit

\* A handler writes a row and is done.
LEMMA FitWritten ==
  ASSUME overlap \in Nat, NEW n \in Nat, NEW m \in Nat, m <= n + 1,
         NEW S \in SUBSET Requests, NEW r \in S, NEW T \in SUBSET (S \ {r}), Fit(n, S)
  PROVE  Fit(m, T)
<1>1. IsFiniteSet(S) /\ Cardinality(S) \in Nat
  BY HandlersAssumption, FS_Subset, FS_CardinalityType
<1>2. IsFiniteSet(S \ {r}) /\ Cardinality(S \ {r}) = Cardinality(S) - 1
  BY <1>1, FS_RemoveElement
<1>3. Cardinality(T) <= Cardinality(S \ {r}) /\ Cardinality(T) \in Nat
  BY <1>2, FS_Subset, FS_CardinalityType
<1>4. QED  BY <1>1, <1>2, <1>3 DEF Fit

\* Without a row there may be as many handlers as overlap.
LEMMA FitStarted ==
  ASSUME overlap \in Nat, NEW handlers, Within(handlers), NEW T \in SUBSET Busy(handlers)
  PROVE  Fit(0, T)
<1>1. Busy(handlers) \in SUBSET Requests
  BY DEF Busy
<1>2. IsFiniteSet(Busy(handlers)) /\ Cardinality(Busy(handlers)) \in Nat
  BY <1>1, HandlersAssumption, FS_Subset, FS_CardinalityType
<1>3. Cardinality(T) <= Cardinality(Busy(handlers)) /\ Cardinality(T) \in Nat
  BY <1>2, FS_Subset, FS_CardinalityType
<1>4. QED  BY <1>2, <1>3 DEF Fit, Within

\* What fits says how many rows there are.
LEMMA FitRows ==
  ASSUME overlap \in Nat, NEW n \in Nat, NEW S \in SUBSET Requests, Fit(n, S)
  PROVE  n <= overlap
<1>1. Cardinality(S) \in Nat
  BY HandlersAssumption, FS_Subset, FS_CardinalityType
<1>2. QED  BY <1>1 DEF Fit

-----------------------------------------------------------------------------
(* The other tables, and what handlers that write them hold.               *)

Published(cs, c) == cs[c] # None /\ cs[c].published

\* Handlers that will write a review, a reward or an invitation.
Reviewing(q, s, c) == q.pc = "reviewing" /\ q.student = s /\ q.course = c /\ ~ q.exists

Publishing(q, c) == q.pc \in {"publishing", "rewarding"} /\ q.course = c

Inviting(q, c, i) == q.pc = "inviting" /\ q.course = c /\ q.instructor = i

InvitesOf(vs, c, i) ==
  {v \in InviteId : vs[v] # None /\ vs[v].course = c /\ vs[v].instructor = i}

Reviews ==
  /\ reviews \in [Students -> [CourseId -> 0 .. MaxReview]]
  /\ \A s \in Students, c \in CourseId :
       Fit(reviews[s][c], {r \in Requests : Reviewing(req[r], s, c)})

Publications ==
  /\ rewarded \in [CourseId -> 0 .. MaxReview]
  /\ \A c \in CourseId :
       /\ Fit(rewarded[c], {r \in Requests : Publishing(req[r], c)})
       /\ rewarded[c] > 0 => Published(courses, c)
  /\ \A r \in Requests : req[r].pc = "rewarding" => Published(courses, req[r].course)

Invitations ==
  \A c \in CourseId, i \in Instructors :
    Fit(Cardinality(InvitesOf(invites, c, i)), {r \in Requests : Inviting(req[r], c, i)})

BundleRow == [instructor : Instructors, deleted : BOOLEAN]

Bundles ==
  /\ bundles \in [BundleId -> BundleRow \cup {None}]
  /\ \A r \in Requests : req[r].pc \in {"bundling", "unbundling"} => bundles[req[r].bundle] # None

CatalogueInv ==
  /\ overlap \in Nat
  /\ IInv /\ Reviews /\ Publications /\ Invitations /\ Bundles
  /\ enrolled \subseteq Students \X CourseId

-----------------------------------------------------------------------------
\* Six steps write courses,
LEMMA CourseWriters ==
  ASSUME [Next]_vars
  PROVE  \/ UNCHANGED courses
         \/ \E c \in CourseId, i \in Instructors, org, free \in BOOLEAN : CreateCourse(c, i, org, free)
         \/ \E c \in CourseId, i \in Instructors, billing \in {None, "Free", "Paid"},
               priced \in BOOLEAN : UpdateCourse(c, i, billing, priced)
         \/ \E c \in CourseId, approved \in BOOLEAN : Approve(c, approved)
         \/ \E r \in Requests : SetPublished(r) \/ UpdateBundle(r)
         \/ \E b \in BundleId, i \in Instructors, new \in SUBSET CourseId : CreateBundle(b, i, new)
  BY DEF Next, vars, tables, CourseStep, AssociateStep, BundleStep, StudentStep,
     PublishCourse, GiveReward, ChoosePopular, AnswerPopular, Invite, CreateInvite, AcceptInvite,
     MarkAccepted, CreateAssociate, FindBundleCourses, TakeBundle, FindBundle, DeleteBundle,
     Enroll, CheckReview, CreateReview, Fail

\* ... and each leaves published what is.
LEMMA PublishedStays ==
  ASSUME NoneApart, IInv, [Next]_vars, NEW c \in CourseId, Published(courses, c)
  PROVE  Published(courses', c)
<1>typ. courses \in [CourseId -> Course \cup {None}] /\ courses[c] \in Course
  BY DEF IInv, Published
<1>1. ASSUME NEW d \in CourseId, NEW i \in Instructors, NEW org \in BOOLEAN, NEW free \in BOOLEAN,
             CreateCourse(d, i, org, free)
      PROVE  Published(courses', c)
  BY <1>1, <1>typ DEF CreateCourse, NextId, Published
<1>2. ASSUME NEW d \in CourseId, NEW i \in Instructors, NEW billing \in {None, "Free", "Paid"},
             NEW priced \in BOOLEAN, UpdateCourse(d, i, billing, priced)
      PROVE  Published(courses', c)
  <2> DEFINE row == [courses[d] EXCEPT !.free = IF billing = None THEN @ ELSE billing = "Free",
                                       !.priced = billing # "Free" /\ (priced \/ @)]
  <2>1. courses' = [courses EXCEPT ![d] = row]
    BY <1>2, <1>typ DEF UpdateCourse
  <2>2. CASE d = c
    <3>1. row \in Course /\ row.published
      BY <1>typ, <2>2 DEF Published, Course
    <3>2. QED  BY <1>typ, <2>1, <2>2, <3>1 DEF Published, NoneApart
  <2>3. QED  BY <1>typ, <2>1, <2>2 DEF Published
<1>3. ASSUME NEW d \in CourseId, NEW approved \in BOOLEAN, Approve(d, approved)
      PROVE  Published(courses', c)
  <2> DEFINE row == [courses[d] EXCEPT !.approved = approved]
  <2>1. courses' = [courses EXCEPT ![d] = row]
    BY <1>3, <1>typ DEF Approve
  <2>2. CASE d = c
    <3>1. row \in Course /\ row.published
      BY <1>typ, <2>2 DEF Published, Course
    <3>2. QED  BY <1>typ, <2>1, <2>2, <3>1 DEF Published, NoneApart
  <2>3. QED  BY <1>typ, <2>1, <2>2 DEF Published
<1>4. ASSUME NEW r \in Requests, SetPublished(r) PROVE Published(courses', c)
  <2> DEFINE d == req[r].course
             row == [courses[d] EXCEPT !.published = TRUE]
  <2>1. courses' = [courses EXCEPT ![d] = row]
    BY <1>4, <1>typ DEF SetPublished
  <2>2. CASE d = c
    <3>1. row \in Course /\ row.published
      BY <1>typ, <2>2 DEF Course
    <3>2. QED  BY <1>typ, <2>1, <2>2, <3>1 DEF Published, NoneApart
  <2>3. QED  BY <1>typ, <2>1, <2>2 DEF Published
<1>5. ASSUME NEW r \in Requests, UpdateBundle(r) PROVE Published(courses', c)
  <2> DEFINE q == req[r]
             left == [d \in CourseId |-> IF d \in q.old \cap CoursesOf(q.bundle)
                                         THEN [courses[d] EXCEPT !.bundle = None] ELSE courses[d]]
  <2>1. q.bundle \in BundleId
        /\ courses' = [d \in CourseId |-> IF d \in q.new
                                          THEN [left[d] EXCEPT !.bundle = q.bundle] ELSE left[d]]
    BY <1>5, HeldFields DEF UpdateBundle
  <2>2. left[c] = [courses[c] EXCEPT !.bundle = None] \/ left[c] = courses[c]
    OBVIOUS
  <2>3. left[c] \in Course /\ left[c].published
    BY <2>2, <1>typ, Rebundled DEF Published
  <2>4. courses'[c] = [left[c] EXCEPT !.bundle = q.bundle] \/ courses'[c] = left[c]
    BY <2>1
  <2>5. courses'[c] \in Course /\ courses'[c].published
    BY <2>1, <2>3, <2>4, Rebundled
  <2>6. QED  BY <2>5 DEF Published, NoneApart
<1>6. ASSUME NEW b \in BundleId, NEW i \in Instructors, NEW new \in SUBSET CourseId,
             CreateBundle(b, i, new)
      PROVE  Published(courses', c)
  <2>1. courses'[c] = [courses[c] EXCEPT !.bundle = b] \/ courses'[c] = courses[c]
    BY <1>6 DEF CreateBundle, Bundled
  <2>2. /\ [courses[c] EXCEPT !.bundle = b] \in Course
        /\ [courses[c] EXCEPT !.bundle = b].published = courses[c].published
    BY <1>typ, <1>6, Rebundled
  <2>3. courses'[c] \in Course /\ courses'[c].published
    BY <2>1, <2>2, <1>typ DEF Published
  <2>4. QED  BY <2>3 DEF Published, NoneApart
<1>7. CASE UNCHANGED courses
  BY <1>7 DEF Published
<1>8. QED  BY <1>1, <1>2, <1>3, <1>4, <1>5, <1>6, <1>7, CourseWriters

\* What most steps leave alone: what is counted, and the handlers that count.
Counting == {"reviewing", "publishing", "rewarding", "inviting"}

Quiet ==
  /\ UNCHANGED <<reviews, rewarded>>
  /\ \A c \in CourseId, i \in Instructors : InvitesOf(invites', c, i) = InvitesOf(invites, c, i)
  /\ \A r \in Requests : req'[r] = req[r] \/ req'[r].pc \notin Counting

\* The steps that do not.
Counts ==
  \/ \E r \in Requests, s \in Students, c \in CourseId : CheckReview(r, s, c)
  \/ \E r \in Requests : CreateReview(r) \/ SetPublished(r) \/ GiveReward(r)
  \/ \E r \in Requests, c \in CourseId, i \in Instructors : PublishCourse(r, c, i) \/ Invite(r, c, i)
  \/ \E r \in Requests, v \in InviteId : CreateInvite(r, v)

\* A step that counts nothing leaves alone what is counted.
LEMMA StepKinds ==
  ASSUME NoneApart, IInv, [Next]_vars
  PROVE  Counts \/ Quiet
<1>typ. req \in [Requests -> Request]
  BY DEF IInv
<1>one. ASSUME NEW r \in Requests, NEW step, Proceed(r, step), step.pc \notin Counting,
               UNCHANGED <<reviews, rewarded, invites>>
        PROVE  Quiet
  BY <1>one, <1>typ DEF Quiet, Proceed
<1>none. ASSUME UNCHANGED <<reviews, rewarded, invites, req>> PROVE Quiet
  BY <1>none DEF Quiet
<1>idle. Idle.pc \notin Counting
  BY DEF Idle, Counting
<1>1. ASSUME NEW r \in Requests,
             AnswerPopular(r) \/ UpdateBundle(r) \/ DeleteBundle(r) \/ CreateAssociate(r) \/ Fail(r)
      PROVE  Quiet
  <2>1. Proceed(r, Idle) /\ UNCHANGED <<reviews, rewarded, invites>>
    BY <1>1 DEF AnswerPopular, UpdateBundle, DeleteBundle, CreateAssociate, Fail, tables
  <2>2. QED  BY <2>1, <1>idle, <1>one
<1>2. ASSUME NEW r \in Requests, ChoosePopular(r) PROVE Quiet
  BY <1>2, <1>one DEF ChoosePopular, Start, tables, Counting
<1>3. ASSUME NEW r \in Requests, NEW v \in InviteId, AcceptInvite(r, v) PROVE Quiet
  BY <1>3, <1>one DEF AcceptInvite, Start, tables, Counting
<1>4. ASSUME NEW r \in Requests, NEW b \in BundleId, NEW i \in Instructors,
             FindBundle(r, b, i) \/ \E new \in SUBSET CourseId : FindBundleCourses(r, b, i, new)
      PROVE  Quiet
  BY <1>4, <1>one DEF FindBundle, FindBundleCourses, Start, tables, Counting
<1>5. ASSUME NEW r \in Requests, MarkAccepted(r) PROVE Quiet
  <2> DEFINE v == req[r].invite
             row == [invites[v] EXCEPT !.accepted = TRUE]
  <2>1. req[r] \in Request /\ req[r].pc = "accepting" /\ Holding(req[r], courses, invites)
    BY <1>5 DEF MarkAccepted, IInv
  <2>2. v \in InviteId /\ invites[v] \in Invitation
    BY <2>1, HeldFields DEF IInv, Holding
  <2>3. row \in Invitation /\ row.course = invites[v].course /\ row.instructor = invites[v].instructor
    BY <2>2 DEF Invitation
  <2>4. invites' = [invites EXCEPT ![v] = row] /\ invites \in [InviteId -> Invitation \cup {None}]
    BY <1>5, <2>2 DEF MarkAccepted, IInv
  <2>5. ASSUME NEW c \in CourseId, NEW i \in Instructors
        PROVE  InvitesOf(invites', c, i) = InvitesOf(invites, c, i)
    BY <2>2, <2>3, <2>4 DEF InvitesOf, NoneApart
  <2>6. req[r] \in [pc : {"accepting", "associating"}, invite : InviteId]
    BY <2>1 DEF Request, Idle
  <2>7. [req[r] EXCEPT !.pc = "associating"].pc = "associating"
    BY <2>6
  <2>8. \A x \in Requests : req'[x] = req[x] \/ req'[x].pc \notin Counting
    BY <1>5, <1>typ, <2>7 DEF MarkAccepted, Proceed, Counting
  <2>9. UNCHANGED <<reviews, rewarded>>
    BY <1>5 DEF MarkAccepted
  <2>10. QED  BY <2>5, <2>8, <2>9 DEF Quiet
<1>6. CASE CourseStep
  <2>1. ASSUME NEW c \in CourseId, NEW i \in Instructors,
               \/ \E org, free \in BOOLEAN : CreateCourse(c, i, org, free)
               \/ \E billing \in {None, "Free", "Paid"}, priced \in BOOLEAN :
                    UpdateCourse(c, i, billing, priced)
               \/ \E approved \in BOOLEAN : Approve(c, approved)
        PROVE  Quiet
    BY <2>1, <1>none DEF CreateCourse, UpdateCourse, Approve
  <2>2. ASSUME NEW c \in CourseId, NEW approved \in BOOLEAN, Approve(c, approved) PROVE Quiet
    BY <2>2, <1>none DEF Approve
  <2>3. QED  BY <1>6, <2>1, <2>2, <1>1, <1>2 DEF CourseStep, Counts
<1>7. CASE AssociateStep
  BY <1>7, <1>1, <1>3, <1>5 DEF AssociateStep, Counts
<1>8. CASE BundleStep
  <2>1. ASSUME NEW b \in BundleId, NEW i \in Instructors,
               TakeBundle(b, i) \/ \E new \in SUBSET CourseId : CreateBundle(b, i, new)
        PROVE  Quiet
    BY <2>1, <1>none DEF TakeBundle, CreateBundle
  <2>2. QED  BY <1>8, <2>1, <1>1, <1>4 DEF BundleStep
<1>9. CASE StudentStep
  <2>1. ASSUME NEW s \in Students, NEW bought \in SUBSET CourseId, Enroll(s, bought) PROVE Quiet
    BY <2>1, <1>none DEF Enroll
  <2>2. QED  BY <1>9, <2>1 DEF StudentStep, Counts
<1>10. CASE UNCHANGED vars
  BY <1>10, <1>none DEF vars, tables
<1>11. QED  BY <1>6, <1>7, <1>8, <1>9, <1>10, <1>1 DEF Next

-----------------------------------------------------------------------------
\* A handler that proceeds is the only one whose step changes.
LEMMA Proceeding ==
  ASSUME IInv, NEW r \in Requests, NEW step, Proceed(r, step)
  PROVE  req'[r] = step /\ \A x \in Requests : x # r => req'[x] = req[x]
  BY DEF Proceed, IInv

\* Reviews, and who will write one, fit what overlaps.
LEMMA ReviewsKept ==
  ASSUME NoneApart, CatalogueInv, [Next]_vars, overlap' = overlap,
         Next => Within(req')
  PROVE  Reviews'
<1> DEFINE H(s, c) == {x \in Requests : Reviewing(req[x], s, c)}
           G(s, c) == {x \in Requests : Reviewing(req'[x], s, c)}
<1>typ. IInv /\ overlap \in Nat /\ reviews \in [Students -> [CourseId -> 0 .. MaxReview]]
  BY DEF CatalogueInv, Reviews
<1>fit. \A s \in Students, c \in CourseId : Fit(reviews[s][c], H(s, c))
  BY DEF CatalogueInv, Reviews
<1>less. ASSUME NEW s \in Students, NEW c \in CourseId, reviews'[s][c] = reviews[s][c],
                G(s, c) \subseteq H(s, c)
         PROVE  Fit(reviews'[s][c], G(s, c))
  <2>1. reviews[s][c] \in Nat /\ reviews[s][c] <= reviews[s][c]
    BY <1>typ
  <2>2. H(s, c) \in SUBSET Requests /\ G(s, c) \in SUBSET H(s, c) /\ Fit(reviews[s][c], H(s, c))
    BY <1>less, <1>fit
  <2> HIDE DEF H, G
  <2>3. Fit(reviews[s][c], G(s, c))
    BY <2>1, <2>2, <1>typ, FitLess
  <2>4. QED  BY <2>3, <1>less
<1>1. ASSUME NEW r \in Requests, NEW t \in Students, NEW d \in CourseId, CheckReview(r, t, d)
      PROVE  Reviews'
  <2> DEFINE step == [pc |-> "reviewing", student |-> t, course |-> d, exists |-> Reviewed(t, d)]
  <2>1. req[r].pc = "idle" /\ Proceed(r, step) /\ UNCHANGED reviews
    BY <1>1 DEF CheckReview, Start, tables
  <2>2. req'[r] = step /\ \A x \in Requests : x # r => req'[x] = req[x]
    BY <1>typ, <2>1, Proceeding
  <2>3. ASSUME NEW s \in Students, NEW c \in CourseId PROVE Fit(reviews[s][c], G(s, c))
    <3>1. CASE Reviewing(step, s, c)
      <4>a. s = t /\ c = d /\ ~ Reviewed(t, d)
        BY <3>1, Zenon DEF Reviewing
      <4>1. s = t /\ c = d /\ reviews[s][c] = 0
        BY <4>a, <1>typ DEF Reviewed
      <4>2. G(s, c) \in SUBSET Busy(req')
        BY DEF Reviewing, Busy
      <4>3. Within(req')
        BY <1>1 DEF Next, StudentStep
      <4>4. QED  BY <4>1, <4>2, <4>3, <1>typ, FitStarted
    <3>2. CASE ~ Reviewing(step, s, c)
      <4>1. G(s, c) \subseteq H(s, c)
        BY <2>2, <3>2
      <4>2. QED  BY <4>1, <2>1, <1>less
    <3>3. QED  BY <3>1, <3>2
  <2>4. QED  BY <2>1, <2>3, <1>typ DEF Reviews, Fit
<1>2. ASSUME NEW r \in Requests, CreateReview(r) PROVE Reviews'
  <2> DEFINE t == req[r].student
             d == req[r].course
  <2>1. req[r].pc = "reviewing" /\ Proceed(r, Idle) /\ req[r] \in Request
    BY <1>2, <1>typ DEF CreateReview, IInv
  <2>2. t \in Students /\ d \in CourseId /\ req[r].exists \in BOOLEAN
    BY <2>1 DEF Request, Idle
  <2>3. req'[r] = Idle /\ \A x \in Requests : x # r => req'[x] = req[x]
    BY <1>typ, <2>1, Proceeding
  <2>4. \A s \in Students, c \in CourseId : G(s, c) \subseteq H(s, c) \ {r}
    BY <2>3 DEF Reviewing, Idle
  <2>5. CASE req[r].exists
    <3>1. reviews' = reviews
      BY <1>2, <2>5 DEF CreateReview
    <3>2. \A s \in Students, c \in CourseId : Fit(reviews'[s][c], G(s, c))
      BY <2>4, <3>1, <1>less
    <3>3. QED  BY <3>1, <3>2, <1>typ DEF Reviews, Fit
  <2>6. CASE ~ req[r].exists
    <3>1. reviews' = [reviews EXCEPT ![t] = [reviews[t] EXCEPT ![d] = @ + 1]]
          /\ reviews[t][d] < MaxReview
      BY <1>2, <2>2, <2>6, <1>typ DEF CreateReview
    <3>2. reviews[t] \in [CourseId -> 0 .. MaxReview] /\ reviews[t][d] + 1 \in 0 .. MaxReview
      BY <3>1, <2>2, <1>typ, PlatformBounds
    <3>3. reviews' \in [Students -> [CourseId -> 0 .. MaxReview]]
      BY <3>1, <3>2, <2>2, <1>typ
    <3>4. ASSUME NEW s \in Students, NEW c \in CourseId PROVE Fit(reviews'[s][c], G(s, c))
      <4>1. CASE s = t /\ c = d
        <5>1. reviews'[s][c] = reviews[s][c] + 1
          BY <3>1, <3>2, <4>1, <2>2, <1>typ
        <5>2. r \in H(s, c)
          BY <2>1, <2>6, <4>1 DEF Reviewing
        <5>3. H(s, c) \in SUBSET Requests /\ G(s, c) \in SUBSET (H(s, c) \ {r})
          BY <2>4
        <5>4. reviews[s][c] \in Nat
          BY <1>typ
        <5>5. Fit(reviews[s][c], H(s, c)) /\ reviews[s][c] + 1 \in Nat
              /\ reviews[s][c] + 1 <= reviews[s][c] + 1
          BY <5>4, <1>fit
        <5> HIDE DEF H, G
        <5>6. Fit(reviews[s][c] + 1, G(s, c))
          BY <5>2, <5>3, <5>4, <5>5, <1>typ, FitWritten
        <5>7. QED  BY <5>1, <5>6
      <4>2. CASE ~ (s = t /\ c = d)
        <5>1. reviews'[s][c] = reviews[s][c]
          BY <3>1, <3>2, <4>2, <2>2, <1>typ
        <5>2. QED  BY <2>4, <5>1, <1>less
      <4>3. QED  BY <4>1, <4>2
    <3>5. QED  BY <3>3, <3>4 DEF Reviews, Fit
  <2>7. QED  BY <2>5, <2>6
<1>3. ASSUME UNCHANGED reviews,
             \A x \in Requests : req'[x] = req[x] \/ req'[x].pc # "reviewing"
      PROVE  Reviews'
  <2>1. \A s \in Students, c \in CourseId : G(s, c) \subseteq H(s, c)
    BY <1>3 DEF Reviewing
  <2>2. \A s \in Students, c \in CourseId : Fit(reviews'[s][c], G(s, c))
    BY <1>3, <2>1, <1>less
  <2>3. QED  BY <1>3, <2>2, <1>typ DEF Reviews, Fit
<1>4. CASE Quiet
  BY <1>4, <1>3 DEF Quiet, Counting
<1>5. ASSUME NEW r \in Requests, NEW step, Proceed(r, step), step.pc # "reviewing", UNCHANGED reviews
      PROVE  Reviews'
  BY <1>5, <1>typ, <1>3, Proceeding
<1>6. ASSUME NEW r \in Requests, SetPublished(r) PROVE Reviews'
  <2>1. req[r] \in Request /\ req[r].pc = "publishing"
    BY <1>6, <1>typ DEF SetPublished, IInv
  <2>2. req[r] \in [pc : {"publishing", "rewarding"}, course : CourseId]
    BY <2>1 DEF Request, Idle
  <2>3. [req[r] EXCEPT !.pc = "rewarding"].pc = "rewarding"
    BY <2>2
  <2>4. QED  BY <1>6, <2>3, <1>5 DEF SetPublished
<1>7. ASSUME NEW r \in Requests, NEW c \in CourseId, NEW i \in Instructors,
             PublishCourse(r, c, i) \/ Invite(r, c, i)
      PROVE  Reviews'
  BY <1>7, <1>5 DEF PublishCourse, Invite, Start, tables
<1>8. ASSUME NEW r \in Requests, GiveReward(r) \/ \E v \in InviteId : CreateInvite(r, v)
      PROVE  Reviews'
  BY <1>8, <1>5 DEF GiveReward, CreateInvite, Idle
<1>9. QED
  BY <1>1, <1>2, <1>4, <1>6, <1>7, <1>8, <1>typ, StepKinds DEF Counts

\* Rewards for publishing a course, and who will give one, fit what overlaps: the course
\* is published before it is rewarded, and nobody publishes it again.
LEMMA PublicationsKept ==
  ASSUME NoneApart, CatalogueInv, [Next]_vars, overlap' = overlap,
         Next => Within(req')
  PROVE  Publications'
<1> DEFINE H(c) == {x \in Requests : Publishing(req[x], c)}
           G(c) == {x \in Requests : Publishing(req'[x], c)}
<1>typ. IInv /\ overlap \in Nat /\ rewarded \in [CourseId -> 0 .. MaxReview]
  BY DEF CatalogueInv, Publications
<1>fit. \A c \in CourseId : Fit(rewarded[c], H(c)) /\ (rewarded[c] > 0 => Published(courses, c))
  BY DEF CatalogueInv, Publications
<1>pub. \A c \in CourseId : Published(courses, c) => Published(courses', c)
  BY <1>typ, PublishedStays
<1>less. ASSUME NEW c \in CourseId, rewarded'[c] = rewarded[c], G(c) \subseteq H(c)
         PROVE  Fit(rewarded'[c], G(c)) /\ (rewarded'[c] > 0 => Published(courses', c))
  <2>1. rewarded[c] \in Nat /\ rewarded[c] <= rewarded[c]
    BY <1>typ
  <2>2. H(c) \in SUBSET Requests /\ G(c) \in SUBSET H(c) /\ Fit(rewarded[c], H(c))
    BY <1>less, <1>fit
  <2>3. rewarded'[c] > 0 => Published(courses', c)
    BY <1>less, <1>fit, <1>pub
  <2> HIDE DEF H, G
  <2>4. Fit(rewarded[c], G(c))
    BY <2>1, <2>2, <1>typ, FitLess
  <2>5. QED  BY <2>3, <2>4, <1>less
<1>held. \A x \in Requests : req[x].pc = "rewarding" =>
           req[x].course \in CourseId /\ Published(courses', req[x].course)
  BY <1>typ, <1>pub, HeldFields DEF CatalogueInv, Publications
<1>none. ASSUME UNCHANGED rewarded,
                \A x \in Requests : req'[x] = req[x] \/ req'[x].pc \notin {"publishing", "rewarding"}
         PROVE  Publications'
  <2>1. \A c \in CourseId : G(c) \subseteq H(c)
    BY <1>none DEF Publishing
  <2>2. \A c \in CourseId : Fit(rewarded'[c], G(c)) /\ (rewarded'[c] > 0 => Published(courses', c))
    BY <1>none, <2>1, <1>less
  <2>3. \A x \in Requests : req'[x].pc = "rewarding" => Published(courses', req'[x].course)
    BY <1>none, <1>held
  <2>4. QED  BY <1>none, <2>2, <2>3, <1>typ DEF Publications, Fit
<1>one. ASSUME NEW r \in Requests, NEW step, Proceed(r, step),
               step.pc \notin {"publishing", "rewarding"}, UNCHANGED rewarded
        PROVE  Publications'
  BY <1>one, <1>typ, <1>none, Proceeding
<1>1. ASSUME NEW r \in Requests, NEW d \in CourseId, NEW i \in Instructors, PublishCourse(r, d, i)
      PROVE  Publications'
  <2> DEFINE step == [pc |-> "publishing", course |-> d]
  <2>1. Proceed(r, step) /\ UNCHANGED rewarded /\ ~ Published(courses, d)
    BY <1>1 DEF PublishCourse, Start, tables, Published
  <2>2. req'[r] = step /\ \A x \in Requests : x # r => req'[x] = req[x]
    BY <1>typ, <2>1, Proceeding
  <2>3. rewarded[d] = 0
    <3>1. ~ (rewarded[d] > 0)
      BY <2>1, <1>fit
    <3>2. QED  BY <3>1, <1>typ
  <2>4. Within(req')
    BY <1>1 DEF Next, CourseStep
  <2>5. Fit(rewarded'[d], G(d)) /\ (rewarded'[d] > 0 => Published(courses', d))
    <3>1. G(d) \in SUBSET Busy(req')
      BY DEF Publishing, Busy
    <3>2. Fit(0, G(d))
      BY <3>1, <2>4, <1>typ, FitStarted
    <3>3. rewarded'[d] = 0
      BY <2>1, <2>3
    <3>4. QED  BY <3>2, <3>3
  <2>6. ASSUME NEW c \in CourseId, c # d
        PROVE  Fit(rewarded'[c], G(c)) /\ (rewarded'[c] > 0 => Published(courses', c))
    <3>1. G(c) \subseteq H(c)
      BY <2>2, <2>6 DEF Publishing
    <3>2. QED  BY <2>1, <3>1, <1>less
  <2>7. \A x \in Requests : req'[x].pc = "rewarding" => Published(courses', req'[x].course)
    BY <2>2, <1>held
  <2>8. \A c \in CourseId : Fit(rewarded'[c], G(c)) /\ (rewarded'[c] > 0 => Published(courses', c))
    BY <2>5, <2>6
  <2>9. QED  BY <2>1, <2>7, <2>8, <1>typ DEF Publications, Fit
<1>2. ASSUME NEW r \in Requests, SetPublished(r) PROVE Publications'
  <2> DEFINE d == req[r].course
             row == [courses[d] EXCEPT !.published = TRUE]
             step == [req[r] EXCEPT !.pc = "rewarding"]
  <2>1. req[r] \in Request /\ req[r].pc = "publishing"
    BY <1>2, <1>typ DEF SetPublished, IInv
  <2>2. req[r] \in [pc : {"publishing", "rewarding"}, course : CourseId]
    BY <2>1 DEF Request, Idle
  <2>3. step.pc = "rewarding" /\ step.course = d /\ d \in CourseId
    BY <2>2
  <2>4. req'[r] = step /\ \A x \in Requests : x # r => req'[x] = req[x]
    BY <1>2, <1>typ, Proceeding DEF SetPublished
  <2>5. courses[d] \in Course
    BY <2>1, <2>3, <1>typ DEF IInv, Holding, HasInstructor
  <2>6. row \in Course /\ row.published
    BY <2>5 DEF Course
  <2>7. courses' = [courses EXCEPT ![d] = row] /\ courses \in [CourseId -> Course \cup {None}]
    BY <1>2, <1>typ DEF SetPublished, IInv
  <2>8. Published(courses', d)
    BY <2>3, <2>6, <2>7 DEF Published, NoneApart
  <2>9. \A c \in CourseId : G(c) \subseteq H(c)
    BY <2>1, <2>3, <2>4 DEF Publishing
  <2>10. UNCHANGED rewarded
    BY <1>2 DEF SetPublished
  <2>11. \A c \in CourseId : Fit(rewarded'[c], G(c)) /\ (rewarded'[c] > 0 => Published(courses', c))
    BY <2>9, <2>10, <1>less
  <2>12. \A x \in Requests : req'[x].pc = "rewarding" => Published(courses', req'[x].course)
    BY <2>3, <2>4, <2>8, <1>held
  <2>13. QED  BY <2>10, <2>11, <2>12, <1>typ DEF Publications, Fit
<1>3. ASSUME NEW r \in Requests, GiveReward(r) PROVE Publications'
  <2> DEFINE d == req[r].course
  <2>1. req[r].pc = "rewarding" /\ d \in CourseId /\ Published(courses', d)
    BY <1>3, <1>held DEF GiveReward
  <2>2. rewarded[d] < MaxReview /\ rewarded' = [rewarded EXCEPT ![d] = rewarded[d] + 1]
    BY <1>3 DEF GiveReward
  <2>3. req'[r] = Idle /\ \A x \in Requests : x # r => req'[x] = req[x]
    BY <1>3, <1>typ, Proceeding DEF GiveReward
  <2>4. rewarded[d] + 1 \in 0 .. MaxReview
    BY <2>1, <2>2, <1>typ, PlatformBounds
  <2>5. rewarded' \in [CourseId -> 0 .. MaxReview]
    BY <2>1, <2>2, <2>4, <1>typ
  <2>6. \A c \in CourseId : G(c) \subseteq H(c) \ {r}
    BY <2>3 DEF Publishing, Idle
  <2>7. Fit(rewarded'[d], G(d))
    <3>1. rewarded[d] \in Nat /\ rewarded[d] + 1 \in Nat /\ rewarded[d] + 1 <= rewarded[d] + 1
      BY <2>1, <1>typ
    <3>2. r \in H(d) /\ H(d) \in SUBSET Requests /\ G(d) \in SUBSET (H(d) \ {r})
          /\ Fit(rewarded[d], H(d))
      BY <2>1, <2>6, <1>fit DEF Publishing
    <3> HIDE DEF H, G
    <3>3. Fit(rewarded[d] + 1, G(d))
      BY <3>1, <3>2, <1>typ, FitWritten
    <3>4. rewarded'[d] = rewarded[d] + 1
      BY <2>1, <2>2, <1>typ
    <3>5. QED  BY <3>3, <3>4
  <2>8. ASSUME NEW c \in CourseId
        PROVE  Fit(rewarded'[c], G(c)) /\ (rewarded'[c] > 0 => Published(courses', c))
    <3>1. CASE c = d
      BY <3>1, <2>1, <2>7
    <3>2. CASE c # d
      <4>1. rewarded'[c] = rewarded[c]
        BY <3>2, <2>2, <1>typ
      <4>2. QED  BY <4>1, <2>6, <1>less
    <3>3. QED  BY <3>1, <3>2
  <2>9. \A x \in Requests : req'[x].pc = "rewarding" => Published(courses', req'[x].course)
    BY <2>3, <1>held DEF Idle
  <2>10. QED  BY <2>5, <2>8, <2>9 DEF Publications, Fit
<1>4. CASE Quiet
  BY <1>4, <1>none DEF Quiet, Counting
<1>5. ASSUME NEW r \in Requests, NEW s \in Students, NEW c \in CourseId, CheckReview(r, s, c)
      PROVE  Publications'
  BY <1>5, <1>one DEF CheckReview, Start, tables
<1>6. ASSUME NEW r \in Requests, NEW c \in CourseId, NEW i \in Instructors, Invite(r, c, i)
      PROVE  Publications'
  BY <1>6, <1>one DEF Invite, Start, tables
<1>7. ASSUME NEW r \in Requests, CreateReview(r) \/ \E v \in InviteId : CreateInvite(r, v)
      PROVE  Publications'
  BY <1>7, <1>one DEF CreateReview, CreateInvite, Idle
<1>8. QED
  BY <1>1, <1>2, <1>3, <1>4, <1>5, <1>6, <1>7, <1>typ, StepKinds DEF Counts

\* Invitations of an instructor to a course, and who will write one, fit what overlaps.
LEMMA InvitationsKept ==
  ASSUME NoneApart, CatalogueInv, [Next]_vars, overlap' = overlap,
         Next => Within(req')
  PROVE  Invitations'
<1> DEFINE H(c, i) == {x \in Requests : Inviting(req[x], c, i)}
           G(c, i) == {x \in Requests : Inviting(req'[x], c, i)}
           N(c, i) == Cardinality(InvitesOf(invites, c, i))
           M(c, i) == Cardinality(InvitesOf(invites', c, i))
<1>typ. IInv /\ overlap \in Nat /\ invites \in [InviteId -> Invitation \cup {None}]
  BY DEF CatalogueInv, IInv
<1>fit. \A c \in CourseId, i \in Instructors : Fit(N(c, i), H(c, i))
  BY DEF CatalogueInv, Invitations
<1>fin. ASSUME NEW c, NEW i PROVE IsFiniteSet(InvitesOf(invites, c, i)) /\ N(c, i) \in Nat
  <2>1. IsFiniteSet(InviteId)
    BY PlatformBounds, FS_Interval DEF InviteId
  <2>2. InvitesOf(invites, c, i) \in SUBSET InviteId
    BY DEF InvitesOf
  <2>3. QED  BY <2>1, <2>2, FS_Subset, FS_CardinalityType
<1>less. ASSUME NEW c \in CourseId, NEW i \in Instructors,
                InvitesOf(invites', c, i) = InvitesOf(invites, c, i), G(c, i) \subseteq H(c, i)
         PROVE  Fit(M(c, i), G(c, i))
  <2>1. N(c, i) \in Nat /\ N(c, i) <= N(c, i) /\ M(c, i) = N(c, i)
    BY <1>less, <1>fin
  <2>2. H(c, i) \in SUBSET Requests /\ G(c, i) \in SUBSET H(c, i) /\ Fit(N(c, i), H(c, i))
    BY <1>less, <1>fit
  <2> HIDE DEF H, G, N, M
  <2>3. Fit(N(c, i), G(c, i))
    BY <2>1, <2>2, <1>typ, FitLess
  <2>4. QED  BY <2>3, <2>1
<1>all. ASSUME \A c \in CourseId, i \in Instructors : Fit(M(c, i), G(c, i)) PROVE Invitations'
  BY <1>all DEF Invitations, Fit
<1>none. ASSUME \A c \in CourseId, i \in Instructors : InvitesOf(invites', c, i) = InvitesOf(invites, c, i),
                \A x \in Requests : req'[x] = req[x] \/ req'[x].pc # "inviting"
         PROVE  Invitations'
  <2>1. \A c \in CourseId, i \in Instructors : G(c, i) \subseteq H(c, i)
    BY <1>none DEF Inviting
  <2> HIDE DEF M
  <2>2. \A c \in CourseId, i \in Instructors : Fit(M(c, i), G(c, i))
    BY <1>none, <2>1, <1>less
  <2>3. QED  BY <2>2, <1>all
<1>one. ASSUME NEW r \in Requests, NEW step, Proceed(r, step), step.pc # "inviting", UNCHANGED invites
        PROVE  Invitations'
  <2>1. \A x \in Requests : req'[x] = req[x] \/ req'[x].pc # "inviting"
    BY <1>one, <1>typ, Proceeding
  <2>2. QED  BY <1>one, <2>1, <1>none
<1>1. ASSUME NEW r \in Requests, NEW d \in CourseId, NEW j \in Instructors, Invite(r, d, j)
      PROVE  Invitations'
  <2> DEFINE step == [pc |-> "inviting", course |-> d, instructor |-> j]
  <2>1. Proceed(r, step) /\ UNCHANGED invites
    BY <1>1 DEF Invite, Start, tables
  <2>2. req'[r] = step /\ \A x \in Requests : x # r => req'[x] = req[x]
    BY <1>typ, <2>1, Proceeding
  <2>3. InvitesOf(invites, d, j) = {}
    BY <1>1 DEF Invite, InvitesOf
  <2>4. Within(req')
    BY <1>1 DEF Next, AssociateStep
  <2>5. Fit(M(d, j), G(d, j))
    <3>1. G(d, j) \in SUBSET Busy(req')
      BY DEF Inviting, Busy
    <3>2. Fit(0, G(d, j))
      BY <3>1, <2>4, <1>typ, FitStarted
    <3>3. M(d, j) = 0
      BY <2>1, <2>3, FS_EmptySet
    <3>4. QED  BY <3>2, <3>3
  <2>6. ASSUME NEW c \in CourseId, NEW i \in Instructors, ~ (c = d /\ i = j)
        PROVE  Fit(M(c, i), G(c, i))
    <3>1. G(c, i) \subseteq H(c, i)
      BY <2>2, <2>6 DEF Inviting
    <3>2. QED  BY <2>1, <3>1, <1>less
  <2> HIDE DEF M, G
  <2>7. QED  BY <2>5, <2>6, <1>all
<1>2. ASSUME NEW r \in Requests, NEW v \in InviteId, CreateInvite(r, v) PROVE Invitations'
  <2> DEFINE d == req[r].course
             j == req[r].instructor
             row == [course |-> d, accepted |-> FALSE, instructor |-> j]
  <2>1. req[r].pc = "inviting" /\ d \in CourseId /\ j \in Instructors
    BY <1>2, <1>typ, HeldFields DEF CreateInvite
  <2>2. invites[v] = None /\ invites' = [invites EXCEPT ![v] = row]
    BY <1>2 DEF CreateInvite, NextId
  <2>3. req'[r] = Idle /\ \A x \in Requests : x # r => req'[x] = req[x]
    BY <1>2, <1>typ, Proceeding DEF CreateInvite
  <2>4. \A c \in CourseId, i \in Instructors : G(c, i) \subseteq H(c, i) \ {r}
    BY <2>3 DEF Inviting, Idle
  <2>5. row \in Invitation /\ row.course = d /\ row.instructor = j /\ row # None
    <3>1. row \in Invitation
      BY <2>1 DEF Invitation
    <3>2. QED  BY <3>1 DEF NoneApart
  <2>6. InvitesOf(invites', d, j) = InvitesOf(invites, d, j) \cup {v}
    BY <2>2, <2>5, <1>typ DEF InvitesOf
  <2>7. M(d, j) = N(d, j) + 1 /\ M(d, j) \in Nat
    <3>1. v \notin InvitesOf(invites, d, j)
      BY <2>2 DEF InvitesOf
    <3>2. QED  BY <2>6, <3>1, <1>fin, FS_AddElement
  <2>8. Fit(M(d, j), G(d, j))
    <3>1. r \in H(d, j) /\ H(d, j) \in SUBSET Requests /\ G(d, j) \in SUBSET (H(d, j) \ {r})
          /\ Fit(N(d, j), H(d, j))
      BY <2>1, <2>4, <1>fit DEF Inviting
    <3>2. N(d, j) \in Nat /\ M(d, j) <= N(d, j) + 1
      BY <1>fin, <2>7
    <3> HIDE DEF H, G, N, M
    <3>3. QED  BY <3>1, <3>2, <2>7, <1>typ, FitWritten
  <2>9. ASSUME NEW c \in CourseId, NEW i \in Instructors, ~ (c = d /\ i = j)
        PROVE  Fit(M(c, i), G(c, i))
    <3>1. InvitesOf(invites', c, i) = InvitesOf(invites, c, i)
      BY <2>2, <2>5, <2>9, <1>typ DEF InvitesOf
    <3>2. QED  BY <3>1, <2>4, <1>less
  <2> HIDE DEF M, G
  <2>10. QED  BY <2>8, <2>9, <1>all
<1>3. CASE Quiet
  BY <1>3, <1>none DEF Quiet, Counting
<1>4. ASSUME NEW r \in Requests, SetPublished(r) PROVE Invitations'
  <2>1. req[r] \in Request /\ req[r].pc = "publishing"
    BY <1>4, <1>typ DEF SetPublished, IInv
  <2>2. req[r] \in [pc : {"publishing", "rewarding"}, course : CourseId]
    BY <2>1 DEF Request, Idle
  <2>3. [req[r] EXCEPT !.pc = "rewarding"].pc = "rewarding"
    BY <2>2
  <2>4. QED  BY <1>4, <2>3, <1>one DEF SetPublished
<1>5. ASSUME NEW r \in Requests, NEW s \in Students, NEW c \in CourseId, CheckReview(r, s, c)
      PROVE  Invitations'
  BY <1>5, <1>one DEF CheckReview, Start, tables
<1>6. ASSUME NEW r \in Requests, NEW c \in CourseId, NEW i \in Instructors, PublishCourse(r, c, i)
      PROVE  Invitations'
  BY <1>6, <1>one DEF PublishCourse, Start, tables
<1>7. ASSUME NEW r \in Requests, CreateReview(r) \/ GiveReward(r) PROVE Invitations'
  BY <1>7, <1>one DEF CreateReview, GiveReward, Idle
<1>8. QED
  BY <1>1, <1>2, <1>3, <1>4, <1>5, <1>6, <1>7, <1>typ, StepKinds DEF Counts

-----------------------------------------------------------------------------
\* No bundle is lost, so that the bundle that a handler holds is there.
LEMMA BundlesKept ==
  ASSUME NoneApart, CatalogueInv, [Next]_vars
  PROVE  Bundles'
<1>typ. IInv /\ bundles \in [BundleId -> BundleRow \cup {None}] /\ None \notin BundleRow
  BY NoneIsNoRow DEF CatalogueInv, Bundles, BundleRow
<1>held. \A x \in Requests : req[x].pc \in {"bundling", "unbundling"} =>
           req[x].bundle \in BundleId /\ bundles[req[x].bundle] # None
  <2>1. ASSUME NEW x \in Requests, req[x].pc \in {"bundling", "unbundling"}
        PROVE  req[x].bundle \in BundleId
    <3>1. req[x] \in Request
      BY <1>typ DEF IInv
    <3>2. QED  BY <2>1, <3>1 DEF Request, Idle
  <2>2. QED  BY <2>1 DEF CatalogueInv, Bundles
\* Bundles stay, and handlers hold what they did or what they found.
<1>keep. ASSUME bundles' \in [BundleId -> BundleRow \cup {None}],
                \A b \in BundleId : bundles[b] # None => bundles'[b] # None,
                \A x \in Requests :
                  \/ req'[x] = req[x]
                  \/ req'[x].pc \in {"bundling", "unbundling"} => bundles'[req'[x].bundle] # None
         PROVE  Bundles'
  BY <1>keep, <1>held DEF Bundles
<1>one. ASSUME NEW r \in Requests, NEW step, Proceed(r, step), UNCHANGED bundles,
               step.pc \in {"bundling", "unbundling"} => bundles[step.bundle] # None
        PROVE  Bundles'
  BY <1>one, <1>typ, <1>keep, Proceeding
<1>none. ASSUME UNCHANGED <<bundles, req>> PROVE Bundles'
  BY <1>none, <1>typ, <1>keep
\* One row changes.
<1>row. ASSUME NEW b \in BundleId, NEW row \in BundleRow, bundles' = [bundles EXCEPT ![b] = row]
        PROVE  /\ bundles' \in [BundleId -> BundleRow \cup {None}]
               /\ \A d \in BundleId : bundles[d] # None => bundles'[d] # None
  BY <1>row, <1>typ
<1>1. ASSUME NEW b \in BundleId, NEW i \in Instructors, NEW new \in SUBSET CourseId,
             CreateBundle(b, i, new)
      PROVE  Bundles'
  <2>1. [instructor |-> i, deleted |-> FALSE] \in BundleRow
    BY DEF BundleRow
  <2>2. QED  BY <1>1, <2>1, <1>row, <1>keep DEF CreateBundle
<1>2. ASSUME NEW b \in BundleId, NEW i \in Instructors, TakeBundle(b, i) PROVE Bundles'
  <2> DEFINE row == [bundles[b] EXCEPT !.instructor = i]
  <2>1. bundles[b] \in BundleRow
    BY <1>2, <1>typ DEF TakeBundle
  <2>2. row \in BundleRow
    BY <2>1 DEF BundleRow
  <2>3. bundles' = [bundles EXCEPT ![b] = row] /\ UNCHANGED req
    BY <1>2, <1>typ DEF TakeBundle
  <2>4. QED  BY <2>2, <2>3, <1>row, <1>keep
<1>3. ASSUME NEW r \in Requests, UpdateBundle(r) PROVE Bundles'
  <2> DEFINE b == req[r].bundle
             i == req[r].instructor
             row == [bundles[b] EXCEPT !.instructor = i]
  <2>1. req[r] \in Request /\ req[r].pc = "bundling"
    BY <1>3, <1>typ DEF UpdateBundle, IInv
  <2>2. i \in Instructors
    BY <2>1 DEF Request, Idle
  <2>3. b \in BundleId /\ bundles[b] \in BundleRow
    BY <2>1, <1>held, <1>typ
  <2>4. row \in BundleRow
    BY <2>2, <2>3 DEF BundleRow
  <2>5. bundles' = [bundles EXCEPT ![b] = row] /\ Proceed(r, Idle)
    BY <1>3, <1>typ DEF UpdateBundle
  <2>6. \A x \in Requests : req'[x] = req[x] \/ req'[x].pc \notin {"bundling", "unbundling"}
    BY <2>5, <1>typ, Proceeding DEF Idle
  <2>7. QED  BY <2>3, <2>4, <2>5, <2>6, <1>row, <1>keep
<1>4. ASSUME NEW r \in Requests, DeleteBundle(r) PROVE Bundles'
  <2> DEFINE b == req[r].bundle
             row == [bundles[b] EXCEPT !.deleted = TRUE]
  <2>1. b \in BundleId /\ bundles[b] \in BundleRow
    BY <1>4, <1>held, <1>typ DEF DeleteBundle
  <2>2. row \in BundleRow
    BY <2>1 DEF BundleRow
  <2>3. bundles' = [bundles EXCEPT ![b] = row] /\ Proceed(r, Idle)
    BY <1>4, <1>typ DEF DeleteBundle
  <2>4. \A x \in Requests : req'[x] = req[x] \/ req'[x].pc \notin {"bundling", "unbundling"}
    BY <2>3, <1>typ, Proceeding DEF Idle
  <2>5. QED  BY <2>1, <2>2, <2>3, <2>4, <1>row, <1>keep
<1>5. ASSUME NEW r \in Requests, NEW b \in BundleId, NEW i \in Instructors,
             FindBundle(r, b, i) \/ \E new \in SUBSET CourseId : FindBundleCourses(r, b, i, new)
      PROVE  Bundles'
  <2>1. CASE FindBundle(r, b, i)
    BY <2>1, <1>one DEF FindBundle, OrderableBundles, Start, tables
  <2>2. ASSUME NEW new \in SUBSET CourseId, FindBundleCourses(r, b, i, new) PROVE Bundles'
    BY <2>2, <1>one DEF FindBundleCourses, Start, tables
  <2>3. QED  BY <1>5, <2>1, <2>2
<1>6. ASSUME NEW r \in Requests,
             \/ GiveReward(r) \/ AnswerPopular(r) \/ CreateAssociate(r) \/ CreateReview(r) \/ Fail(r)
             \/ \E v \in InviteId : CreateInvite(r, v)
      PROVE  Bundles'
  <2>1. Proceed(r, Idle) /\ UNCHANGED bundles
    BY <1>6 DEF GiveReward, AnswerPopular, CreateAssociate, CreateReview, Fail, CreateInvite, tables
  <2>2. QED  BY <2>1, <1>one DEF Idle
<1>7. ASSUME NEW r \in Requests, SetPublished(r) \/ MarkAccepted(r) PROVE Bundles'
  <2>1. req[r] \in Request /\ req[r].pc \in {"publishing", "accepting"}
    BY <1>7, <1>typ DEF SetPublished, MarkAccepted, IInv
  <2>2. req[r] \in [pc : {"publishing", "rewarding"}, course : CourseId]
                   \cup [pc : {"accepting", "associating"}, invite : InviteId]
    BY <2>1 DEF Request, Idle
  <2>3. /\ [req[r] EXCEPT !.pc = "rewarding"].pc = "rewarding"
        /\ [req[r] EXCEPT !.pc = "associating"].pc = "associating"
    BY <2>2
  <2>4. QED  BY <1>7, <2>3, <1>one DEF SetPublished, MarkAccepted
<1>8. CASE CourseStep
  <2>1. ASSUME NEW c \in CourseId, NEW i \in Instructors,
               \/ \E org, free \in BOOLEAN : CreateCourse(c, i, org, free)
               \/ \E billing \in {None, "Free", "Paid"}, priced \in BOOLEAN :
                    UpdateCourse(c, i, billing, priced)
        PROVE  Bundles'
    BY <2>1, <1>none DEF CreateCourse, UpdateCourse
  <2>2. ASSUME NEW c \in CourseId, NEW approved \in BOOLEAN, Approve(c, approved) PROVE Bundles'
    BY <2>2, <1>none DEF Approve
  <2>3. ASSUME NEW r \in Requests, NEW c \in CourseId, NEW i \in Instructors, PublishCourse(r, c, i)
        PROVE  Bundles'
    BY <2>3, <1>one DEF PublishCourse, Start, tables
  <2>4. ASSUME NEW r \in Requests, ChoosePopular(r) PROVE Bundles'
    BY <2>4, <1>one DEF ChoosePopular, Start, tables
  <2>5. QED  BY <1>8, <2>1, <2>2, <2>3, <2>4, <1>6, <1>7 DEF CourseStep
<1>9. CASE AssociateStep
  <2>1. ASSUME NEW r \in Requests, NEW c \in CourseId, NEW j \in Instructors, Invite(r, c, j)
        PROVE  Bundles'
    BY <2>1, <1>one DEF Invite, Start, tables
  <2>2. ASSUME NEW r \in Requests, NEW v \in InviteId, AcceptInvite(r, v) PROVE Bundles'
    BY <2>2, <1>one DEF AcceptInvite, Start, tables
  <2>3. QED  BY <1>9, <2>1, <2>2, <1>6, <1>7 DEF AssociateStep
<1>10. CASE BundleStep
  BY <1>10, <1>1, <1>2, <1>3, <1>4, <1>5 DEF BundleStep
<1>11. CASE StudentStep
  <2>1. ASSUME NEW s \in Students, NEW bought \in SUBSET CourseId, Enroll(s, bought) PROVE Bundles'
    BY <2>1, <1>none DEF Enroll
  <2>2. ASSUME NEW r \in Requests, NEW s \in Students, NEW c \in CourseId, CheckReview(r, s, c)
        PROVE  Bundles'
    BY <2>2, <1>one DEF CheckReview, Start, tables
  <2>3. QED  BY <1>11, <2>1, <2>2, <1>6 DEF StudentStep
<1>12. CASE UNCHANGED vars
  BY <1>12, <1>none DEF vars, tables
<1>13. QED  BY <1>8, <1>9, <1>10, <1>11, <1>12, <1>6 DEF Next

\* Only orders enroll, in courses that are there.
LEMMA EnrolledKept ==
  ASSUME enrolled \subseteq Students \X CourseId, [Next]_vars
  PROVE  enrolled' \subseteq Students \X CourseId
<1>1. ASSUME NEW s \in Students, NEW bought \in SUBSET CourseId, Enroll(s, bought)
      PROVE  enrolled' \subseteq Students \X CourseId
  BY <1>1 DEF Enroll
<1>2. UNCHANGED enrolled \/ \E s \in Students, bought \in SUBSET CourseId : Enroll(s, bought)
  BY DEF Next, vars, tables, CourseStep, AssociateStep, BundleStep, StudentStep,
     CreateCourse, UpdateCourse, SetPublished, Approve, UpdateBundle, CreateBundle,
     PublishCourse, GiveReward, ChoosePopular, AnswerPopular, Invite, CreateInvite, AcceptInvite,
     MarkAccepted, CreateAssociate, FindBundleCourses, TakeBundle, FindBundle, DeleteBundle,
     CheckReview, CreateReview, Fail
<1>3. QED  BY <1>1, <1>2

-----------------------------------------------------------------------------
\* None is apart from courses, invitations and instructors.
LEMMA NoneIsApart == NoneApart
  BY NoneIsNoRow DEF NoneApart, Invitation

\* At first there is nothing.
LEMMA InitCatalogue == PlatformInit => CatalogueInv
<1> SUFFICES ASSUME PlatformInit PROVE CatalogueInv
  OBVIOUS
<1>1. Init /\ overlap \in Nat /\ overlap >= 1
  <2>1. Cardinality(Requests) \in Nat
    BY HandlersAssumption, FS_CardinalityType
  <2>2. QED  BY <2>1 DEF PlatformInit
<1>2. \A r \in Requests : req[r] = [pc |-> "idle"]
  BY <1>1 DEF Init, Idle
<1>fit. ASSUME NEW S, S = {} PROVE Fit(0, S)
  BY <1>fit, <1>1, FS_EmptySet DEF Fit
<1>3. Reviews
  <2>1. \A s \in Students, c \in CourseId :
          reviews[s][c] = 0 /\ {r \in Requests : Reviewing(req[r], s, c)} = {}
    BY <1>1, <1>2 DEF Init, Reviewing
  <2>2. reviews \in [Students -> [CourseId -> 0 .. MaxReview]]
    BY <1>1, PlatformBounds DEF Init
  <2>3. QED  BY <2>1, <2>2, <1>fit DEF Reviews
<1>4. Publications
  <2>1. \A c \in CourseId : rewarded[c] = 0 /\ {r \in Requests : Publishing(req[r], c)} = {}
    BY <1>1, <1>2 DEF Init, Publishing
  <2>2. rewarded \in [CourseId -> 0 .. MaxReview]
    BY <1>1, PlatformBounds DEF Init
  <2>3. \A c \in CourseId :
          Fit(rewarded[c], {r \in Requests : Publishing(req[r], c)}) /\ ~ (rewarded[c] > 0)
    BY <2>1, <1>fit
  <2>4. QED  BY <2>2, <2>3, <1>2 DEF Publications
<1>5. Invitations
  <2>1. \A c \in CourseId, i \in Instructors :
          InvitesOf(invites, c, i) = {} /\ {r \in Requests : Inviting(req[r], c, i)} = {}
    BY <1>1, <1>2 DEF Init, InvitesOf, Inviting
  <2>2. QED  BY <2>1, <1>fit, FS_EmptySet DEF Invitations
<1>6. Bundles
  BY <1>1, <1>2 DEF Init, Bundles
<1>7. QED  BY <1>1, <1>3, <1>4, <1>5, <1>6, InitIInv DEF Init, CatalogueInv

\* Of the catalogue every step is its own, with as many handlers as overlap, or none.
LEMMA CatalogueSteps ==
  ASSUME [PlatformNext]_platform
  PROVE  [Next]_vars /\ overlap' = overlap /\ (Within(req') \/ UNCHANGED vars)
  BY DEF PlatformNext, platform, LectureStep, CatalogueStep, CommunityStep, SupportStep,
     StoreStep, NoticeStep, RewardStep, PricingStep, UploadStep, AccountStep

\* Every step keeps the invariant.
LEMMA NextCatalogue == CatalogueInv /\ [PlatformNext]_platform => CatalogueInv'
<1> SUFFICES ASSUME CatalogueInv, [PlatformNext]_platform PROVE CatalogueInv'
  OBVIOUS
<1>1. NoneApart /\ [Next]_vars /\ overlap' = overlap
  BY NoneIsApart, CatalogueSteps
<1>2. IInv' /\ Bundles' /\ enrolled' \subseteq Students \X CourseId /\ overlap' \in Nat
  BY <1>1, NextIInv, BundlesKept, EnrolledKept DEF CatalogueInv
<1>3. CASE Within(req')
  BY <1>1, <1>2, <1>3, ReviewsKept, PublicationsKept, InvitationsKept DEF CatalogueInv
<1>4. CASE UNCHANGED vars
  BY <1>1, <1>2, <1>4 DEF vars, tables, CatalogueInv, Reviews, Publications, Invitations, Fit
<1>5. QED  BY <1>3, <1>4, CatalogueSteps

\* The invariant holds in every behaviour of the platform.
THEOREM CatalogueInvariant == PlatformSpec => []CatalogueInv
  BY InitCatalogue, NextCatalogue, PTL DEF PlatformSpec

\* Courses, bundles, invitations, associates, enrollments, reviews and rewards keep their
\* shapes, and so does what handlers hold.
LEMMA CatalogueTypeCorrect == PlatformSpec => []TypeOK
<1>1. CatalogueInv => associates \subseteq CourseId \X Instructors
  BY DEF CatalogueInv, IInv, AssociatesAccepted, Invitation
<1>2. CatalogueInv => TypeOK
  BY <1>1 DEF CatalogueInv, TypeOK, IInv, Reviews, Publications, Bundles, BundleRow, Invitation
<1>3. QED  BY CatalogueInvariant, <1>2, PTL

\* Who is an associate of a course has accepted an invitation to it, whatever handlers
\* overlap and wherever one of them fails.
THEOREM AssociatesHaveAccepted == PlatformSpec => []AssociatesAccepted
<1>1. CatalogueInv => AssociatesAccepted
  BY DEF CatalogueInv, IInv
<1>2. QED  BY CatalogueInvariant, <1>1, PTL

\* The courses that anybody is shown, those that were chosen a while ago included, and the
\* courses of bundles have an instructor.
THEOREM ShownHaveInstructor == PlatformSpec => []CoursesHaveInstructor
<1>1. ASSUME IInv PROVE ListedHaveInstructor
  <2>1. ASSUME NEW c \in ListedPublic PROVE courses[c].owner \in Instructors
    BY <1>1, <2>1 DEF ListedPublic, Public, Existing, IInv, Instructed, HasInstructor
  <2>2. ASSUME NEW r \in Requests, req[r].pc = "popular", NEW c \in req[r].chosen
        PROVE  courses[c].owner \in Instructors
    BY <1>1, <2>2 DEF IInv, Holding, HasInstructor
  <2>3. QED  BY <2>1, <2>2, NoneIsApart DEF ListedHaveInstructor, NoneApart
<1>2. ASSUME IInv PROVE BundledAreOwned
  BY <1>2, NoneIsApart DEF IInv, Instructed, HasInstructor, BundledAreOwned, Existing, NoneApart
<1>3. CatalogueInv => CoursesHaveInstructor
  BY <1>1, <1>2 DEF CatalogueInv, CoursesHaveInstructor
<1>4. QED  BY CatalogueInvariant, <1>3, PTL

\* Reviews, rewards for publishing and invitations are at most as many as handlers overlap.
LEMMA RowsAreWithin == PlatformSpec => []RowsWithin(overlap)
<1>1. ASSUME CatalogueInv PROVE RowsWithin(overlap)
  <2>1. ASSUME NEW s \in Students, NEW c \in CourseId PROVE reviews[s][c] <= overlap
    <3>1. reviews \in [Students -> [CourseId -> 0 .. MaxReview]] /\ overlap \in Nat
          /\ Fit(reviews[s][c], {r \in Requests : Reviewing(req[r], s, c)})
      BY <1>1 DEF CatalogueInv, Reviews
    <3>2. reviews[s][c] \in Nat
      BY <3>1
    <3>3. QED  BY <3>1, <3>2, FitRows
  <2>2. ASSUME NEW c \in CourseId PROVE rewarded[c] <= overlap
    <3>1. rewarded[c] \in Nat /\ overlap \in Nat
          /\ Fit(rewarded[c], {r \in Requests : Publishing(req[r], c)})
      BY <1>1 DEF CatalogueInv, Publications
    <3>2. QED  BY <3>1, FitRows
  <2>3. ASSUME NEW c \in CourseId, NEW i \in Instructors
        PROVE  Cardinality(InvitesOf(invites, c, i)) <= overlap
    <3>1. IsFiniteSet(InviteId) /\ InvitesOf(invites, c, i) \in SUBSET InviteId
      BY PlatformBounds, FS_Interval DEF InviteId, InvitesOf
    <3>2. Cardinality(InvitesOf(invites, c, i)) \in Nat
      BY <3>1, FS_Subset, FS_CardinalityType
    <3>3. overlap \in Nat /\ Fit(Cardinality(InvitesOf(invites, c, i)),
                                 {r \in Requests : Inviting(req[r], c, i)})
      BY <1>1 DEF CatalogueInv, Invitations
    <3>4. QED  BY <3>2, <3>3, FitRows
  <2>4. QED  BY <2>1, <2>2, <2>3 DEF RowsWithin, InvitesOf
<1>2. CatalogueInv => RowsWithin(overlap)
  BY <1>1
<1>3. QED  BY CatalogueInvariant, <1>2, PTL
=============================================================================
