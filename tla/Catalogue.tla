------------------------------ MODULE Catalogue ------------------------------
(***************************************************************************)
(* Courses from their creation to what a student finds of them, bundles of *)
(* courses, associated instructors and reviews.  The handlers hold no      *)
(* transaction between the checks they make and what they write.           *)
(***************************************************************************)
EXTENDS Naturals, FiniteSets

CONSTANTS
  Instructors, Members,      \* Members: the instructors of an organization
  Students, Requests, None,
  MaxCourse, MaxBundle, MaxInvite, MaxReview      \* bounds of the model

CourseId == 1 .. MaxCourse
BundleId == 1 .. MaxBundle
InviteId == 1 .. MaxInvite

VARIABLES
  courses,       \* the Course table, by id; bundle is Course.bundleId
  bundles,       \* the Bundle table, by id
  invites,       \* the AssociateInvitation table, by id
  associates,    \* the Associate table: its key is course and instructor
  enrolled,      \* the students with an Enrollment in a course
  reviews,       \* how many Review rows a student has for a course
  rewarded,      \* how often publishing a course gave points
  req

tables == <<courses, bundles, invites, associates, enrolled, reviews, rewarded>>
vars == <<tables, req>>

Idle == [pc |-> "idle"]

Course == [owner : Instructors \cup {None}, organization : BOOLEAN, free : BOOLEAN,
           priced : BOOLEAN, approved : BOOLEAN, published : BOOLEAN,
           bundle : BundleId \cup {None}]

Request ==
  {Idle}
  \cup [pc : {"publishing", "rewarding"}, course : CourseId]
  \cup [pc : {"inviting"}, course : CourseId, instructor : Instructors]
  \cup [pc : {"accepting", "associating"}, invite : InviteId]
  \cup [pc : {"bundling"}, bundle : BundleId, instructor : Instructors,
        old : SUBSET CourseId, new : SUBSET CourseId]
  \cup [pc : {"unbundling"}, bundle : BundleId]
  \cup [pc : {"reviewing"}, student : Students, course : CourseId, exists : BOOLEAN]
  \cup [pc : {"popular"}, chosen : SUBSET CourseId]

TypeOK ==
  /\ courses \in [CourseId -> Course \cup {None}]
  /\ bundles \in [BundleId -> [instructor : Instructors, deleted : BOOLEAN] \cup {None}]
  /\ invites \in [InviteId -> [course : CourseId, instructor : Instructors,
                               accepted : BOOLEAN] \cup {None}]
  /\ associates \subseteq CourseId \X Instructors
  /\ enrolled \subseteq Students \X CourseId
  /\ reviews \in [Students -> [CourseId -> 0 .. MaxReview]]
  /\ rewarded \in [CourseId -> 0 .. MaxReview]
  /\ req \in [Requests -> Request]

Init ==
  /\ courses = [c \in CourseId |-> None]
  /\ bundles = [b \in BundleId |-> None]
  /\ invites = [v \in InviteId |-> None]
  /\ associates = {} /\ enrolled = {}
  /\ reviews = [s \in Students |-> [c \in CourseId |-> 0]]
  /\ rewarded = [c \in CourseId |-> 0]
  /\ req = [r \in Requests |-> Idle]

-----------------------------------------------------------------------------
Proceed(r, step) == req' = [req EXCEPT ![r] = step]

Start(r, step) == req[r].pc = "idle" /\ Proceed(r, step)

\* getCourseById: Course.deleted is never set.
Existing == {c \in CourseId : courses[c] # None}

\* The id that a table hands out next.
NextId(table, id) == table[id] = None /\ \A k \in DOMAIN table : k < id => table[k] # None

-----------------------------------------------------------------------------
(* What is found.                                                           *)

\* getCourseById of the service, for anybody.
Public(c) == c \in Existing /\ courses[c].approved /\ courses[c].published

\* listCourses; the best sellers and the ids for static pages are chosen alike.
ListedPublic == {c \in CourseId : Public(c)}

\* listInstrucorCourses: the owner's and the associate's.
ListedInstructor(i) == {c \in Existing : courses[c].owner = i \/ <<c, i>> \in associates}

\* adminListCourses: what is published, to be approved.
ListedAdmin == {c \in Existing : courses[c].published}

\* listEnrolledCourses asks for no approval.
ListedEnrolled(s) == {c \in Existing : <<s, c>> \in enrolled}

\* getEnrolledCourseDetailsById does.
OpensEnrolled(s, c) == <<s, c>> \in enrolled /\ Public(c)

\* getCoursesByIds: the courses an order may name.
Orderable == ListedPublic

\* getCoursesBundlesByIds: the bundles an order may name, with all of their courses.
OrderableBundles == {b \in BundleId : bundles[b] # None /\ ~ bundles[b].deleted}

CoursesOf(b) == {c \in Existing : courses[c].bundle = b}

\* getPopularCourses selects ids, and then reads the rows of these ids.
ChoosePopular(r) ==
  /\ Start(r, [pc |-> "popular", chosen |-> ListedPublic])
  /\ UNCHANGED tables

AnswerPopular(r) ==
  /\ req[r].pc = "popular"
  /\ Proceed(r, Idle)
  /\ UNCHANGED tables

-----------------------------------------------------------------------------
(* Courses.                                                                 *)

\* A course for the organization has no instructor; any course of a member counts as
\* one of the organization.
CreateCourse(c, i, forOrganization, free) ==
  /\ NextId(courses, c)
  /\ forOrganization => i \in Members
  /\ courses' = [courses EXCEPT ![c] =
       [owner |-> IF forOrganization THEN None ELSE i, organization |-> i \in Members,
        free |-> free, priced |-> ~ free, approved |-> FALSE, published |-> FALSE,
        bundle |-> None]]
  /\ UNCHANGED <<bundles, invites, associates, enrolled, reviews, rewarded, req>>

\* A billing type or a price that is not given stays; Free puts the price to 0.
UpdateCourse(c, i, billing, price) ==
  /\ c \in ListedInstructor(i)
  /\ courses' = [courses EXCEPT ![c].free = IF billing = None THEN @ ELSE billing = "Free",
                                ![c].priced = billing # "Free" /\ (price \/ @)]
  /\ UNCHANGED <<bundles, invites, associates, enrolled, reviews, rewarded, req>>

\* Mutant: a course without an instructor may be published too.
MayPublishAny(c, i) == courses[c].owner \in {i, None}

\* A course without an instructor fails: `exist.instructor.id` of null.
MayPublish(c, i) == courses[c].owner = i

PublishCourse(r, c, i) ==
  /\ c \in Existing /\ MayPublish(c, i) /\ ~ courses[c].published
  /\ Start(r, [pc |-> "publishing", course |-> c])
  /\ UNCHANGED tables

SetPublished(r) ==
  /\ req[r].pc = "publishing"
  /\ courses' = [courses EXCEPT ![req[r].course].published = TRUE]
  /\ Proceed(r, [req[r] EXCEPT !.pc = "rewarding"])
  /\ UNCHANGED <<bundles, invites, associates, enrolled, reviews, rewarded>>

GiveReward(r) ==
  /\ req[r].pc = "rewarding" /\ rewarded[req[r].course] < MaxReview
  /\ rewarded' = [rewarded EXCEPT ![req[r].course] = @ + 1]
  /\ Proceed(r, Idle)
  /\ UNCHANGED <<courses, bundles, invites, associates, enrolled, reviews>>

\* updateCourse of the admin: any course, published or not.
Approve(c, approved) ==
  /\ c \in Existing
  /\ courses' = [courses EXCEPT ![c].approved = approved]
  /\ UNCHANGED <<bundles, invites, associates, enrolled, reviews, rewarded, req>>

-----------------------------------------------------------------------------
(* Associates.                                                              *)

\* getAssociateInviteByCourseAndUser finds none, then the course is read.
Invite(r, c, j) ==
  /\ c \in Existing
  /\ \A v \in InviteId : invites[v] # None => <<invites[v].course, invites[v].instructor>> # <<c, j>>
  /\ Start(r, [pc |-> "inviting", course |-> c, instructor |-> j])
  /\ UNCHANGED tables

CreateInvite(r, v) ==
  /\ req[r].pc = "inviting" /\ NextId(invites, v)
  /\ invites' = [invites EXCEPT ![v] = [course |-> req[r].course, accepted |-> FALSE,
                                        instructor |-> req[r].instructor]]
  /\ Proceed(r, Idle)
  /\ UNCHANGED <<courses, bundles, associates, enrolled, reviews, rewarded>>

AcceptInvite(r, v) ==
  /\ invites[v] # None /\ ~ invites[v].accepted
  /\ Start(r, [pc |-> "accepting", invite |-> v])
  /\ UNCHANGED tables

\* Mutant: the associate is created and the invitation stays open.
LeaveOpen(r) ==
  /\ req[r].pc = "accepting"
  /\ Proceed(r, [req[r] EXCEPT !.pc = "associating"])
  /\ UNCHANGED tables

MarkAccepted(r) ==
  /\ req[r].pc = "accepting"
  /\ invites' = [invites EXCEPT ![req[r].invite].accepted = TRUE]
  /\ Proceed(r, [req[r] EXCEPT !.pc = "associating"])
  /\ UNCHANGED <<courses, bundles, associates, enrolled, reviews, rewarded>>

\* A second row with the key fails.
CreateAssociate(r) ==
  LET v == invites[req[r].invite] IN
  /\ req[r].pc = "associating"
  /\ <<v.course, v.instructor>> \notin associates
  /\ associates' = associates \cup {<<v.course, v.instructor>>}
  /\ Proceed(r, Idle)
  /\ UNCHANGED <<courses, bundles, invites, enrolled, reviews, rewarded>>

-----------------------------------------------------------------------------
(* Bundles.                                                                 *)

\* getCoursesByIdsAndInstructor, whatever else was asked for.
Owned(i) == {c \in Existing : courses[c].owner = i}

Bundleable(i) == Owned(i)

Bundled(new, b) == [c \in CourseId |-> IF c \in new THEN [courses[c] EXCEPT !.bundle = b]
                                       ELSE courses[c]]

\* A course has one bundle: it is taken from the one it was in.
CreateBundle(b, i, new) ==
  /\ NextId(bundles, b)
  /\ new \subseteq Bundleable(i) /\ Cardinality(new) >= 2
  /\ bundles' = [bundles EXCEPT ![b] = [instructor |-> i, deleted |-> FALSE]]
  /\ courses' = Bundled(new, b)
  /\ UNCHANGED <<invites, associates, enrolled, reviews, rewarded, req>>

\* updateBundle refuses more than two, and asks neither whose the bundle is nor
\* whether it was deleted; then it reads the courses to disconnect.
FindBundleCourses(r, b, i, new) ==
  /\ bundles[b] # None
  /\ new \subseteq Bundleable(i) /\ Cardinality(new) <= 2
  /\ Start(r, [pc |-> "bundling", bundle |-> b, instructor |-> i,
               old |-> CoursesOf(b), new |-> new])
  /\ UNCHANGED tables

UpdateBundle(r) ==
  LET q == req[r]
      left == [c \in CourseId |->
                 IF c \in q.old \cap CoursesOf(q.bundle)
                 THEN [courses[c] EXCEPT !.bundle = None] ELSE courses[c]]
  IN
  /\ q.pc = "bundling"
  /\ bundles' = [bundles EXCEPT ![q.bundle].instructor = q.instructor]
  /\ courses' = [c \in CourseId |-> IF c \in q.new THEN [left[c] EXCEPT !.bundle = q.bundle]
                                    ELSE left[c]]
  /\ Proceed(r, Idle)
  /\ UNCHANGED <<invites, associates, enrolled, reviews, rewarded>>

\* An update that names no courses: the bundle becomes the caller's.
TakeBundle(b, i) ==
  /\ bundles[b] # None
  /\ bundles' = [bundles EXCEPT ![b].instructor = i]
  /\ UNCHANGED <<courses, invites, associates, enrolled, reviews, rewarded, req>>

FindBundle(r, b, i) ==
  /\ b \in OrderableBundles /\ bundles[b].instructor = i
  /\ Start(r, [pc |-> "unbundling", bundle |-> b])
  /\ UNCHANGED tables

\* A soft deletion: its courses keep naming it.
DeleteBundle(r) ==
  /\ req[r].pc = "unbundling"
  /\ bundles' = [bundles EXCEPT ![req[r].bundle].deleted = TRUE]
  /\ Proceed(r, Idle)
  /\ UNCHANGED <<courses, invites, associates, enrolled, reviews, rewarded>>

-----------------------------------------------------------------------------
(* Enrollments and reviews.                                                 *)

\* An order is executed for the courses and bundles that could be ordered.
Enroll(s, bought) ==
  /\ bought \subseteq Orderable \/ \E b \in OrderableBundles : bought = CoursesOf(b)
  /\ enrolled' = enrolled \cup ({s} \X bought)
  /\ UNCHANGED <<courses, bundles, invites, associates, reviews, rewarded, req>>

\* Mutant: a review that exists is not found.
ReviewedNever(s, c) == FALSE

\* getCourseReview of the student.
Reviewed(s, c) == reviews[s][c] > 0

\* The enrollment is read after the review; enrollments stay.
CheckReview(r, s, c) ==
  /\ <<s, c>> \in enrolled
  /\ Start(r, [pc |-> "reviewing", student |-> s, course |-> c, exists |-> Reviewed(s, c)])
  /\ UNCHANGED tables

\* upsert by the id that was found; the points of a review are given each time.
CreateReview(r) ==
  LET q == req[r] IN
  /\ q.pc = "reviewing"
  /\ q.exists \/ reviews[q.student][q.course] < MaxReview
  /\ reviews' = IF q.exists THEN reviews
                ELSE [reviews EXCEPT ![q.student][q.course] = @ + 1]
  /\ Proceed(r, Idle)
  /\ UNCHANGED <<courses, bundles, invites, associates, enrolled, rewarded>>

\* A check or a query fails, or the process stops: what was written stays.
Fail(r) ==
  /\ req[r].pc # "idle"
  /\ Proceed(r, Idle)
  /\ UNCHANGED tables

CourseStep ==
  \/ \E c \in CourseId, i \in Instructors :
       \/ \E org, free \in BOOLEAN : CreateCourse(c, i, org, free)
       \/ \E billing \in {None, "Free", "Paid"}, price \in BOOLEAN : UpdateCourse(c, i, billing, price)
       \/ \E r \in Requests : PublishCourse(r, c, i)
  \/ \E r \in Requests : SetPublished(r) \/ GiveReward(r) \/ ChoosePopular(r) \/ AnswerPopular(r)
  \/ \E c \in CourseId, approved \in BOOLEAN : Approve(c, approved)

AssociateStep ==
  \E r \in Requests :
    \/ \E c \in CourseId, j \in Instructors : Invite(r, c, j)
    \/ \E v \in InviteId : CreateInvite(r, v) \/ AcceptInvite(r, v)
    \/ MarkAccepted(r) \/ CreateAssociate(r)

BundleStep ==
  \/ \E b \in BundleId, i \in Instructors :
       \/ \E new \in SUBSET CourseId :
            CreateBundle(b, i, new) \/ \E r \in Requests : FindBundleCourses(r, b, i, new)
       \/ TakeBundle(b, i)
       \/ \E r \in Requests : FindBundle(r, b, i)
  \/ \E r \in Requests : UpdateBundle(r) \/ DeleteBundle(r)

StudentStep ==
  \E s \in Students :
    \/ \E bought \in SUBSET CourseId : Enroll(s, bought)
    \/ \E r \in Requests : (\E c \in CourseId : CheckReview(r, s, c)) \/ CreateReview(r)

Next ==
  \/ CourseStep \/ AssociateStep \/ BundleStep \/ StudentStep
  \/ \E r \in Requests : Fail(r)

Spec == Init /\ [][Next]_vars

-----------------------------------------------------------------------------
\* The public listings, and the popular courses even when they are read again after an
\* approval was withdrawn, show only courses that have an instructor: they read the
\* instructor's picture without asking.
ListedHaveInstructor ==
  \A c \in ListedPublic \cup UNION {req[r].chosen : r \in {q \in Requests : req[q].pc = "popular"}} :
    courses[c].owner # None

\* An associate has accepted an invitation to the course (the invitation is marked
\* before the associate is created, so a failure between leaves none without it).
AssociatesAccepted ==
  \A a \in associates : \E v \in InviteId :
    /\ invites[v] # None /\ invites[v].accepted
    /\ <<invites[v].course, invites[v].instructor>> = a

\* A bundle holds only courses that have an instructor: whose courses it holds is whose
\* sales its statements are.
BundledAreOwned == \A c \in Existing : courses[c].bundle # None => courses[c].owner # None

CoursesHaveInstructor == ListedHaveInstructor /\ BundledAreOwned

\* With `overlap` handlers at a time there are never more than `overlap` reviews of one
\* course by one student, invitations of one instructor to one course, or rewards for
\* publishing a course: each handler looks before it creates.
RowsWithin(overlap) ==
  /\ \A s \in Students, c \in CourseId : reviews[s][c] <= overlap
  /\ \A c \in CourseId : rewarded[c] <= overlap
  /\ \A c \in CourseId, i \in Instructors :
       Cardinality({v \in InviteId : invites[v] # None /\ invites[v].course = c
                                     /\ invites[v].instructor = i}) <= overlap
=============================================================================
