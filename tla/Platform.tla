------------------------------ MODULE Platform ------------------------------
(***************************************************************************)
(* The components beside orders, payouts and learning, side by side.  They *)
(* share no tables in what is stated of them here, and each has handlers   *)
(* of its own, `overlap` of them in flight at a time at most.  The courses *)
(* are there by EXTENDS, the others by INSTANCE.                           *)
(***************************************************************************)
EXTENDS Integers, Sequences, Catalogue

CONSTANTS
  Users, Courses,
  InstructorOf,                             \* Course.instructorId, or None
  CourseOf, MaxGroup, MaxIndex, PageSize,                          \* Lectures
  MaxPost, MaxComment, MaxFeedback,                                \* Community
  MaxTicket,                                                       \* Support
  MaxProduct, MaxStoreOrder,                                       \* Store
  Tokens, Window, MaxDevice, MaxNotice,                            \* Notices
  Rules, MaxPoints, MaxEarned, MaxRate,                            \* Rewards
  SoldCourses, SoldProducts, SoldBundles,                          \* Pricing
  Prices, Flats, Percentages, MaxMonths,
  Keys, MaxRows,                                                   \* Uploads
  Names, FacebookIds, Organizations, MaxUser                       \* Accounts

VARIABLES
  overlap,
  groups, lectures, deleting, completed, lectureReq,               \* Lectures
  posts, comments, feedbacks, forumReq,                            \* Community
  tickets, ticketComments, ticketReq,                              \* Support
  products, orders, productReviews, shopReq,                       \* Store
  devices, enrollments, notices, noticeReq,                        \* Notices
  rules, asked, earned, rate, rewardReq,                           \* Rewards
  price, monthly, empty, order, linked, statements,                \* Pricing
  objects, rows, failed, doomed, fileReq,                          \* Uploads
  users, accountReq                                                \* Accounts

lectureVars == <<groups, lectures, deleting, completed, lectureReq>>
communityVars == <<posts, comments, feedbacks, forumReq>>
supportVars == <<tickets, ticketComments, ticketReq>>
storeVars == <<products, orders, productReviews, shopReq>>
noticeVars == <<devices, enrollments, notices, noticeReq>>
rewardVars == <<rules, asked, earned, rate, rewardReq>>
pricingVars == <<price, monthly, empty, order, linked, statements>>
uploadVars == <<objects, rows, failed, doomed, fileReq>>
accountVars == <<users, accountReq>>

platform ==
  <<overlap, lectureVars, vars, communityVars, supportVars, storeVars, noticeVars,
    rewardVars, pricingVars, uploadVars, accountVars>>

-----------------------------------------------------------------------------
Lecture == INSTANCE Lectures WITH req <- lectureReq

Forum == INSTANCE Community WITH Users <- Students, req <- forumReq

Ticket == INSTANCE Support WITH comments <- ticketComments, req <- ticketReq

Shop == INSTANCE Store WITH Users <- Students, reviews <- productReviews, req <- shopReq

Notice == INSTANCE Notices WITH enrolled <- enrollments, req <- noticeReq

Reward == INSTANCE Rewards WITH Users <- Students, req <- rewardReq

Sale == INSTANCE Pricing
  WITH Courses <- SoldCourses, Products <- SoldProducts, Bundles <- SoldBundles

File == INSTANCE Uploads WITH req <- fileReq

Account == INSTANCE Accounts WITH req <- accountReq

\* The bounds are numbers.
ASSUME PlatformBounds ==
  /\ MaxCourse \in Nat /\ MaxBundle \in Nat /\ MaxInvite \in Nat /\ MaxReview \in Nat
  /\ MaxGroup \in Nat /\ MaxIndex \in Nat /\ PageSize \in Nat \ {0}
  /\ MaxPost \in Nat /\ MaxComment \in Nat /\ MaxFeedback \in Nat /\ MaxTicket \in Nat
  /\ MaxProduct \in Nat /\ MaxStoreOrder \in Nat
  /\ Window \in Nat /\ MaxDevice \in Nat /\ MaxNotice \in Nat
  /\ MaxPoints \in Nat /\ MaxEarned \in Nat /\ MaxRate \in Nat
  /\ MaxRows \in Nat /\ MaxUser \in Nat

ASSUME HandlersAssumption == IsFiniteSet(Requests)

\* None is no row, and nothing a row refers to.
ASSUME NoneIsNoRow ==
  /\ None \notin Course /\ None \notin Instructors
  /\ None \notin [course : CourseId, instructor : Instructors, accepted : BOOLEAN]
  /\ None \notin [instructor : Instructors, deleted : BOOLEAN]
  /\ None \notin Students /\ None \notin Forum!Thread \cup Forum!Blog
  /\ None \notin [post : Forum!PostId, user : Students]
  /\ None \notin Courses /\ None \notin Ticket!Ticket
  /\ None \notin Shop!Product /\ None \notin Shop!StoreOrder
  /\ None \notin Notice!Notice /\ None \notin Reward!Rule
  /\ None \notin [course : Lecture!TaughtCourses, index : Int] /\ None \notin Lecture!GroupId
  /\ None \notin Account!User /\ None \notin FacebookIds

\* The ids that Facebook gives may be usernames.
ASSUME FacebookAssumption == FacebookIds \subseteq Names

\* The lectures that are seeded: ids are numbers, and their courses' groups are too.
ASSUME SeededLectures ==
  /\ IsFiniteSet(Lecture!Lectures) /\ Lecture!Lectures \subseteq Nat
  /\ Cardinality(Lecture!Lectures) <= MaxIndex
  /\ Lecture!TaughtCourses \subseteq Lecture!GroupId

\* What is sold: finitely many things, each of one kind, at whole prices.
ASSUME SoldThings ==
  /\ IsFiniteSet(Sale!Items)
  /\ SoldCourses \cap SoldProducts = {} /\ SoldBundles \cap (SoldCourses \cup SoldProducts) = {}
  /\ Prices \subseteq Int /\ Flats \subseteq Int /\ Percentages \subseteq Int
  /\ MaxMonths \in Nat
  /\ None \notin [meta : UNION {[is -> Sale!Meta] : is \in SUBSET Sale!Items},
                  coupon : Sale!Coupon \cup {None}, amount : Int,
                  status : {"Pending", "Completed"}]

-----------------------------------------------------------------------------
PlatformInit ==
  /\ overlap \in 1 .. Cardinality(Requests)
  /\ Lecture!Init /\ Init /\ Forum!Init /\ Ticket!Init /\ Shop!Init /\ Notice!Init
  /\ Reward!Init /\ Sale!Init /\ File!Init /\ Account!Init

Busy(handlers) == {r \in Requests : handlers[r].pc # "idle"}

\* A request is taken while fewer than `overlap` of the component are in flight.
Within(handlers) == Cardinality(Busy(handlers)) <= overlap

LectureStep ==
  /\ Lecture!Next /\ Within(lectureReq')
  /\ UNCHANGED <<overlap, vars, communityVars, supportVars, storeVars, noticeVars,
                 rewardVars, pricingVars, uploadVars, accountVars>>

CatalogueStep ==
  /\ Next /\ Within(req')
  /\ UNCHANGED <<overlap, lectureVars, communityVars, supportVars, storeVars, noticeVars,
                 rewardVars, pricingVars, uploadVars, accountVars>>

CommunityStep ==
  /\ Forum!Next /\ Within(forumReq')
  /\ UNCHANGED <<overlap, lectureVars, vars, supportVars, storeVars, noticeVars,
                 rewardVars, pricingVars, uploadVars, accountVars>>

SupportStep ==
  /\ Ticket!Next /\ Within(ticketReq')
  /\ UNCHANGED <<overlap, lectureVars, vars, communityVars, storeVars, noticeVars,
                 rewardVars, pricingVars, uploadVars, accountVars>>

StoreStep ==
  /\ Shop!Next /\ Within(shopReq')
  /\ UNCHANGED <<overlap, lectureVars, vars, communityVars, supportVars, noticeVars,
                 rewardVars, pricingVars, uploadVars, accountVars>>

NoticeStep ==
  /\ Notice!Next /\ Within(noticeReq')
  /\ UNCHANGED <<overlap, lectureVars, vars, communityVars, supportVars, storeVars,
                 rewardVars, pricingVars, uploadVars, accountVars>>

\* One process starts at a time, and one admin changes the rules at a time.
RewardStep ==
  /\ Reward!Next /\ Within(rewardReq') /\ Reward!OneOfEach'
  /\ UNCHANGED <<overlap, lectureVars, vars, communityVars, supportVars, storeVars,
                 noticeVars, pricingVars, uploadVars, accountVars>>

PricingStep ==
  /\ Sale!Next
  /\ UNCHANGED <<overlap, lectureVars, vars, communityVars, supportVars, storeVars,
                 noticeVars, rewardVars, uploadVars, accountVars>>

UploadStep ==
  /\ File!Next /\ Within(fileReq')
  /\ UNCHANGED <<overlap, lectureVars, vars, communityVars, supportVars, storeVars,
                 noticeVars, rewardVars, pricingVars, accountVars>>

AccountStep ==
  /\ Account!Next /\ Within(accountReq')
  /\ UNCHANGED <<overlap, lectureVars, vars, communityVars, supportVars, storeVars,
                 noticeVars, rewardVars, pricingVars, uploadVars>>

PlatformNext ==
  \/ LectureStep \/ CatalogueStep \/ CommunityStep \/ SupportStep
  \/ StoreStep \/ NoticeStep \/ RewardStep \/ PricingStep
  \/ UploadStep \/ AccountStep

PlatformSpec == PlatformInit /\ [][PlatformNext]_platform

-----------------------------------------------------------------------------
\* The tables of every component, and what its handlers hold.
PlatformTypeOK ==
  /\ overlap \in 1 .. Cardinality(Requests)
  /\ Lecture!TypeOK /\ TypeOK /\ Forum!TypeOK /\ Ticket!TypeOK /\ Shop!TypeOK
  /\ Notice!TypeOK /\ Reward!TypeOK /\ Sale!TypeOK /\ File!TypeOK /\ Account!TypeOK

\* Of rearrangeLectureGroup and rearrangeLectureInGroup, one at a time: groups and
\* lectures are numbered apart.
IndexesDistinctInSequence == overlap = 1 => Lecture!IndexesDistinct

\* ... and what is not moved keeps its order.
OrderKeptInSequence == [][overlap = 1 => Lecture!OrderKept]_platform

\* What the enrolled listing, the progress and the video hold locked is the same.
LocksAgree == Lecture!LocksAgree

\* Reviews of courses and products, invitations, publishing rewards and the feedback of a
\* user on a thread or a blog are at most as many as handlers overlap.
DuplicatesWithin ==
  RowsWithin(overlap) /\ Shop!ReviewsWithin(overlap) /\ Forum!FeedbackWithin(overlap)

\* Deleted threads and blogs are written to at most by the handlers that had found them.
LateWithin == Forum!LateWithin(overlap)

\* Closed tickets get no comments of users, and admins answer platform tickets only.
ClosedStaysQuietInSequence == [][overlap = 1 => Ticket!ClosedStaysQuiet]_platform

\* Who reviewed a product has had it delivered.
ReviewedWasDelivered == Shop!ReviewedWasDelivered

\* A device is registered once for each handler that overlaps.
DevicesWithin == Notice!DevicesWithin(overlap)

\* An announcement reaches who was enrolled in its course.
AnnouncedToAll == Notice!AnnouncedToAll

\* The rules of the reward points stay as admins asked, over every start.
RulesKept == Reward!RulesKept

\* Statements add up to what was charged.
StatementsAddUp == Sale!StatementsAddUp

\* Only what is free is had for nothing.
FreeIsFree == Sale!FreeIsFree

\* What a row names is stored where its links point.
LinkedStored == File!LinkedStored

\* Who signs in with Facebook, or with a username, is one user.
OneAccountEach == Account!OneAccountEach
=============================================================================
