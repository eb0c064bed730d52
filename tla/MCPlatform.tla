----------------------------- MODULE MCPlatform -----------------------------
(***************************************************************************)
(* Small instances of the platform.  A behaviour is of one focus: a part   *)
(* of one component, with one handler after the other or two that overlap; *)
(* the other components stay as they are.                                  *)
(***************************************************************************)
EXTENDS Platform

CONSTANTS
  u1, i1,               \* a student and an instructor
  c1, c2, p1, b1,       \* courses, a product and a bundle
  t1, t2, r1, r2        \* tokens and the requests

\* Three lectures of one course.
MCCourseOf == <<1, 1, 1>>

\* c2 is a course of an organization.
MCInstructorOf == [c \in {c1, c2} |-> IF c = c1 THEN i1 ELSE None]

VARIABLE focus

focused == <<focus, platform>>

Foci ==
  ({"arranging", "following", "bundling", "answering", "announcing", "pricing", "uploading"} \X {1})
  \cup ({"governing", "inviting", "enlisting"} \X {2})
  \cup ({"publishing", "studying", "posting", "selling", "registering"} \X {1, 2})

FocusInit ==
  /\ \E f \in Foci : focus = f[1] /\ overlap = f[2]
  /\ PlatformInit
  /\ focus # "pricing" => price = [i \in Sale!Items |-> 0] /\ monthly = {} /\ empty = {}

\* One handler at a time is the first.
First(handlers) == overlap = 1 => handlers[r2].pc = "idle"

\* The places that handlers are asked to move a group or a lecture to.
PlacesAsked(from) ==
  \A r \in Requests :
    lectureReq'[r].pc \in {"foundGroup", "foundLecture"} => lectureReq'[r].index >= from

\* All groups and lectures stand at the places 1, 2, 3.
AllBehindZero ==
  /\ \A g \in DOMAIN groups : groups[g] # None => groups[g].index > 0
  /\ \A l \in DOMAIN lectures : lectures[l].index > 0

\* Place 0 is before the first; it is asked for while nothing stands there, and explored
\* with two groups and no deletion under way.
Arranging ==
  /\ focus = "arranging" /\ LectureStep /\ First(lectureReq')
  /\ PlacesAsked(IF AllBehindZero THEN 0 ELSE 1)
  /\ AllBehindZero' \/ (groups'[3] = None /\ deleting' = {})
  /\ completed' = completed
  /\ \A l \in DOMAIN lectures : ~ lectures'[l].deleted /\ ~ lectures'[l].preview

Following ==
  /\ focus = "following" /\ LectureStep /\ First(lectureReq') /\ PlacesAsked(1)
  /\ groups' = groups /\ deleting' = deleting
  /\ \A r \in Requests : lectureReq'[r].pc \notin {"numbering", "foundGroup"}

\* The handlers of courses that a focus has in flight.
Handling(steps) ==
  First(req') /\ \A r \in Requests : req'[r].pc \in steps \cup {"idle"}

\* The courses of a focus are like this one.
LikePlain(fields) ==
  LET plain == [owner |-> i1, organization |-> FALSE, free |-> FALSE, priced |-> TRUE,
                approved |-> FALSE, published |-> FALSE, bundle |-> None]
  IN \A c \in CourseId : courses'[c] # None => \A f \in fields : courses'[c][f] = plain[f]

\* Two that overlap do so on one course.
Publishing ==
  /\ focus = "publishing" /\ CatalogueStep
  /\ Handling({"publishing", "rewarding", "popular"})
  /\ overlap = 2 => courses'[2] = None
  /\ bundles' = bundles /\ enrolled' = enrolled

Inviting ==
  /\ focus = "inviting" /\ CatalogueStep
  /\ Handling({"inviting", "accepting", "associating"})
  /\ LikePlain({"owner", "organization", "free", "priced", "approved", "published", "bundle"})
  /\ bundles' = bundles

Bundling ==
  /\ focus = "bundling" /\ CatalogueStep
  /\ Handling({"inviting", "accepting", "associating", "bundling", "unbundling"})
  /\ LikePlain({"free", "priced", "approved", "published"}) /\ enrolled' = enrolled

\* Approvals are not withdrawn here.
Studying ==
  /\ focus = "studying" /\ CatalogueStep
  /\ Handling({"publishing", "rewarding", "reviewing"})
  /\ LikePlain({"owner", "organization", "free", "priced"})
  /\ bundles' = bundles /\ rewarded' = rewarded
  /\ \A c \in Existing : courses[c].approved => courses'[c].approved

\* Two that overlap do so on one post.
Posting ==
  /\ focus = "posting" /\ CommunityStep /\ First(forumReq')
  /\ overlap = 2 => posts'[2] = None

Answering ==
  focus = "answering" /\ SupportStep /\ First(ticketReq')

\* Two that overlap do so on one product; what is out of stock is tried there.
Selling ==
  /\ focus = "selling" /\ StoreStep /\ First(shopReq')
  /\ overlap = 2 => products'[2] = None
  /\ overlap = 1 => \A p \in Shop!ProductId : products'[p] # None => products'[p].available

Registering ==
  /\ focus = "registering" /\ NoticeStep /\ First(noticeReq')
  /\ enrollments' = enrollments /\ notices' = notices

Announcing ==
  /\ focus = "announcing" /\ NoticeStep /\ First(noticeReq')
  /\ \A u \in Users : devices'[u] \in {<< >>, <<t1>>}
  /\ enrollments'[i1][c1] = "none"

Governing ==
  focus = "governing" /\ RewardStep /\ First(rewardReq')

\* The price of something changes once the order is placed.
Charging ==
  /\ focus = "pricing" /\ PricingStep
  /\ price' # price => order # None /\ order.status = "Pending"

Uploading ==
  focus = "uploading" /\ UploadStep /\ First(fileReq')

Enlisting ==
  focus = "enlisting" /\ AccountStep /\ First(accountReq')

FocusNext ==
  /\ \/ Arranging \/ Following
     \/ Publishing \/ Inviting \/ Bundling \/ Studying
     \/ Posting \/ Answering \/ Selling \/ Registering \/ Announcing
     \/ Governing \/ Charging \/ Uploading \/ Enlisting
  /\ UNCHANGED focus

FocusSpec == FocusInit /\ [][FocusNext]_focused
=============================================================================
