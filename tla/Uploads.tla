------------------------------- MODULE Uploads -------------------------------
(***************************************************************************)
(* Files: a client uploads an object to the bucket that a signature names, *)
(* a handler asks S3 whether the object exists (not for every kind) and    *)
(* then writes its key to a row, and answers turn the key into a link.     *)
(* Each kind of file has its own three functions, and nothing ties the     *)
(* buckets they use together.                                              *)
(***************************************************************************)
EXTENDS Naturals, FiniteSets

CONSTANTS
  Keys, Requests,
  MaxRows        \* bound: rows that name a key

VARIABLES
  objects,       \* what each bucket stores
  rows,          \* which keys the tables name, as files of which kind
  failed,        \* the keys of videos whose verification failed
  doomed,        \* of these, the ones whose deletion is under way
  req

tables == <<objects, rows, failed, doomed>>
vars == <<tables, req>>

Idle == [pc |-> "idle"]

-----------------------------------------------------------------------------
(* Where a kind of file is uploaded to, looked for and linked to.           *)

ProfileImage ==
  [of |-> "profile", signed |-> "private", verified |-> "private", linked |-> "private"]
CoverImage ==
  [of |-> "cover", signed |-> "private", verified |-> "private", linked |-> "private"]
CourseThumbnail ==
  [of |-> "course", signed |-> "private", verified |-> "private", linked |-> "private"]
LectureThumbnail ==
  [of |-> "lecture", signed |-> "private", verified |-> "private", linked |-> "private"]
LectureVideo ==
  [of |-> "video", signed |-> "private", verified |-> "private", linked |-> "private"]
LectureAttachment ==
  [of |-> "attachment", signed |-> "private", verified |-> "private", linked |-> "private"]
AssignmentAttachment ==
  [of |-> "assignment", signed |-> "private", verified |-> "private", linked |-> "private"]
ReplyAttachment ==
  [of |-> "reply", signed |-> "private", verified |-> "private", linked |-> "private"]
SupportAttachment ==
  [of |-> "support", signed |-> "private", verified |-> "private", linked |-> "private"]

\* Mutant: looked for among the private objects, as the images of products are.
BlogImagePrivate ==
  [of |-> "blog", signed |-> "public", verified |-> "private", linked |-> "public"]

BlogImage ==
  [of |-> "blog", signed |-> "public", verified |-> "public", linked |-> "public"]
ProductImage ==
  [of |-> "product", signed |-> "public", verified |-> "public", linked |-> "public"]
CategoryIcon ==
  [of |-> "icon", signed |-> "public", verified |-> "public", linked |-> "public"]

Kinds ==
  {ProfileImage, CoverImage, CourseThumbnail, LectureThumbnail, LectureVideo,
   LectureAttachment, AssignmentAttachment, ReplyAttachment, SupportAttachment,
   BlogImage, ProductImage, CategoryIcon}

\* The images of a product are verified as attachments of a reply, and what admins
\* attach to an answer as attachments of a lecture.  What is attached to an assignment is
\* not looked for: createLecture verifies the attachments of the lecture a second time in
\* its place, and updateLecture, which writes it, none of it.
VerifiedAs(kind) ==
  IF kind = AssignmentAttachment THEN {}
  ELSE IF kind = ProductImage THEN {ReplyAttachment}
  ELSE IF kind = SupportAttachment THEN {SupportAttachment, LectureAttachment}
  ELSE {kind}

Request == {Idle} \cup [pc : {"probing", "saving"}, kind : Kinds, key : Keys]

TypeOK ==
  /\ objects \in [{"public", "private"} -> SUBSET Keys]
  /\ rows \subseteq Kinds \X Keys /\ Cardinality(rows) <= MaxRows
  /\ doomed \subseteq failed /\ failed \subseteq Keys
  /\ req \in [Requests -> Request]

Init ==
  /\ objects = [b \in {"public", "private"} |-> {}]
  /\ rows = {} /\ failed = {} /\ doomed = {}
  /\ req = [r \in Requests |-> Idle]

-----------------------------------------------------------------------------
Proceed(r, step) == req' = [req EXCEPT ![r] = step]

\* The client puts an object where a signature of the kind lets it, again if it likes.
Upload(kind, k) ==
  /\ objects' = [objects EXCEPT ![kind.signed] = @ \cup {k}]
  /\ UNCHANGED <<rows, failed, doomed, req>>

\* headObject finds the object, else the handler refuses; or nothing is looked for.
Verify(r, kind, k) ==
  /\ req[r].pc = "idle"
  /\ VerifiedAs(kind) = {} \/ \E as \in VerifiedAs(kind) : k \in objects[as.verified]
  /\ Proceed(r, [pc |-> IF kind = LectureVideo THEN "probing" ELSE "saving",
                 kind |-> kind, key |-> k])
  /\ UNCHANGED tables

\* ffprobe reads a duration of the video,
Probe(r) ==
  /\ req[r].pc = "probing"
  /\ Proceed(r, [req[r] EXCEPT !.pc = "saving"])
  /\ UNCHANGED tables

\* or fails: the object is deleted, whoever names it, without waiting for it.
ProbeFails(r) ==
  /\ req[r].pc = "probing"
  /\ failed' = failed \cup {req[r].key}
  /\ doomed' = doomed \cup {req[r].key}
  /\ Proceed(r, Idle)
  /\ UNCHANGED <<objects, rows>>

Delete(k) ==
  /\ k \in doomed
  /\ doomed' = doomed \ {k}
  /\ objects' = [objects EXCEPT !["private"] = @ \ {k}]
  /\ UNCHANGED <<rows, failed, req>>

\* deleteObject fails, and no one asks again.
DeleteFails(k) ==
  /\ k \in doomed
  /\ doomed' = doomed \ {k}
  /\ UNCHANGED <<objects, rows, failed, req>>

\* The row is written, in the place of one that is updated.
Save(r, replaced) ==
  LET q == req[r] IN
  /\ q.pc = "saving"
  /\ replaced \subseteq rows /\ Cardinality(replaced) <= 1
  /\ \A row \in replaced : row[1] = q.kind
  /\ rows' = (rows \ replaced) \cup {<<q.kind, q.key>>}
  /\ Cardinality(rows') <= MaxRows
  /\ Proceed(r, Idle)
  /\ UNCHANGED <<objects, failed, doomed>>

\* The row is not written: another check or the query fails, or it is updateUser, which
\* verifies the images of a user and saves neither.
Leave(r) ==
  /\ req[r].pc # "idle"
  /\ Proceed(r, Idle)
  /\ UNCHANGED tables

Next ==
  \/ \E kind \in Kinds, k \in Keys :
       Upload(kind, k) \/ \E r \in Requests : Verify(r, kind, k)
  \/ \E r \in Requests :
       \/ Probe(r) \/ ProbeFails(r) \/ Leave(r)
       \/ \E replaced \in SUBSET rows : Save(r, replaced)
  \/ \E k \in Keys : Delete(k) \/ DeleteFails(k)

Spec == Init /\ [][Next]_vars

-----------------------------------------------------------------------------
\* Rows written without a look at the bucket their links point to: the images of products,
\* looked for among the private objects, and what is attached to assignments.
UncheckedKinds == {ProductImage, AssignmentAttachment}

\* What a row names is stored where its links point, however uploads, verifications and
\* the deletions they leave behind interleave.  Two kinds of rows are not so: those that
\* name a file which a later verification as a video gave up, and those of the kinds
\* that are not checked.
LinkedStored ==
  \A row \in rows :
    \/ row[2] \in objects[row[1].linked]
    \/ row[2] \in failed
    \/ row[1] \in UncheckedKinds
=============================================================================
