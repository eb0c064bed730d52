------------------------------- MODULE Lectures -------------------------------
(***************************************************************************)
(* The lectures of an instructor's courses, their groups, and what an      *)
(* enrolled student sees of them.  Rearranging renumbers the others by the *)
(* index that was read before the transaction.                             *)
(***************************************************************************)
EXTENDS Integers, FiniteSets

CONSTANTS
  CourseOf,        \* Lecture.courseId, by lecture id: never changed
  Requests, None,
  MaxGroup, MaxIndex, PageSize      \* bounds of the model

Lectures == DOMAIN CourseOf
TaughtCourses == {CourseOf[l] : l \in Lectures}
GroupId == 1 .. MaxGroup
Index == -MaxIndex .. MaxIndex

VARIABLES
  groups,      \* the LectureGroup table, by id
  lectures,    \* Lecture.lectureGroupId, index, preview and deleted
  deleting,    \* the groups whose deletion was answered but has not run
  completed,   \* the lectures that the student has completed
  req

vars == <<groups, lectures, deleting, completed, req>>

Idle == [pc |-> "idle"]

Group == [course : TaughtCourses, index : Index]

Request ==
  {Idle}
  \cup [pc : {"numbering"}, course : TaughtCourses, index : Index]
  \cup [pc : {"foundGroup", "movingGroup"}, group : GroupId, course : TaughtCourses,
        old : Index, index : Index]
  \cup [pc : {"foundLecture", "movingLecture"}, lecture : Lectures, group : GroupId,
        from : GroupId \cup {None}, old : Index, index : Index]
  \cup [pc : {"updating"}, lecture : Lectures, preview : BOOLEAN]

TypeOK ==
  /\ groups \in [GroupId -> Group \cup {None}]
  /\ lectures \in [Lectures -> [group : GroupId \cup {None}, index : Index,
                                preview : BOOLEAN, deleted : BOOLEAN]]
  /\ deleting \subseteq GroupId
  /\ completed \subseteq Lectures
  /\ req \in [Requests -> Request]

NumberInCourse(l) == Cardinality({k \in Lectures : CourseOf[k] = CourseOf[l] /\ k <= l})

\* The seeded arrangement: a course has a group, which holds its lectures by id.
Init ==
  /\ groups = [g \in GroupId |-> IF g \in TaughtCourses THEN [course |-> g, index |-> 1] ELSE None]
  /\ lectures = [l \in Lectures |-> [group |-> CourseOf[l], index |-> NumberInCourse(l),
                                     preview |-> FALSE, deleted |-> FALSE]]
  /\ deleting = {}
  /\ completed = {}
  /\ req = [r \in Requests |-> Idle]

-----------------------------------------------------------------------------
Proceed(r, step) == req' = [req EXCEPT ![r] = step]

Existing == {g \in GroupId : groups[g] # None}

\* getLectureGroupsByCourseId, also listLectureGroups.
GroupsOf(c) == {g \in Existing : groups[g].course = c}

LecturesOf(g) == {l \in Lectures : lectures[l].group = g}

Highest(indexes) == CHOOSE i \in indexes : \A j \in indexes : j <= i

\* getLastLectureGroup of the course, by index.
LastGroupIndex(c) == Highest({groups[g].index : g \in GroupsOf(c)})

\* Mutant: a new group is numbered by how many there are.
NextIndexCounted(c) == Cardinality(GroupsOf(c)) + 1

\* The index of a new group: behind the last, or 1.
NextIndex(c) == IF GroupsOf(c) = {} THEN 1 ELSE LastGroupIndex(c) + 1

CreateGroup(r, c) ==
  /\ req[r].pc = "idle"
  /\ NextIndex(c) \in Index
  /\ Proceed(r, [pc |-> "numbering", course |-> c, index |-> NextIndex(c)])
  /\ UNCHANGED <<groups, lectures, deleting, completed>>

\* Ids are drawn from a sequence: one is taken again only when nothing refers to it.
Fresh(g) ==
  /\ g \notin Existing \cup deleting
  /\ \A r \in Requests :
       /\ req[r].pc \in {"foundGroup", "movingGroup", "foundLecture", "movingLecture"} =>
            req[r].group # g
       /\ req[r].pc \in {"foundLecture", "movingLecture"} => req[r].from # g

InsertGroup(r, g) ==
  /\ req[r].pc = "numbering"
  /\ Fresh(g)
  /\ groups' = [groups EXCEPT ![g] = [course |-> req[r].course, index |-> req[r].index]]
  /\ Proceed(r, Idle)
  /\ UNCHANGED <<lectures, deleting, completed>>

\* deleteLectureGroup does not await its transaction: it has answered by now.
DeleteGroup(g) ==
  /\ g \in Existing
  /\ deleting' = deleting \cup {g}
  /\ UNCHANGED <<groups, lectures, completed, req>>

\* The transaction: the lectures of the group lose it, and it is deleted.
FinishDelete(g) ==
  /\ g \in deleting
  /\ groups' = [groups EXCEPT ![g] = None]
  /\ lectures' = [l \in Lectures |->
                    IF l \in LecturesOf(g) THEN [lectures[l] EXCEPT !.group = None]
                    ELSE lectures[l]]
  /\ deleting' = deleting \ {g}
  /\ UNCHANGED <<completed, req>>

\* A failure that nobody awaits.
FailDelete(g) ==
  /\ g \in deleting
  /\ deleting' = deleting \ {g}
  /\ UNCHANGED <<groups, lectures, completed, req>>

-----------------------------------------------------------------------------
(* Rearranging.                                                             *)

\* Mutant: only what is at the new place makes room.
ShiftedAtPlace(i, old, new) ==
  CASE old < new /\ i = new -> i - 1
    [] new < old /\ i = new -> i + 1
    [] OTHER -> i

\* What becomes of index i when what was at old is moved to new.
Shifted(i, old, new) ==
  CASE old < new /\ i \in old .. new -> i - 1
    [] new < old /\ i \in new .. old -> i + 1
    [] OTHER -> i

\* Any whole number is taken as an index: the DTO has no minimum.
RearrangeGroup(r, g, index) ==
  /\ req[r].pc = "idle"
  /\ g \in Existing
  /\ Proceed(r, [pc |-> "foundGroup", group |-> g, course |-> groups[g].course,
                 old |-> groups[g].index, index |-> index])
  /\ UNCHANGED <<groups, lectures, deleting, completed>>

\* 'Index cannot be greater than ...'.
CheckGroupIndex(r) ==
  LET q == req[r] IN
  /\ q.pc = "foundGroup"
  /\ GroupsOf(q.course) # {} /\ q.index <= LastGroupIndex(q.course)
  /\ Proceed(r, IF q.old = q.index THEN Idle ELSE [q EXCEPT !.pc = "movingGroup"])
  /\ UNCHANGED <<groups, lectures, deleting, completed>>

\* A group that is gone fails the transaction.
MoveGroup(r) ==
  LET q == req[r]
      moved == [g \in GroupId |->
                  CASE g = q.group -> [groups[g] EXCEPT !.index = q.index]
                    [] g \in GroupsOf(q.course) \ {q.group} ->
                         [groups[g] EXCEPT !.index = Shifted(@, q.old, q.index)]
                    [] OTHER -> groups[g]]
  IN
  /\ q.pc = "movingGroup" /\ q.group \in Existing
  /\ moved \in [GroupId -> Group \cup {None}]
  /\ groups' = moved
  /\ Proceed(r, Idle)
  /\ UNCHANGED <<lectures, deleting, completed>>

\* getLectureByIdInstructor does not find a deleted lecture.
Found(l) == ~ lectures[l].deleted

RearrangeLecture(r, l, g, index) ==
  /\ req[r].pc = "idle"
  /\ Found(l)
  /\ Proceed(r, [pc |-> "foundLecture", lecture |-> l, group |-> g, index |-> index,
                 from |-> lectures[l].group, old |-> lectures[l].index])
  /\ UNCHANGED <<groups, lectures, deleting, completed>>

\* Only the place behind the last is refused; that the group is one of the lecture's
\* course is not asked.  An empty group fails where the index of its last is read.
CheckLectureIndex(r) ==
  LET q == req[r]
      indexes == {lectures[l].index : l \in LecturesOf(q.group)}
  IN
  /\ q.pc = "foundLecture"
  /\ q.group \in Existing
  /\ indexes # {} /\ q.index <= Highest(indexes)
  /\ q.from # None
  /\ Proceed(r, IF q.group = q.from /\ q.old = q.index THEN Idle
                ELSE [q EXCEPT !.pc = "movingLecture"])
  /\ UNCHANGED <<groups, lectures, deleting, completed>>

\* In the new group the lecture at the place, and those behind it, make room.
MakeRoom(i, q) == IF i >= q.index THEN i + 1 ELSE i

\* The index of another lecture at i of group g after the move.
Renumbered(i, g, q) ==
  CASE q.group = q.from /\ g = q.group -> Shifted(i, q.old, q.index)
    [] q.group # q.from /\ g = q.from  -> IF i >= q.old THEN i - 1 ELSE i
    [] q.group # q.from /\ g = q.group -> MakeRoom(i, q)
    [] OTHER -> i

MoveLecture(r) ==
  LET q == req[r]
      moved == [l \in Lectures |->
                  IF l = q.lecture
                  THEN [lectures[l] EXCEPT !.group = q.group, !.index = q.index]
                  ELSE [lectures[l] EXCEPT !.index =
                          IF lectures[l].group = None THEN @
                          ELSE Renumbered(@, lectures[l].group, q)]]
  IN
  /\ q.pc = "movingLecture" /\ q.group \in Existing
  /\ \A l \in Lectures : moved[l].index \in Index
  /\ lectures' = moved
  /\ Proceed(r, Idle)
  /\ UNCHANGED <<groups, deleting, completed>>

-----------------------------------------------------------------------------
(* Updating, deleting and following lectures.                               *)

\* The uploads are verified between the check and the update.
FindForUpdate(r, l, preview) ==
  /\ req[r].pc = "idle"
  /\ Found(l)
  /\ Proceed(r, [pc |-> "updating", lecture |-> l, preview |-> preview])
  /\ UNCHANGED <<groups, lectures, deleting, completed>>

UpdateLecture(r) ==
  /\ req[r].pc = "updating"
  /\ lectures' = [lectures EXCEPT ![req[r].lecture].preview = req[r].preview]
  /\ Proceed(r, Idle)
  /\ UNCHANGED <<groups, deleting, completed>>

\* A soft deletion, which may be repeated.
DeleteLecture(l) ==
  /\ lectures' = [lectures EXCEPT ![l].deleted = TRUE]
  /\ UNCHANGED <<groups, deleting, completed, req>>

\* trackLectureProgress takes progress in any lecture, locked or not.
Complete(l) ==
  /\ completed' = completed \cup {l}
  /\ UNCHANGED <<groups, lectures, deleting, req>>

\* A refusal, a failing query, or the end of the process.
Fail(r) ==
  /\ req[r].pc # "idle"
  /\ Proceed(r, Idle)
  /\ UNCHANGED <<groups, lectures, deleting, completed>>

Next ==
  \/ \E r \in Requests :
       \/ \E c \in TaughtCourses : CreateGroup(r, c)
       \/ \E g \in GroupId : InsertGroup(r, g)
       \/ \E g \in GroupId, i \in Index : RearrangeGroup(r, g, i)
       \/ \E l \in Lectures, g \in GroupId, i \in Index : RearrangeLecture(r, l, g, i)
       \/ CheckGroupIndex(r) \/ MoveGroup(r)
       \/ CheckLectureIndex(r) \/ MoveLecture(r)
       \/ \E l \in Lectures, p \in BOOLEAN : FindForUpdate(r, l, p)
       \/ UpdateLecture(r) \/ Fail(r)
  \/ \E g \in GroupId : DeleteGroup(g) \/ FinishDelete(g) \/ FailDelete(g)
  \/ \E l \in Lectures : DeleteLecture(l) \/ Complete(l)

-----------------------------------------------------------------------------
(* What students see: the listings, the locks they show, and the video.     *)

\* order by the group's index, lectures without a group last, then by the lecture's.
Precedes(k, l) ==
  LET Place(n) == IF lectures[n].group = None THEN MaxIndex + 1
                  ELSE groups[lectures[n].group].index
  IN \/ Place(k) < Place(l)
     \/ Place(k) = Place(l) /\ lectures[k].index < lectures[l].index

\* listLecturesEnrolled of the repository: a deleted lecture is still listed.
ListedEnrolled(c) == {l \in Lectures : CourseOf[l] = c}

\* The total beside it, and beside the instructor's listing, counts the live ones.
CountedEnrolled(c) == {l \in ListedEnrolled(c) : ~ lectures[l].deleted}

\* listLecturesPreview.
ListedPreview(c) == {l \in ListedEnrolled(c) : lectures[l].preview}

\* listLecturesGroupedEnrolled: the groups of the course with whatever they hold.
ListedGrouped(c) == {l \in Lectures : \E g \in GroupsOf(c) : lectures[l].group = g}

Position(l) == Cardinality({k \in ListedEnrolled(CourseOf[l]) : Precedes(k, l)})

PreviousIncomplete(l) ==
  \E k \in ListedEnrolled(CourseOf[l]) : Position(k) = Position(l) - 1 /\ k \notin completed

\* Mutant: locked until the lecture itself is completed.
LockedUnlessCompleted(l) == l \notin completed

\* listLecturesEnrolled of the service: the first of a page is never locked.
LockedInListing(l) == Position(l) % PageSize # 0 /\ PreviousIncomplete(l)

\* getCourseProgress lists everything at once.
LockedInProgress(l) == Position(l) # 0 /\ PreviousIncomplete(l)

\* getLectureVideo: the lecture with the id before it is not completed.
VideoLocked(l) ==
  LET before == {k \in ListedEnrolled(CourseOf[l]) : k < l}
  IN before # {} /\ Highest(before) \notin completed

-----------------------------------------------------------------------------
\* Groups of a course, and lectures of a group, have different indexes (the index is
\* what orders them), although rearranging renumbers by what it has read.
IndexesDistinct ==
  /\ \A g, h \in Existing :
       g # h /\ groups[g].course = groups[h].course => groups[g].index # groups[h].index
  /\ \A g \in Existing, k, l \in Lectures :
       k # l /\ {k, l} \subseteq LecturesOf(g) => lectures[k].index # lectures[l].index

\* Moving one group or lecture changes the order of no others: at most one group of a
\* course, or lecture of a group, changes sides with another.
OrderKept ==
  /\ \E m \in GroupId \cup {None} : \A g, h \in (Existing \cap Existing') \ {m} :
       groups[g].course = groups[h].course =>
         (groups[g].index < groups[h].index <=> groups'[g].index < groups'[h].index)
  /\ \E m \in Lectures \cup {None} : \A k, l \in Lectures \ {m} :
       lectures[k].group = lectures[l].group /\ lectures'[k].group # None =>
         /\ lectures'[k].group = lectures'[l].group
         /\ lectures[k].index < lectures[l].index <=> lectures'[k].index < lectures'[l].index

\* The three computations of what is locked agree wherever the lectures stand in the
\* order of their ids and their predecessor is on the same page.
LocksAgree ==
  \A l \in Lectures :
    /\ \A j, k \in ListedEnrolled(CourseOf[l]) : j < k => Precedes(j, k)
    /\ Position(l) = 0 \/ Position(l) % PageSize # 0
    => /\ LockedInListing(l) <=> VideoLocked(l)
       /\ LockedInProgress(l) <=> VideoLocked(l)
=============================================================================
