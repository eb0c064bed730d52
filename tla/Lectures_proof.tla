---------------------------- MODULE Lectures_proof ----------------------------
(***************************************************************************)
(* Of lectures and their groups: with one handler at a time, rearranging   *)
(* keeps them numbered apart and in order, although a group's deletion,    *)
(* which is not awaited, may run at any step; and what students see locked *)
(* agrees.  For any lectures, courses, groups and pages.                   *)
(***************************************************************************)
EXTENDS Services_proof, Records_proof, WellFoundedInduction

\* Through INSTANCE, cardinality is the same cardinality.
LEMMA LectureCardinality ==
  ASSUME NEW S
  PROVE  Lecture!Cardinality(S) = Cardinality(S)
  BY DEF Lecture!Cardinality, Cardinality

-----------------------------------------------------------------------------
(* Numbers.                                                                 *)

\* The highest of what is bounded is there, and none is higher.
LEMMA HighestIs ==
  ASSUME NEW S, S \subseteq Int, S # {}, NEW b \in Int, \A i \in S : i <= b
  PROVE  Lecture!Highest(S) \in S /\ \A j \in S : j <= Lecture!Highest(S)
<1> DEFINE T == {n \in Nat : b - n \in S}
<1>1. T \subseteq Nat /\ T # {}
  <2>1. PICK i \in S : TRUE
    OBVIOUS
  <2>2. b - i \in Nat /\ b - (b - i) = i
    BY <2>1
  <2>3. b - i \in T
    BY <2>1, <2>2
  <2>4. QED  BY <2>3
<1>2. PICK n \in T : \A m \in T : ~ (<<m, n>> \in OpToRel(<, Nat))
  BY <1>1, NatLessThanWellFounded, WFMin
<1>3. \A m \in T : ~ (m < n)
  BY <1>1, <1>2 DEF OpToRel
<1>4. \A j \in S : b - j \in T
  BY DEF T
<1>5. b - n \in S /\ \A j \in S : j <= b - n
  <2>1. b - n \in S /\ n \in Nat
    BY <1>2
  <2>2. ASSUME NEW j \in S PROVE j <= b - n
    <3>1. b - j \in T /\ j \in Int
      BY <1>4
    <3>2. ~ (b - j < n)
      BY <1>3, <3>1
    <3>3. QED  BY <2>1, <3>1, <3>2
  <2>3. QED  BY <2>1, <2>2
<1>6. QED  BY <1>5 DEF Lecture!Highest

\* What is shifted.
LEMMA ShiftedIs ==
  ASSUME NEW i \in Int, NEW old \in Int, NEW new \in Int
  PROVE  Lecture!Shifted(i, old, new) =
           IF old < new /\ old <= i /\ i <= new THEN i - 1
           ELSE IF new < old /\ new <= i /\ i <= old THEN i + 1 ELSE i
<1>1. CASE old < new /\ i \in old .. new
  BY <1>1 DEF Lecture!Shifted
<1>2. CASE new < old /\ i \in new .. old
  BY <1>2 DEF Lecture!Shifted
<1>3. CASE ~ (old < new /\ i \in old .. new) /\ ~ (new < old /\ i \in new .. old)
  BY <1>3 DEF Lecture!Shifted
<1>4. QED  BY <1>1, <1>2, <1>3

\* Of all but what is moved, shifting keeps the order, and leaves the new place free.
LEMMA ShiftedInOrder ==
  ASSUME NEW i \in Int, NEW j \in Int, NEW old \in Int, NEW new \in Int, i # old, j # old
  PROVE  /\ Lecture!Shifted(i, old, new) \in Int /\ Lecture!Shifted(i, old, new) # new
         /\ i < j <=> Lecture!Shifted(i, old, new) < Lecture!Shifted(j, old, new)
         /\ i # j => Lecture!Shifted(i, old, new) # Lecture!Shifted(j, old, new)
<1> DEFINE a == Lecture!Shifted(i, old, new)
           b == Lecture!Shifted(j, old, new)
<1>1. a = IF old < new /\ old <= i /\ i <= new THEN i - 1
          ELSE IF new < old /\ new <= i /\ i <= old THEN i + 1 ELSE i
  BY ShiftedIs
<1>2. b = IF old < new /\ old <= j /\ j <= new THEN j - 1
          ELSE IF new < old /\ new <= j /\ j <= old THEN j + 1 ELSE j
  BY ShiftedIs
<1> HIDE DEF a, b
<1>3. a \in Int /\ a # new /\ (i < j <=> a < b) /\ (i # j => a # b)
  BY <1>1, <1>2
<1>4. QED  BY <1>3 DEF a, b

\* How the lectures of a group are numbered again when one is moved: those of its group,
\* if it is there, are not where it was.
LEMMA RenumberedInOrder ==
  ASSUME NEW i \in Int, NEW j \in Int, NEW g, NEW q, q.old \in Int, q.index \in Int,
         g = q.from => i # q.old /\ j # q.old
  PROVE  /\ Lecture!Renumbered(i, g, q) \in Int
         /\ g = q.group => Lecture!Renumbered(i, g, q) # q.index
         /\ i < j <=> Lecture!Renumbered(i, g, q) < Lecture!Renumbered(j, g, q)
         /\ i # j => Lecture!Renumbered(i, g, q) # Lecture!Renumbered(j, g, q)
<1> DEFINE a == Lecture!Renumbered(i, g, q)
           b == Lecture!Renumbered(j, g, q)
           old == q.old
           new == q.index
<1>typ. old \in Int /\ new \in Int
  OBVIOUS
<1>1. CASE q.group = q.from /\ g = q.group
  <2>1. a = Lecture!Shifted(i, old, new) /\ b = Lecture!Shifted(j, old, new)
    BY <1>1 DEF Lecture!Renumbered
  <2>2. QED  BY <1>1, <2>1, ShiftedInOrder
<1>2. CASE q.group # q.from /\ g = q.from
  <2>1. a = (IF i >= old THEN i - 1 ELSE i) /\ b = (IF j >= old THEN j - 1 ELSE j)
    BY <1>2 DEF Lecture!Renumbered
  <2>2. i # old /\ j # old
    BY <1>2
  <2> HIDE DEF a, b, old
  <2>3. a \in Int /\ (i < j <=> a < b) /\ (i # j => a # b)
    BY <1>typ, <2>1, <2>2
  <2>4. QED  BY <1>2, <2>3 DEF a, b
<1>3. CASE q.group # q.from /\ g = q.group
  <2>1. a = (IF i >= new THEN i + 1 ELSE i) /\ b = (IF j >= new THEN j + 1 ELSE j)
    BY <1>3 DEF Lecture!Renumbered, Lecture!MakeRoom
  <2> HIDE DEF a, b, new
  <2>2. a \in Int /\ a # new /\ (i < j <=> a < b) /\ (i # j => a # b)
    BY <1>typ, <2>1
  <2>3. QED  BY <2>2 DEF a, b, new
<1>4. CASE g # q.from /\ g # q.group
  <2>1. a = i /\ b = j
    BY <1>4 DEF Lecture!Renumbered
  <2>2. QED  BY <1>4, <2>1
<1>5. QED  BY <1>1, <1>2, <1>3, <1>4

-----------------------------------------------------------------------------
(* Groups and lectures.                                                     *)

LectureRow == [group : Lecture!GroupId \cup {None}, index : Lecture!Index,
               preview : BOOLEAN, deleted : BOOLEAN]

\* Groups of a course, and lectures of a group, have different indexes.
GroupsApart(gs) ==
  \A g, h \in Lecture!GroupId :
    gs[g] # None /\ gs[h] # None /\ g # h /\ gs[g].course = gs[h].course
    => gs[g].index # gs[h].index

LecturesApart(ls) ==
  \A k, l \in Lecture!Lectures :
    k # l /\ ls[k].group = ls[l].group /\ ls[k].group # None => ls[k].index # ls[l].index

\* A lecture's group is there.
GroupsHold(gs, ls) ==
  \A l \in Lecture!Lectures : ls[l].group # None => gs[ls[l].group] # None

\* What a handler has read is as it was, if the group has not been deleted since; and no
\* group has the index that was drawn for a new one.
LectureHeld(q, gs, ls) ==
  /\ q.pc = "numbering" =>
       \A g \in Lecture!GroupId : gs[g] # None /\ gs[g].course = q.course => gs[g].index # q.index
  /\ q.pc \in {"foundGroup", "movingGroup"} /\ gs[q.group] # None =>
       gs[q.group].course = q.course /\ gs[q.group].index = q.old
  /\ q.pc \in {"foundLecture", "movingLecture"} =>
       /\ ls[q.lecture].index = q.old
       /\ ls[q.lecture].group = q.from \/ (q.from # None /\ gs[q.from] = None)
  /\ q.pc = "movingLecture" => q.from # None

LectureInv ==
  /\ overlap \in Nat
  /\ Lecture!TypeOK
  /\ Within(lectureReq)
  /\ GroupsHold(groups, lectures)
  /\ overlap = 1 =>
       /\ GroupsApart(groups) /\ LecturesApart(lectures)
       /\ \A r \in Requests : LectureHeld(lectureReq[r], groups, lectures)

\* Of the lectures every step is their own, with as many handlers as overlap, or none.
LEMMA LectureSteps ==
  ASSUME [PlatformNext]_platform
  PROVE  /\ overlap' = overlap
         /\ (Lecture!Next /\ Within(lectureReq')) \/ UNCHANGED lectureVars
  BY DEF PlatformNext, platform, LectureStep, CatalogueStep, CommunityStep, SupportStep,
     StoreStep, NoticeStep, RewardStep, PricingStep, UploadStep, AccountStep

\* Indexes are numbers.
LEMMA IndexInt ==
  /\ Lecture!Index \subseteq Int
  /\ \A n \in Nat : n <= MaxIndex => n \in Lecture!Index
  BY PlatformBounds DEF Lecture!Index

\* None is no group.
LEMMA NoneNoGroup == None \notin Lecture!Group
  BY NoneIsNoRow, IndexInt DEF Lecture!Group

\* Lectures of a course are counted apart.
LEMMA CountedApart ==
  ASSUME NEW k \in Lecture!Lectures, NEW l \in Lecture!Lectures
  PROVE  /\ Lecture!NumberInCourse(l) \in Nat /\ Lecture!NumberInCourse(l) <= MaxIndex
         /\ k < l /\ CourseOf[k] = CourseOf[l] =>
              Lecture!NumberInCourse(k) < Lecture!NumberInCourse(l)
<1> DEFINE K == {x \in Lecture!Lectures : CourseOf[x] = CourseOf[k] /\ x <= k}
           L == {x \in Lecture!Lectures : CourseOf[x] = CourseOf[l] /\ x <= l}
<1>1. /\ Lecture!NumberInCourse(k) = Cardinality(K)
      /\ Lecture!NumberInCourse(l) = Cardinality(L)
  BY LectureCardinality DEF Lecture!NumberInCourse
<1>2. IsFiniteSet(K) /\ IsFiniteSet(L) /\ Cardinality(K) \in Nat /\ Cardinality(L) \in Nat
      /\ Cardinality(L) <= Cardinality(Lecture!Lectures)
  <2>1. K \in SUBSET Lecture!Lectures /\ L \in SUBSET Lecture!Lectures
    OBVIOUS
  <2>2. QED  BY <2>1, SeededLectures, FS_Subset, FS_CardinalityType
<1>a. Cardinality(Lecture!Lectures) \in Nat /\ MaxIndex \in Nat
      /\ Cardinality(Lecture!Lectures) <= MaxIndex
  BY SeededLectures, PlatformBounds, FS_CardinalityType
<1> HIDE DEF K, L
<1>3. Cardinality(L) <= MaxIndex
  BY <1>2, <1>a
<1>4. ASSUME k < l, CourseOf[k] = CourseOf[l] PROVE Cardinality(K) < Cardinality(L)
  <2>1. k \in Nat /\ l \in Nat /\ \A x \in Lecture!Lectures : x \in Nat
    BY SeededLectures
  <2>a. \A x \in Nat : x <= k => x <= l
    BY <1>4, <2>1
  <2>b. l <= l /\ ~ (l <= k)
    BY <1>4, <2>1
  <2>2. K \in SUBSET L /\ l \in L /\ l \notin K
    BY <1>4, <2>1, <2>a, <2>b DEF K, L
  <2>3. Cardinality(L \ {l}) = Cardinality(L) - 1 /\ IsFiniteSet(L \ {l})
    BY <1>2, <2>2, FS_RemoveElement
  <2>4. K \in SUBSET (L \ {l})
    BY <2>2
  <2>5. Cardinality(K) <= Cardinality(L \ {l})
    BY <2>3, <2>4, FS_Subset
  <2>6. QED  BY <1>2, <2>3, <2>5
<1>5. QED  BY <1>1, <1>2, <1>3, <1>4

\* A course that is seeded has its group, at the first place.
LEMMA GroupSeeded ==
  ASSUME NEW g \in Lecture!TaughtCourses
  PROVE  [course |-> g, index |-> 1] \in Lecture!Group /\ [course |-> g, index |-> 1] # None
<1>1. PICK l \in Lecture!Lectures : TRUE
  BY DEF Lecture!TaughtCourses
<1>2. Cardinality(Lecture!Lectures) # 0 /\ Cardinality(Lecture!Lectures) \in Nat
  BY <1>1, SeededLectures, FS_EmptySet, FS_CardinalityType
<1>3. 1 <= MaxIndex
  BY <1>2, SeededLectures, PlatformBounds
<1>4. [course |-> g, index |-> 1] \in Lecture!Group
  BY <1>3, IndexInt DEF Lecture!Group
<1>5. QED  BY <1>4, NoneNoGroup

\* At first lectures are numbered by their ids.
LEMMA InitLecture == PlatformInit => LectureInv
<1> SUFFICES ASSUME PlatformInit PROVE LectureInv
  OBVIOUS
<1>1. Lecture!Init /\ overlap \in Nat
  BY HandlersAssumption, FS_CardinalityType DEF PlatformInit
<1>2. /\ \A r \in Requests : lectureReq[r] = [pc |-> "idle"]
      /\ \A g \in Lecture!GroupId :
           groups[g] = IF g \in Lecture!TaughtCourses THEN [course |-> g, index |-> 1] ELSE None
  BY <1>1 DEF Lecture!Init, Lecture!Idle
<1>3. \A l \in Lecture!Lectures :
        /\ CourseOf[l] \in Lecture!TaughtCourses /\ CourseOf[l] \in Lecture!GroupId
        /\ Lecture!NumberInCourse(l) \in Lecture!Index
  <2>1. \A l \in Lecture!Lectures : CourseOf[l] \in Lecture!TaughtCourses /\ CourseOf[l] \in Lecture!GroupId
    BY SeededLectures DEF Lecture!TaughtCourses
  <2>2. \A l \in Lecture!Lectures :
          Lecture!NumberInCourse(l) \in Nat /\ Lecture!NumberInCourse(l) <= MaxIndex
    BY CountedApart
  <2>3. QED  BY <2>1, <2>2, IndexInt
<1>a. lectures \in [Lecture!Lectures -> LectureRow]
  BY <1>1, <1>3 DEF Lecture!Init, LectureRow
<1>b. \A l \in Lecture!Lectures :
        lectures[l].group = CourseOf[l] /\ lectures[l].index = Lecture!NumberInCourse(l)
  BY <1>1 DEF Lecture!Init
<1>4. Lecture!TypeOK
  <2>1. groups \in [Lecture!GroupId -> Lecture!Group \cup {None}]
    BY GroupSeeded, <1>1 DEF Lecture!Init
  <2>2. QED  BY <2>1, <1>a, <1>1, <1>2 DEF Lecture!Init, Lecture!TypeOK, Lecture!Request,
               Lecture!Idle, LectureRow
<1>5. Within(lectureReq)
  BY <1>1, <1>2, NoneBusy
<1>6. GroupsHold(groups, lectures)
  <2>1. \A l \in Lecture!Lectures : groups[CourseOf[l]] # None
    BY <1>2, <1>3, GroupSeeded
  <2>2. QED  BY <1>b, <2>1 DEF GroupsHold
<1>7. GroupsApart(groups)
  <2>1. \A g \in Lecture!GroupId : groups[g] # None => groups[g].course = g
    <3>1. ASSUME NEW g \in Lecture!GroupId, groups[g] # None PROVE groups[g].course = g
      <4>1. groups[g] = [course |-> g, index |-> 1]
        BY <1>2, <3>1
      <4>2. QED  BY <4>1
    <3>2. QED  BY <3>1
  <2>2. QED  BY <2>1 DEF GroupsApart
<1>8. LecturesApart(lectures)
  <2>1. ASSUME NEW k \in Lecture!Lectures, NEW l \in Lecture!Lectures, k # l,
               lectures[k].group = lectures[l].group
        PROVE  lectures[k].index # lectures[l].index
    <3>1. CourseOf[k] = CourseOf[l] /\ (k < l \/ l < k)
      BY <1>b, <2>1, SeededLectures
    <3>2. /\ k < l => Lecture!NumberInCourse(k) < Lecture!NumberInCourse(l)
          /\ l < k => Lecture!NumberInCourse(l) < Lecture!NumberInCourse(k)
          /\ Lecture!NumberInCourse(k) \in Nat /\ Lecture!NumberInCourse(l) \in Nat
      BY <3>1, CountedApart
    <3>3. Lecture!NumberInCourse(k) # Lecture!NumberInCourse(l)
      BY <3>1, <3>2
    <3>4. QED  BY <1>b, <3>3
  <2>2. QED  BY <2>1 DEF LecturesApart
<1>9. \A r \in Requests : LectureHeld(lectureReq[r], groups, lectures)
  BY <1>2 DEF LectureHeld
<1>10. QED  BY <1>1, <1>4, <1>5, <1>6, <1>7, <1>8, <1>9 DEF LectureInv

\* What a handler of lectures holds has its fields.
LEMMA LectureFields ==
  ASSUME Lecture!TypeOK, NEW r \in Requests
  PROVE  /\ lectureReq[r].pc = "numbering" =>
              lectureReq[r].course \in Lecture!TaughtCourses /\ lectureReq[r].index \in Lecture!Index
         /\ lectureReq[r].pc \in {"foundGroup", "movingGroup"} =>
              lectureReq[r] \in [pc : {"foundGroup", "movingGroup"}, group : Lecture!GroupId,
                                 course : Lecture!TaughtCourses, old : Lecture!Index, index : Lecture!Index]
         /\ lectureReq[r].pc \in {"foundLecture", "movingLecture"} =>
              lectureReq[r] \in [pc : {"foundLecture", "movingLecture"}, lecture : Lecture!Lectures,
                                 group : Lecture!GroupId, from : Lecture!GroupId \cup {None},
                                 old : Lecture!Index, index : Lecture!Index]
         /\ lectureReq[r].pc = "updating" =>
              lectureReq[r].lecture \in Lecture!Lectures /\ lectureReq[r].preview \in BOOLEAN
<1>1. lectureReq[r] \in Lecture!Request
  BY DEF Lecture!TypeOK
<1>2. QED  BY <1>1 DEF Lecture!Request, Lecture!Idle

\* The fields of groups and lectures.
LEMMA RowFields ==
  ASSUME Lecture!TypeOK
  PROVE  /\ \A g \in Lecture!GroupId : groups[g] # None =>
              /\ groups[g] \in Lecture!Group
              /\ groups[g].course \in Lecture!TaughtCourses /\ groups[g].index \in Int
         /\ \A l \in Lecture!Lectures :
              /\ lectures[l] \in LectureRow
              /\ lectures[l].group \in Lecture!GroupId \cup {None}
              /\ lectures[l].index \in Lecture!Index /\ lectures[l].index \in Int
<1>1. \A g \in Lecture!GroupId : groups[g] # None => groups[g] \in Lecture!Group
  BY DEF Lecture!TypeOK
<1>2. \A g \in Lecture!GroupId : groups[g] # None =>
        groups[g].course \in Lecture!TaughtCourses /\ groups[g].index \in Int
  BY <1>1, IndexInt DEF Lecture!Group
<1>3. \A l \in Lecture!Lectures : lectures[l] \in LectureRow
  BY DEF Lecture!TypeOK, LectureRow
<1>4. \A l \in Lecture!Lectures :
        /\ lectures[l].group \in Lecture!GroupId \cup {None}
        /\ lectures[l].index \in Lecture!Index
  BY <1>3 DEF LectureRow
<1>5. QED  BY <1>1, <1>2, <1>3, <1>4, IndexInt

\* A handler that proceeds is the only one whose step changes.
LEMMA LectureProceeds ==
  ASSUME Lecture!TypeOK, NEW r \in Requests, NEW step \in Lecture!Request, Lecture!Proceed(r, step)
  PROVE  /\ lectureReq' \in [Requests -> Lecture!Request]
         /\ lectureReq'[r] = step /\ \A x \in Requests : x # r => lectureReq'[x] = lectureReq[x]
  BY DEF Lecture!Proceed, Lecture!TypeOK

\* The parts together.
LEMMA LectureTogether ==
  ASSUME LectureInv, overlap' = overlap, Within(lectureReq'), Lecture!TypeOK',
         GroupsHold(groups', lectures'),
         overlap = 1 =>
           /\ GroupsApart(groups') /\ LecturesApart(lectures')
           /\ \A x \in Requests : LectureHeld(lectureReq'[x], groups', lectures')
  PROVE  LectureInv'
BY DEF LectureInv, Within, GroupsHold, GroupsApart, LecturesApart, LectureHeld

\* A handler reads what it starts with, or is done.
LEMMA LectureReads ==
  ASSUME LectureInv, overlap' = overlap, Within(lectureReq'),
         UNCHANGED <<groups, lectures, deleting, completed>>,
         NEW r \in Requests, NEW step \in Lecture!Request, Lecture!Proceed(r, step),
         overlap = 1 => LectureHeld(step, groups, lectures)
  PROVE  LectureInv'
<1>typ. Lecture!TypeOK
  BY DEF LectureInv
<1>1. /\ lectureReq' \in [Requests -> Lecture!Request] /\ lectureReq'[r] = step
      /\ \A x \in Requests : x # r => lectureReq'[x] = lectureReq[x]
  BY <1>typ, LectureProceeds
<1>2. Lecture!TypeOK'
  BY <1>1, <1>typ DEF Lecture!TypeOK
<1>3. /\ GroupsHold(groups', lectures')
      /\ overlap = 1 => GroupsApart(groups') /\ LecturesApart(lectures')
  BY DEF LectureInv
<1>4. overlap = 1 => \A x \in Requests : LectureHeld(lectureReq'[x], groups', lectures')
  BY <1>1 DEF LectureInv
<1>5. QED  BY <1>2, <1>3, <1>4, LectureTogether

\* A handler that is done, when it was the only one, leaves none that holds anything.
LEMMA NoneHolds ==
  ASSUME LectureInv, overlap = 1, NEW r \in Requests, lectureReq[r].pc # "idle",
         Lecture!Proceed(r, Lecture!Idle), NEW x \in Requests
  PROVE  LectureHeld(lectureReq'[x], groups', lectures')
<1>1. lectureReq'[x].pc = "idle"
  <2>1. CASE x = r
    BY <2>1 DEF LectureInv, Lecture!TypeOK, Lecture!Proceed, Lecture!Idle
  <2>2. CASE x # r
    <3>1. lectureReq'[x] = lectureReq[x]
      BY <2>2 DEF LectureInv, Lecture!TypeOK, Lecture!Proceed
    <3>2. lectureReq[x].pc = "idle"
      <4>1. SUFFICES ASSUME lectureReq[x].pc # "idle" PROVE FALSE
        OBVIOUS
      <4>2. r \in Busy(lectureReq) /\ x \in Busy(lectureReq) /\ Within(lectureReq)
        BY <4>1 DEF Busy, LectureInv
      <4>3. QED  BY <2>2, <4>2, Alone
    <3>3. QED  BY <3>1, <3>2
  <2>3. QED  BY <2>1, <2>2
<1>2. QED  BY <1>1 DEF LectureHeld

\* A handler that writes, and is done.
LEMMA LectureWrites ==
  ASSUME LectureInv, overlap' = overlap, Within(lectureReq'), UNCHANGED <<deleting, completed>>,
         NEW r \in Requests, lectureReq[r].pc # "idle", Lecture!Proceed(r, Lecture!Idle),
         groups' \in [Lecture!GroupId -> Lecture!Group \cup {None}],
         lectures' \in [Lecture!Lectures -> LectureRow],
         GroupsHold(groups', lectures'),
         overlap = 1 => GroupsApart(groups') /\ LecturesApart(lectures')
  PROVE  LectureInv'
<1>typ. Lecture!TypeOK /\ Lecture!Idle \in Lecture!Request
  BY DEF LectureInv, Lecture!Idle, Lecture!Request
<1>1. lectureReq' \in [Requests -> Lecture!Request]
  BY <1>typ, LectureProceeds
<1>2. Lecture!TypeOK'
  BY <1>1, <1>typ DEF Lecture!TypeOK, LectureRow
<1>3. overlap = 1 => \A x \in Requests : LectureHeld(lectureReq'[x], groups', lectures')
  BY NoneHolds
<1>4. QED  BY <1>2, <1>3, LectureTogether

\* A group is created at an index that, with one handler at a time, none has.
LEMMA GroupInserted ==
  ASSUME LectureInv, overlap' = overlap, Within(lectureReq'), NEW r \in Requests,
         NEW g \in Lecture!GroupId, Lecture!InsertGroup(r, g)
  PROVE  LectureInv'
<1> DEFINE q == lectureReq[r]
           row == [course |-> q.course, index |-> q.index]
<1>1. /\ q.pc = "numbering" /\ groups[g] = None /\ groups' = [groups EXCEPT ![g] = row]
      /\ Lecture!Proceed(r, Lecture!Idle) /\ UNCHANGED <<lectures, deleting, completed>>
  BY DEF Lecture!InsertGroup, Lecture!Fresh, Lecture!Existing
<1>typ. /\ Lecture!TypeOK /\ groups \in [Lecture!GroupId -> Lecture!Group \cup {None}]
        /\ lectures \in [Lecture!Lectures -> LectureRow]
  BY DEF LectureInv, Lecture!TypeOK, LectureRow
<1>2. row \in Lecture!Group /\ row.course = q.course /\ row.index = q.index
  BY <1>1, <1>typ, LectureFields DEF Lecture!Group
<1>3. row # None
  BY <1>2, NoneNoGroup
<1> HIDE DEF row
<1>4. /\ groups' \in [Lecture!GroupId -> Lecture!Group \cup {None}]
      /\ lectures' \in [Lecture!Lectures -> LectureRow]
      /\ groups'[g] = row /\ \A h \in Lecture!GroupId : h # g => groups'[h] = groups[h]
  BY <1>1, <1>2, <1>typ
<1>5. GroupsHold(groups', lectures')
  <2>1. \A h \in Lecture!GroupId : groups[h] # None => groups'[h] # None
    BY <1>3, <1>4
  <2>2. QED  BY <2>1, <1>1, <1>typ, RowFields DEF LectureInv, GroupsHold
<1>6. ASSUME overlap = 1 PROVE GroupsApart(groups') /\ LecturesApart(lectures')
  <2>1. /\ GroupsApart(groups) /\ LecturesApart(lectures)
        /\ LectureHeld(q, groups, lectures)
    BY <1>6 DEF LectureInv
  <2>2. \A h \in Lecture!GroupId :
          groups[h] # None /\ groups[h].course = q.course => groups[h].index # q.index
    BY <1>1, <2>1 DEF LectureHeld
  <2>3. GroupsApart(groups')
    BY <1>2, <1>4, <2>1, <2>2 DEF GroupsApart
  <2>4. QED  BY <1>1, <2>1, <2>3
<1>7. q.pc # "idle"
  BY <1>1
<1>8. QED  BY <1>1, <1>4, <1>5, <1>6, <1>7, LectureWrites

\* The transaction of rearrangeLectureGroup: the group is placed where it was asked to be,
\* and the others of the course are shifted.
LEMMA GroupsMoved ==
  ASSUME Lecture!TypeOK, NEW r \in Requests, Lecture!MoveGroup(r), NEW h \in Lecture!GroupId
  PROVE  LET q == lectureReq[r] IN
         /\ groups[h] = None => groups'[h] = None
         /\ groups[h] # None =>
              /\ groups'[h] # None /\ groups'[h].course = groups[h].course
              /\ groups'[h].index =
                   IF h = q.group THEN q.index
                   ELSE IF groups[h].course = q.course
                          THEN Lecture!Shifted(groups[h].index, q.old, q.index)
                          ELSE groups[h].index
<1> DEFINE q == lectureReq[r]
           put == [groups[h] EXCEPT !.index = q.index]
           shifted == [groups[h] EXCEPT !.index = Lecture!Shifted(groups[h].index, q.old, q.index)]
<1>1. q.group \in Lecture!GroupId /\ groups[q.group] # None
  BY LectureFields DEF Lecture!MoveGroup, Lecture!Existing
<1>2. groups'[h] \in Lecture!Group \cup {None}
  BY DEF Lecture!MoveGroup
<1>3. CASE h = q.group
  <2>1. groups'[h] = put
    BY <1>3 DEF Lecture!MoveGroup
  <2>2. groups[h] \in Lecture!Group /\ groups[h] # None
    BY <1>1, <1>3, RowFields
  <2>3. put.course = groups[h].course /\ put.index = q.index
    BY <2>2 DEF Lecture!Group
  <2>4. put # None
    <3>1. q.index \in Lecture!Index
      BY LectureFields DEF Lecture!MoveGroup
    <3>2. put \in Lecture!Group
      BY <2>2, <3>1 DEF Lecture!Group
    <3>3. QED  BY <3>2, NoneNoGroup
  <2> HIDE DEF put
  <2>5. QED  BY <1>3, <2>1, <2>2, <2>3, <2>4
<1>4. CASE h # q.group /\ groups[h] # None /\ groups[h].course = q.course
  <2>1. groups'[h] = shifted
    BY <1>4 DEF Lecture!MoveGroup, Lecture!GroupsOf, Lecture!Existing
  <2>2. groups[h] \in Lecture!Group
    BY <1>4, RowFields
  <2>3. shifted.course = groups[h].course
        /\ shifted.index = Lecture!Shifted(groups[h].index, q.old, q.index)
    BY <2>2 DEF Lecture!Group
  <2>4. shifted # None
    <3>1. Lecture!Shifted(groups[h].index, q.old, q.index) \in Int
      <4>1. groups[h].index \in Int /\ q.old \in Int /\ q.index \in Int
        BY <1>4, RowFields, LectureFields, IndexInt DEF Lecture!MoveGroup
      <4>2. QED  BY <4>1, ShiftedIs
    <3>2. shifted \in [course : Lecture!TaughtCourses, index : Int]
      BY <2>2, <3>1 DEF Lecture!Group
    <3>3. QED  BY <3>2, NoneIsNoRow
  <2> HIDE DEF shifted
  <2>5. QED  BY <1>4, <2>1, <2>3, <2>4
<1>5. CASE h # q.group /\ (groups[h] = None \/ groups[h].course # q.course)
  <2>1. groups'[h] = groups[h]
    BY <1>5 DEF Lecture!MoveGroup, Lecture!GroupsOf, Lecture!Existing
  <2>2. QED  BY <1>5, <2>1
<1>6. QED  BY <1>3, <1>4, <1>5

\* With one handler at a time, what rearrangeLectureGroup had read is still so, and the
\* groups of each course keep their order but for the one that is moved.
LEMMA GroupsInOrder ==
  ASSUME LectureInv, overlap = 1, NEW r \in Requests, Lecture!MoveGroup(r),
         NEW g \in Lecture!GroupId, NEW h \in Lecture!GroupId,
         groups[g] # None, groups[h] # None, g # h, groups[g].course = groups[h].course
  PROVE  /\ groups'[g].index # groups'[h].index
         /\ g # lectureReq[r].group /\ h # lectureReq[r].group =>
              (groups[g].index < groups[h].index <=> groups'[g].index < groups'[h].index)
<1> DEFINE q == lectureReq[r]
           a == groups[g].index
           b == groups[h].index
<1>1. /\ Lecture!TypeOK /\ GroupsApart(groups) /\ LectureHeld(q, groups, lectures)
      /\ q.pc = "movingGroup" /\ groups[q.group] # None
  BY DEF LectureInv, Lecture!MoveGroup, Lecture!Existing
<1>2. /\ q.group \in Lecture!GroupId /\ q.old \in Int /\ q.index \in Int
      /\ groups[q.group].course = q.course /\ groups[q.group].index = q.old
  BY <1>1, LectureFields, IndexInt DEF LectureHeld
<1>3. a \in Int /\ b \in Int /\ a # b
  BY <1>1, RowFields DEF GroupsApart
<1>4. /\ groups'[g].index = IF g = q.group THEN q.index
                            ELSE IF groups[g].course = q.course
                                   THEN Lecture!Shifted(a, q.old, q.index) ELSE a
      /\ groups'[h].index = IF h = q.group THEN q.index
                            ELSE IF groups[h].course = q.course
                                   THEN Lecture!Shifted(b, q.old, q.index) ELSE b
  BY <1>1, GroupsMoved
<1>5. CASE groups[g].course # q.course
  <2>1. g # q.group /\ h # q.group /\ groups[h].course # q.course
    BY <1>2, <1>5
  <2>2. groups'[g].index = a /\ groups'[h].index = b
    BY <1>4, <1>5, <2>1
  <2>3. QED  BY <1>3, <2>2
<1>6. CASE groups[g].course = q.course /\ g # q.group /\ h # q.group
  <2>1. a # q.old /\ b # q.old
    BY <1>1, <1>2, <1>6 DEF GroupsApart
  <2>2. /\ groups'[g].index = Lecture!Shifted(a, q.old, q.index)
        /\ groups'[h].index = Lecture!Shifted(b, q.old, q.index)
    BY <1>4, <1>6
  <2> HIDE DEF a, b, q
  <2>3. /\ a < b <=> Lecture!Shifted(a, q.old, q.index) < Lecture!Shifted(b, q.old, q.index)
        /\ Lecture!Shifted(a, q.old, q.index) # Lecture!Shifted(b, q.old, q.index)
    BY <1>2, <1>3, <2>1, ShiftedInOrder
  <2>4. QED  BY <2>2, <2>3 DEF a, b, q
<1>7. CASE g = q.group
  <2>1. b # q.old /\ h # q.group /\ groups[h].course = q.course
    BY <1>1, <1>2, <1>7 DEF GroupsApart
  <2>2. groups'[g].index = q.index /\ groups'[h].index = Lecture!Shifted(b, q.old, q.index)
    BY <1>4, <1>7, <2>1
  <2>3. Lecture!Shifted(b, q.old, q.index) # q.index
    BY <1>2, <1>3, <2>1, ShiftedInOrder
  <2>4. QED  BY <1>7, <2>2, <2>3
<1>8. CASE h = q.group
  <2>1. a # q.old /\ g # q.group /\ groups[g].course = q.course
    BY <1>1, <1>2, <1>8 DEF GroupsApart
  <2>2. groups'[h].index = q.index /\ groups'[g].index = Lecture!Shifted(a, q.old, q.index)
    BY <1>4, <1>8, <2>1
  <2>3. Lecture!Shifted(a, q.old, q.index) # q.index
    BY <1>2, <1>3, <2>1, ShiftedInOrder
  <2>4. QED  BY <1>8, <2>2, <2>3
<1>9. QED  BY <1>5, <1>6, <1>7, <1>8

\* The groups are rearranged, whatever has been done to them since they were read.
LEMMA GroupMoved ==
  ASSUME LectureInv, overlap' = overlap, Within(lectureReq'), NEW r \in Requests,
         Lecture!MoveGroup(r)
  PROVE  LectureInv'
<1>1. /\ lectureReq[r].pc # "idle" /\ Lecture!Proceed(r, Lecture!Idle)
      /\ UNCHANGED <<lectures, deleting, completed>>
      /\ groups' \in [Lecture!GroupId -> Lecture!Group \cup {None}]
  BY DEF Lecture!MoveGroup
<1>typ. Lecture!TypeOK /\ lectures' \in [Lecture!Lectures -> LectureRow]
  BY <1>1 DEF LectureInv, Lecture!TypeOK, LectureRow
<1>2. \A h \in Lecture!GroupId :
        /\ groups[h] = None => groups'[h] = None
        /\ groups[h] # None => groups'[h] # None /\ groups'[h].course = groups[h].course
  BY <1>typ, GroupsMoved
<1>3. GroupsHold(groups', lectures')
  BY <1>1, <1>2, <1>typ, RowFields DEF LectureInv, GroupsHold
<1>4. ASSUME overlap = 1 PROVE GroupsApart(groups') /\ LecturesApart(lectures')
  <2>1. ASSUME NEW g \in Lecture!GroupId, NEW h \in Lecture!GroupId, groups'[g] # None,
               groups'[h] # None, g # h, groups'[g].course = groups'[h].course
        PROVE  groups'[g].index # groups'[h].index
    <3>1. groups[g] # None /\ groups[h] # None /\ groups[g].course = groups[h].course
      BY <1>2, <2>1
    <3>2. QED  BY <1>4, <2>1, <3>1, GroupsInOrder
  <2>2. GroupsApart(groups')
    BY <2>1 DEF GroupsApart
  <2>3. QED  BY <1>1, <1>4, <2>2 DEF LectureInv
<1>5. QED  BY <1>1, <1>typ, <1>3, <1>4, LectureWrites

\* The transaction of rearrangeLectureInGroup.
LEMMA LecturesMoved ==
  ASSUME Lecture!TypeOK, NEW r \in Requests, Lecture!MoveLecture(r), NEW l \in Lecture!Lectures
  PROVE  LET q == lectureReq[r] IN
         /\ lectures'[l].group = IF l = q.lecture THEN q.group ELSE lectures[l].group
         /\ lectures'[l].index =
              IF l = q.lecture THEN q.index
              ELSE IF lectures[l].group = None THEN lectures[l].index
                   ELSE Lecture!Renumbered(lectures[l].index, lectures[l].group, q)
         /\ lectures'[l] \in LectureRow
<1> DEFINE q == lectureReq[r]
           i == IF lectures[l].group = None THEN lectures[l].index
                ELSE Lecture!Renumbered(lectures[l].index, lectures[l].group, q)
           put == [lectures[l] EXCEPT !.group = q.group, !.index = q.index]
           other == [lectures[l] EXCEPT !.index = i]
<1>1. /\ lectures'[l] = IF l = q.lecture THEN put ELSE other
      /\ lectures'[l].index \in Lecture!Index
  BY DEF Lecture!MoveLecture
<1>2. lectures[l] \in LectureRow
  BY RowFields
<1>3. q.group \in Lecture!GroupId /\ q.index \in Lecture!Index
  BY LectureFields DEF Lecture!MoveLecture
<1>4. CASE l = q.lecture
  <2>1. put \in LectureRow /\ put.group = q.group /\ put.index = q.index
    BY <1>2, <1>3 DEF LectureRow
  <2> HIDE DEF put
  <2>2. QED  BY <1>1, <1>4, <2>1
<1>5. CASE l # q.lecture
  <2> HIDE DEF i
  <2>1. other.group = lectures[l].group /\ other.index = i
    BY <1>2 DEF LectureRow
  <2>2. i \in Lecture!Index
    BY <1>1, <1>5, <2>1
  <2>3. other \in LectureRow
    BY <1>2, <2>2 DEF LectureRow
  <2> HIDE DEF other
  <2>4. QED  BY <1>1, <1>5, <2>1, <2>3 DEF i
<1>6. QED  BY <1>4, <1>5

\* With one handler at a time the lectures of each group keep their order but for the one
\* that is moved: where it came from, it still is, or the group is gone.
LEMMA LecturesInOrder ==
  ASSUME LectureInv, overlap = 1, NEW r \in Requests, Lecture!MoveLecture(r),
         NEW k \in Lecture!Lectures, NEW l \in Lecture!Lectures, k # l,
         k # lectureReq[r].lecture, l # lectureReq[r].lecture,
         lectures[k].group = lectures[l].group, lectures[k].group # None
  PROVE  /\ lectures'[k].index # lectures'[l].index
         /\ lectures[k].index < lectures[l].index <=> lectures'[k].index < lectures'[l].index
<1> DEFINE q == lectureReq[r]
           g == lectures[k].group
           a == lectures[k].index
           b == lectures[l].index
<1>1. /\ Lecture!TypeOK /\ LecturesApart(lectures) /\ LectureHeld(q, groups, lectures)
      /\ q.pc = "movingLecture" /\ GroupsHold(groups, lectures)
  BY DEF LectureInv, Lecture!MoveLecture
<1>2. /\ q.old \in Int /\ q.index \in Int /\ q.lecture \in Lecture!Lectures
      /\ lectures[q.lecture].index = q.old
      /\ lectures[q.lecture].group = q.from \/ (q.from # None /\ groups[q.from] = None)
  BY <1>1, LectureFields, IndexInt DEF LectureHeld
<1>3. a \in Int /\ b \in Int /\ a # b /\ groups[g] # None
  BY <1>1, RowFields DEF LecturesApart, GroupsHold
<1>4. g = q.from => a # q.old /\ b # q.old
  BY <1>1, <1>2, <1>3 DEF LecturesApart
<1>5. /\ lectures'[k].index = Lecture!Renumbered(a, g, q)
      /\ lectures'[l].index = Lecture!Renumbered(b, g, q)
  BY <1>1, LecturesMoved
<1> HIDE DEF a, b, g, q
<1>6. /\ a < b <=> Lecture!Renumbered(a, g, q) < Lecture!Renumbered(b, g, q)
      /\ Lecture!Renumbered(a, g, q) # Lecture!Renumbered(b, g, q)
  BY <1>2, <1>3, <1>4, RenumberedInOrder
<1>7. QED  BY <1>5, <1>6 DEF a, b

\* ... and where it goes to the place is free.
LEMMA PlaceFree ==
  ASSUME LectureInv, overlap = 1, NEW r \in Requests, Lecture!MoveLecture(r),
         NEW k \in Lecture!Lectures, k # lectureReq[r].lecture,
         lectures[k].group = lectureReq[r].group
  PROVE  lectures'[k].index # lectureReq[r].index
<1> DEFINE q == lectureReq[r]
           g == lectures[k].group
           a == lectures[k].index
<1>1. /\ Lecture!TypeOK /\ LecturesApart(lectures) /\ LectureHeld(q, groups, lectures)
      /\ q.pc = "movingLecture" /\ GroupsHold(groups, lectures)
  BY DEF LectureInv, Lecture!MoveLecture
<1>2. /\ q.old \in Int /\ q.index \in Int /\ q.lecture \in Lecture!Lectures
      /\ q.group \in Lecture!GroupId
      /\ lectures[q.lecture].index = q.old
      /\ lectures[q.lecture].group = q.from \/ (q.from # None /\ groups[q.from] = None)
  BY <1>1, LectureFields, IndexInt DEF LectureHeld
<1>3. a \in Int /\ g # None /\ groups[g] # None
  BY <1>1, <1>2, RowFields, NoneIsNoRow DEF GroupsHold
<1>4. g = q.from => a # q.old
  BY <1>1, <1>2, <1>3 DEF LecturesApart
<1>5. lectures'[k].index = Lecture!Renumbered(a, g, q)
  BY <1>1, <1>3, LecturesMoved
<1>6. g = q.group
  OBVIOUS
<1> HIDE DEF a, g, q
<1>7. Lecture!Renumbered(a, g, q) # q.index
  BY <1>2, <1>3, <1>4, <1>6, RenumberedInOrder
<1>8. QED  BY <1>5, <1>7 DEF a, q

\* The lectures are rearranged, whatever has been deleted since they were read.
LEMMA LectureMoved ==
  ASSUME LectureInv, overlap' = overlap, Within(lectureReq'), NEW r \in Requests,
         Lecture!MoveLecture(r)
  PROVE  LectureInv'
<1> DEFINE q == lectureReq[r]
<1>1. /\ lectureReq[r].pc # "idle" /\ Lecture!Proceed(r, Lecture!Idle)
      /\ UNCHANGED <<groups, deleting, completed>>
      /\ q.pc = "movingLecture" /\ groups[q.group] # None
  BY DEF Lecture!MoveLecture, Lecture!Existing
<1>typ. /\ Lecture!TypeOK /\ GroupsHold(groups, lectures)
        /\ groups' \in [Lecture!GroupId -> Lecture!Group \cup {None}]
  BY <1>1 DEF LectureInv, Lecture!TypeOK
<1>2. q.group \in Lecture!GroupId /\ q.group # None
  BY <1>1, <1>typ, LectureFields, NoneIsNoRow
<1>3. lectures' \in [Lecture!Lectures -> LectureRow]
  <2>1. \A l \in Lecture!Lectures : lectures'[l] \in LectureRow
    BY <1>typ, LecturesMoved
  <2>2. lectures' = [l \in Lecture!Lectures |-> lectures'[l]]
    BY Zenon DEF Lecture!MoveLecture
  <2>3. QED  BY <2>1, <2>2
<1>4. \A l \in Lecture!Lectures :
        lectures'[l].group = IF l = q.lecture THEN q.group ELSE lectures[l].group
  BY <1>typ, LecturesMoved
<1>5. GroupsHold(groups', lectures')
  BY <1>1, <1>4, <1>typ DEF GroupsHold
<1>6. ASSUME overlap = 1 PROVE GroupsApart(groups') /\ LecturesApart(lectures')
  <2>1. ASSUME NEW k \in Lecture!Lectures, NEW l \in Lecture!Lectures, k # l,
               lectures'[k].group = lectures'[l].group, lectures'[k].group # None
        PROVE  lectures'[k].index # lectures'[l].index
    <3>1. CASE k # q.lecture /\ l # q.lecture
      <4>1. lectures[k].group = lectures[l].group /\ lectures[k].group # None
        BY <1>4, <2>1, <3>1
      <4>2. QED  BY <1>6, <2>1, <3>1, <4>1, LecturesInOrder
    <3>2. CASE k = q.lecture
      <4>1. l # q.lecture /\ lectures[l].group = q.group
        BY <1>4, <2>1, <3>2
      <4>2. lectures'[k].index = q.index
        BY <3>2, <1>typ, LecturesMoved
      <4>3. lectures'[l].index # q.index
        BY <1>6, <4>1, PlaceFree
      <4>4. QED  BY <4>2, <4>3
    <3>3. CASE l = q.lecture
      <4>1. k # q.lecture /\ lectures[k].group = q.group
        BY <1>4, <2>1, <3>3
      <4>2. lectures'[l].index = q.index
        BY <3>3, <1>typ, LecturesMoved
      <4>3. lectures'[k].index # q.index
        BY <1>6, <4>1, PlaceFree
      <4>4. QED  BY <4>2, <4>3
    <3>4. QED  BY <3>1, <3>2, <3>3
  <2>2. LecturesApart(lectures')
    BY <2>1 DEF LecturesApart
  <2>3. QED  BY <1>1, <1>6, <2>2 DEF LectureInv
<1>7. QED  BY <1>1, <1>typ, <1>3, <1>5, <1>6, LectureWrites

\* A group's lectures lose it as it is deleted.
LEMMA GroupsLost ==
  ASSUME Lecture!TypeOK, NEW g \in Lecture!GroupId, Lecture!FinishDelete(g)
  PROVE  /\ \A h \in Lecture!GroupId : groups'[h] = IF h = g THEN None ELSE groups[h]
         /\ groups' \in [Lecture!GroupId -> Lecture!Group \cup {None}]
         /\ \A l \in Lecture!Lectures :
              /\ lectures'[l].group = IF lectures[l].group = g THEN None ELSE lectures[l].group
              /\ lectures'[l].index = lectures[l].index
         /\ lectures' \in [Lecture!Lectures -> LectureRow]
<1>1. /\ \A h \in Lecture!GroupId : groups'[h] = IF h = g THEN None ELSE groups[h]
      /\ groups' \in [Lecture!GroupId -> Lecture!Group \cup {None}]
  BY DEF Lecture!FinishDelete, Lecture!TypeOK
<1>2. ASSUME NEW l \in Lecture!Lectures
      PROVE  /\ lectures'[l].group = IF lectures[l].group = g THEN None ELSE lectures[l].group
             /\ lectures'[l].index = lectures[l].index
             /\ lectures'[l] \in LectureRow
  <2> DEFINE row == [lectures[l] EXCEPT !.group = None]
  <2>1. lectures'[l] = IF lectures[l].group = g THEN row ELSE lectures[l]
    BY DEF Lecture!FinishDelete, Lecture!LecturesOf
  <2>2. lectures[l] \in LectureRow
    BY RowFields
  <2>3. row \in LectureRow /\ row.group = None /\ row.index = lectures[l].index
    BY <2>2 DEF LectureRow
  <2> HIDE DEF row
  <2>4. QED  BY <2>1, <2>2, <2>3
<1>3. lectures' \in [Lecture!Lectures -> LectureRow]
  <2>1. lectures' = [l \in Lecture!Lectures |-> lectures'[l]]
    BY Zenon DEF Lecture!FinishDelete
  <2>2. QED  BY <1>2, <2>1
<1>4. QED  BY <1>1, <1>2, <1>3

\* What a handler has read of a group that is deleted meanwhile it no longer uses.
LEMMA GroupDeleted ==
  ASSUME LectureInv, overlap' = overlap, Within(lectureReq'), NEW g \in Lecture!GroupId,
         Lecture!FinishDelete(g)
  PROVE  LectureInv'
<1>1. deleting' \subseteq Lecture!GroupId /\ UNCHANGED <<completed, lectureReq>>
  BY DEF Lecture!FinishDelete, LectureInv, Lecture!TypeOK
<1>typ. Lecture!TypeOK /\ g # None
  BY NoneIsNoRow DEF LectureInv
<1>2. /\ \A h \in Lecture!GroupId : groups'[h] = IF h = g THEN None ELSE groups[h]
      /\ groups' \in [Lecture!GroupId -> Lecture!Group \cup {None}]
      /\ \A l \in Lecture!Lectures :
           /\ lectures'[l].group = IF lectures[l].group = g THEN None ELSE lectures[l].group
           /\ lectures'[l].index = lectures[l].index
      /\ lectures' \in [Lecture!Lectures -> LectureRow]
  BY <1>typ, GroupsLost
<1>3. Lecture!TypeOK'
  BY <1>1, <1>2, <1>typ DEF Lecture!TypeOK, LectureRow
<1>4. GroupsHold(groups', lectures')
  BY <1>2, <1>typ, RowFields DEF LectureInv, GroupsHold
<1>5. ASSUME overlap = 1
      PROVE  /\ GroupsApart(groups') /\ LecturesApart(lectures')
             /\ \A x \in Requests : LectureHeld(lectureReq'[x], groups', lectures')
  <2>1. GroupsApart(groups) /\ LecturesApart(lectures)
    BY <1>5 DEF LectureInv
  <2>2. GroupsApart(groups') /\ LecturesApart(lectures')
    BY <1>2, <2>1 DEF GroupsApart, LecturesApart
  <2>3. ASSUME NEW x \in Requests PROVE LectureHeld(lectureReq[x], groups', lectures')
    <3> DEFINE q == lectureReq[x]
    <3>1. LectureHeld(q, groups, lectures)
      BY <1>5 DEF LectureInv
    <3>2. /\ q.pc \in {"foundGroup", "movingGroup"} => q.group \in Lecture!GroupId
          /\ q.pc \in {"foundLecture", "movingLecture"} =>
               q.lecture \in Lecture!Lectures /\ q.from \in Lecture!GroupId \cup {None}
      BY <1>typ, LectureFields
    <3> HIDE DEF q
    <3>3. q.pc = "numbering" =>
            \A h \in Lecture!GroupId : groups'[h] # None /\ groups'[h].course = q.course
                                       => groups'[h].index # q.index
      BY <1>2, <3>1 DEF LectureHeld
    <3>4. q.pc \in {"foundGroup", "movingGroup"} /\ groups'[q.group] # None =>
            groups'[q.group].course = q.course /\ groups'[q.group].index = q.old
      BY <1>2, <3>1, <3>2 DEF LectureHeld
    <3>5. q.pc \in {"foundLecture", "movingLecture"} =>
            /\ lectures'[q.lecture].index = q.old
            /\ lectures'[q.lecture].group = q.from \/ (q.from # None /\ groups'[q.from] = None)
      BY <1>2, <1>typ, <3>1, <3>2 DEF LectureHeld
    <3>6. LectureHeld(q, groups', lectures')
      BY <3>1, <3>3, <3>4, <3>5 DEF LectureHeld
    <3>7. QED  BY <3>6 DEF q
  <2>4. QED  BY <1>1, <2>2, <2>3
<1>6. QED  BY <1>3, <1>4, <1>5, LectureTogether

\* The index that is drawn for a new group is none of its course's.
LEMMA IndexDrawn ==
  ASSUME Lecture!TypeOK, NEW c \in Lecture!TaughtCourses, NEW g \in Lecture!GroupId,
         groups[g] # None, groups[g].course = c
  PROVE  groups[g].index # Lecture!NextIndex(c)
<1> DEFINE S == {groups[h].index : h \in Lecture!GroupsOf(c)}
<1>1. g \in Lecture!GroupsOf(c)
  BY DEF Lecture!GroupsOf, Lecture!Existing
<1>2. \A h \in Lecture!GroupsOf(c) : groups[h].index \in Lecture!Index
  BY DEF Lecture!GroupsOf, Lecture!Existing, Lecture!TypeOK, Lecture!Group
<1>3. MaxIndex \in Int /\ \A i \in Lecture!Index : i \in Int /\ i <= MaxIndex
  BY PlatformBounds DEF Lecture!Index
<1>4. groups[g].index \in S /\ S \subseteq Int /\ \A i \in S : i <= MaxIndex
  BY <1>1, <1>2, <1>3
<1>5. Lecture!NextIndex(c) = Lecture!Highest(S) + 1
  BY <1>1 DEF Lecture!NextIndex, Lecture!LastGroupIndex
<1>6. groups[g].index \in Int /\ Lecture!Highest(S) \in Int /\ groups[g].index <= Lecture!Highest(S)
  <2> HIDE DEF S
  <2>1. Lecture!Highest(S) \in S /\ \A j \in S : j <= Lecture!Highest(S)
    BY <1>3, <1>4, HighestIs
  <2>2. QED  BY <1>4, <2>1
<1>7. QED  BY <1>5, <1>6

\* What lectures are changed to when they are not rearranged: they stay where they are.
LEMMA PlacesStay ==
  ASSUME LectureInv, overlap' = overlap, Within(lectureReq'), UNCHANGED <<groups, completed>>,
         deleting' = deleting, lectureReq' \in [Requests -> Lecture!Request],
         lectures' \in [Lecture!Lectures -> LectureRow],
         \A l \in Lecture!Lectures :
           lectures'[l].group = lectures[l].group /\ lectures'[l].index = lectures[l].index,
         \A x \in Requests : lectureReq'[x] = lectureReq[x] \/ lectureReq'[x].pc = "idle"
  PROVE  LectureInv'
<1>1. Lecture!TypeOK' /\ Lecture!TypeOK
  BY DEF LectureInv, Lecture!TypeOK, LectureRow
<1>2. GroupsHold(groups', lectures')
  BY DEF LectureInv, GroupsHold
<1>3. ASSUME overlap = 1
      PROVE  /\ GroupsApart(groups') /\ LecturesApart(lectures')
             /\ \A x \in Requests : LectureHeld(lectureReq'[x], groups', lectures')
  <2>1. GroupsApart(groups') /\ LecturesApart(lectures')
    BY <1>3 DEF LectureInv, LecturesApart
  <2>2. ASSUME NEW x \in Requests PROVE LectureHeld(lectureReq'[x], groups', lectures')
    <3>1. CASE lectureReq'[x].pc = "idle"
      BY <3>1 DEF LectureHeld
    <3>2. CASE lectureReq'[x] = lectureReq[x]
      <4> DEFINE q == lectureReq[x]
      <4>1. LectureHeld(q, groups, lectures)
        BY <1>3 DEF LectureInv
      <4>2. q.pc \in {"foundLecture", "movingLecture"} => q.lecture \in Lecture!Lectures
        BY <1>1, LectureFields
      <4> HIDE DEF q
      <4>3. LectureHeld(q, groups, lectures')
        BY <4>1, <4>2 DEF LectureHeld
      <4>4. QED  BY <3>2, <4>3 DEF q
    <3>3. QED  BY <3>1, <3>2
  <2>3. QED  BY <2>1, <2>2
<1>4. QED  BY <1>1, <1>2, <1>3, LectureTogether

\* The invariant is inductive.
LEMMA NextLecture ==
  ASSUME LectureInv, [PlatformNext]_platform
  PROVE  LectureInv'
<1>ov. overlap' = overlap
  BY LectureSteps
<1>typ. Lecture!TypeOK
  BY DEF LectureInv
<1>idle. Lecture!Idle \in Lecture!Request /\ Lecture!Idle.pc = "idle"
         /\ LectureHeld(Lecture!Idle, groups, lectures)
  BY DEF Lecture!Idle, Lecture!Request, LectureHeld
<1>1. ASSUME NEW r \in Requests, Within(lectureReq'), NEW c \in Lecture!TaughtCourses,
             Lecture!CreateGroup(r, c)
      PROVE  LectureInv'
  <2> DEFINE step == [pc |-> "numbering", course |-> c, index |-> Lecture!NextIndex(c)]
  <2>1. /\ Lecture!NextIndex(c) \in Lecture!Index /\ Lecture!Proceed(r, step)
        /\ UNCHANGED <<groups, lectures, deleting, completed>>
    BY <1>1 DEF Lecture!CreateGroup
  <2>2. step \in Lecture!Request
    BY <2>1 DEF Lecture!Request
  <2>3. LectureHeld(step, groups, lectures)
    BY <1>typ, IndexDrawn DEF LectureHeld
  <2> HIDE DEF step
  <2>4. QED  BY <1>1, <1>ov, <2>1, <2>2, <2>3, LectureReads
<1>2. ASSUME NEW r \in Requests, Within(lectureReq'), NEW g \in Lecture!GroupId,
             NEW i \in Lecture!Index, Lecture!RearrangeGroup(r, g, i)
      PROVE  LectureInv'
  <2> DEFINE step == [pc |-> "foundGroup", group |-> g, course |-> groups[g].course,
                      old |-> groups[g].index, index |-> i]
  <2>1. /\ groups[g] # None /\ Lecture!Proceed(r, step)
        /\ UNCHANGED <<groups, lectures, deleting, completed>>
    BY <1>2 DEF Lecture!RearrangeGroup, Lecture!Existing
  <2>2. groups[g].course \in Lecture!TaughtCourses /\ groups[g].index \in Lecture!Index
        /\ i \in Lecture!Index
    BY <2>1, <1>typ, IndexInt, PlatformBounds DEF Lecture!TypeOK, Lecture!Group
  <2>3. step \in Lecture!Request
    BY <2>2 DEF Lecture!Request
  <2>4. LectureHeld(step, groups, lectures)
    BY DEF LectureHeld
  <2> HIDE DEF step
  <2>5. QED  BY <1>2, <1>ov, <2>1, <2>3, <2>4, LectureReads
<1>3. ASSUME NEW r \in Requests, Within(lectureReq'), Lecture!CheckGroupIndex(r) PROVE LectureInv'
  <2> DEFINE q == lectureReq[r]
             moving == [q EXCEPT !.pc = "movingGroup"]
             step == IF q.old = q.index THEN Lecture!Idle ELSE moving
  <2>1. /\ q.pc = "foundGroup" /\ Lecture!Proceed(r, step)
        /\ UNCHANGED <<groups, lectures, deleting, completed>>
    BY <1>3 DEF Lecture!CheckGroupIndex
  <2>2. q \in [pc : {"foundGroup", "movingGroup"}, group : Lecture!GroupId,
               course : Lecture!TaughtCourses, old : Lecture!Index, index : Lecture!Index]
    BY <1>typ, <2>1, LectureFields
  <2>3. overlap = 1 => LectureHeld(q, groups, lectures)
    BY DEF LectureInv
  <2> HIDE DEF q
  <2>4. /\ moving \in [pc : {"foundGroup", "movingGroup"}, group : Lecture!GroupId,
                       course : Lecture!TaughtCourses, old : Lecture!Index, index : Lecture!Index]
        /\ moving.pc = "movingGroup" /\ moving.group = q.group /\ moving.course = q.course
        /\ moving.old = q.old
    BY <2>2
  <2> HIDE DEF moving
  <2>5. moving \in Lecture!Request /\ (overlap = 1 => LectureHeld(moving, groups, lectures))
    BY <2>1, <2>3, <2>4 DEF LectureHeld, Lecture!Request
  <2>6. step \in Lecture!Request /\ (overlap = 1 => LectureHeld(step, groups, lectures))
    BY <1>idle, <2>5
  <2> HIDE DEF step
  <2>7. QED  BY <1>3, <1>ov, <2>1, <2>6, LectureReads
<1>4. ASSUME NEW r \in Requests, Within(lectureReq'), NEW l \in Lecture!Lectures,
             NEW g \in Lecture!GroupId, NEW i \in Lecture!Index, Lecture!RearrangeLecture(r, l, g, i)
      PROVE  LectureInv'
  <2> DEFINE step == [pc |-> "foundLecture", lecture |-> l, group |-> g, index |-> i,
                      from |-> lectures[l].group, old |-> lectures[l].index]
  <2>1. Lecture!Proceed(r, step) /\ UNCHANGED <<groups, lectures, deleting, completed>>
    BY <1>4 DEF Lecture!RearrangeLecture
  <2>2. /\ lectures[l].group \in Lecture!GroupId \cup {None} /\ lectures[l].index \in Lecture!Index
        /\ i \in Lecture!Index
    BY <1>typ, RowFields, IndexInt, PlatformBounds
  <2>3. step \in Lecture!Request
    BY <2>2 DEF Lecture!Request
  <2>4. LectureHeld(step, groups, lectures)
    BY DEF LectureHeld
  <2> HIDE DEF step
  <2>5. QED  BY <1>4, <1>ov, <2>1, <2>3, <2>4, LectureReads
<1>5. ASSUME NEW r \in Requests, Within(lectureReq'), Lecture!CheckLectureIndex(r) PROVE LectureInv'
  <2> DEFINE q == lectureReq[r]
             moving == [q EXCEPT !.pc = "movingLecture"]
             step == IF q.group = q.from /\ q.old = q.index THEN Lecture!Idle ELSE moving
  <2>1. /\ q.pc = "foundLecture" /\ q.from # None /\ Lecture!Proceed(r, step)
        /\ UNCHANGED <<groups, lectures, deleting, completed>>
    BY <1>5 DEF Lecture!CheckLectureIndex
  <2>2. q \in [pc : {"foundLecture", "movingLecture"}, lecture : Lecture!Lectures,
               group : Lecture!GroupId, from : Lecture!GroupId \cup {None},
               old : Lecture!Index, index : Lecture!Index]
    BY <1>typ, <2>1, LectureFields
  <2>3. overlap = 1 => LectureHeld(q, groups, lectures)
    BY DEF LectureInv
  <2> HIDE DEF q
  <2>4. /\ moving \in [pc : {"foundLecture", "movingLecture"}, lecture : Lecture!Lectures,
                       group : Lecture!GroupId, from : Lecture!GroupId \cup {None},
                       old : Lecture!Index, index : Lecture!Index]
        /\ moving.pc = "movingLecture" /\ moving.lecture = q.lecture /\ moving.from = q.from
        /\ moving.old = q.old
    BY <2>2
  <2> HIDE DEF moving
  <2>5. moving \in Lecture!Request /\ (overlap = 1 => LectureHeld(moving, groups, lectures))
    BY <2>1, <2>3, <2>4 DEF LectureHeld, Lecture!Request
  <2>6. step \in Lecture!Request /\ (overlap = 1 => LectureHeld(step, groups, lectures))
    BY <1>idle, <2>5
  <2> HIDE DEF step
  <2>7. QED  BY <1>5, <1>ov, <2>1, <2>6, LectureReads
<1>6. ASSUME NEW r \in Requests, Within(lectureReq'), NEW l \in Lecture!Lectures,
             NEW p \in BOOLEAN, Lecture!FindForUpdate(r, l, p)
      PROVE  LectureInv'
  <2> DEFINE step == [pc |-> "updating", lecture |-> l, preview |-> p]
  <2>1. Lecture!Proceed(r, step) /\ UNCHANGED <<groups, lectures, deleting, completed>>
    BY <1>6 DEF Lecture!FindForUpdate
  <2>2. step \in Lecture!Request /\ LectureHeld(step, groups, lectures)
    BY DEF Lecture!Request, LectureHeld
  <2> HIDE DEF step
  <2>3. QED  BY <1>6, <1>ov, <2>1, <2>2, LectureReads
<1>7. ASSUME NEW r \in Requests, Within(lectureReq'), Lecture!UpdateLecture(r) PROVE LectureInv'
  <2> DEFINE k == lectureReq[r].lecture
             row == [lectures[k] EXCEPT !.preview = lectureReq[r].preview]
  <2>1. /\ lectureReq[r].pc = "updating" /\ Lecture!Proceed(r, Lecture!Idle)
        /\ lectures' = [lectures EXCEPT ![k] = row]
        /\ UNCHANGED <<groups, deleting, completed>>
    BY <1>7 DEF Lecture!UpdateLecture
  <2>2. k \in Lecture!Lectures /\ lectureReq[r].preview \in BOOLEAN
    BY <1>typ, <2>1, LectureFields
  <2>3. lectures[k] \in LectureRow /\ lectures \in [Lecture!Lectures -> LectureRow]
    BY <1>typ, <2>2, RowFields DEF Lecture!TypeOK, LectureRow
  <2>4. row \in LectureRow /\ row.group = lectures[k].group /\ row.index = lectures[k].index
    BY <2>2, <2>3 DEF LectureRow
  <2> HIDE DEF row
  <2>5. /\ lectures' \in [Lecture!Lectures -> LectureRow]
        /\ lectures'[k] = row /\ \A l \in Lecture!Lectures : l # k => lectures'[l] = lectures[l]
    BY <2>1, <2>2, <2>3, <2>4
  <2>6. \A l \in Lecture!Lectures :
          lectures'[l].group = lectures[l].group /\ lectures'[l].index = lectures[l].index
    BY <2>4, <2>5
  <2>7. /\ lectureReq' \in [Requests -> Lecture!Request]
        /\ \A x \in Requests : lectureReq'[x] = lectureReq[x] \/ lectureReq'[x].pc = "idle"
    BY <1>typ, <1>idle, <2>1, LectureProceeds
  <2>8. QED  BY <1>7, <1>ov, <2>1, <2>5, <2>6, <2>7, PlacesStay
<1>8. ASSUME NEW r \in Requests, Within(lectureReq'), Lecture!Fail(r) PROVE LectureInv'
  <2>1. Lecture!Proceed(r, Lecture!Idle) /\ UNCHANGED <<groups, lectures, deleting, completed>>
    BY <1>8 DEF Lecture!Fail
  <2>2. QED  BY <1>8, <1>ov, <1>idle, <2>1, LectureReads
<1>9. ASSUME Within(lectureReq'), NEW g \in Lecture!GroupId,
             Lecture!DeleteGroup(g) \/ Lecture!FailDelete(g)
      PROVE  LectureInv'
  <2>1. UNCHANGED <<groups, lectures, completed, lectureReq>> /\ deleting' \subseteq Lecture!GroupId
    BY <1>9, <1>typ DEF Lecture!DeleteGroup, Lecture!FailDelete, Lecture!TypeOK
  <2>2. Lecture!TypeOK'
    BY <2>1, <1>typ DEF Lecture!TypeOK
  <2>3. /\ GroupsHold(groups', lectures')
        /\ overlap = 1 =>
             /\ GroupsApart(groups') /\ LecturesApart(lectures')
             /\ \A x \in Requests : LectureHeld(lectureReq'[x], groups', lectures')
    BY <2>1 DEF LectureInv
  <2>4. QED  BY <1>9, <1>ov, <2>2, <2>3, LectureTogether
<1>10. ASSUME Within(lectureReq'), NEW k \in Lecture!Lectures, Lecture!DeleteLecture(k)
       PROVE  LectureInv'
  <2> DEFINE row == [lectures[k] EXCEPT !.deleted = TRUE]
  <2>1. lectures' = [lectures EXCEPT ![k] = row] /\ UNCHANGED <<groups, deleting, completed, lectureReq>>
    BY <1>10 DEF Lecture!DeleteLecture
  <2>2. lectures[k] \in LectureRow /\ lectures \in [Lecture!Lectures -> LectureRow]
        /\ lectureReq \in [Requests -> Lecture!Request]
    BY <1>typ, RowFields DEF Lecture!TypeOK, LectureRow
  <2>3. row \in LectureRow /\ row.group = lectures[k].group /\ row.index = lectures[k].index
    BY <2>2 DEF LectureRow
  <2> HIDE DEF row
  <2>4. /\ lectures' \in [Lecture!Lectures -> LectureRow]
        /\ lectures'[k] = row /\ \A l \in Lecture!Lectures : l # k => lectures'[l] = lectures[l]
    BY <2>1, <2>2, <2>3
  <2>5. \A l \in Lecture!Lectures :
          lectures'[l].group = lectures[l].group /\ lectures'[l].index = lectures[l].index
    BY <2>3, <2>4
  <2>6. QED  BY <1>10, <1>ov, <2>1, <2>2, <2>4, <2>5, PlacesStay
<1>11. ASSUME Within(lectureReq'), NEW k \in Lecture!Lectures, Lecture!Complete(k)
       PROVE  LectureInv'
  <2>1. UNCHANGED <<groups, lectures, deleting, lectureReq>> /\ completed' \subseteq Lecture!Lectures
    BY <1>11, <1>typ DEF Lecture!Complete, Lecture!TypeOK
  <2>2. Lecture!TypeOK'
    BY <2>1, <1>typ DEF Lecture!TypeOK
  <2>3. /\ GroupsHold(groups', lectures')
        /\ overlap = 1 =>
             /\ GroupsApart(groups') /\ LecturesApart(lectures')
             /\ \A x \in Requests : LectureHeld(lectureReq'[x], groups', lectures')
    BY <2>1 DEF LectureInv
  <2>4. QED  BY <1>11, <1>ov, <2>2, <2>3, LectureTogether
<1>12. CASE UNCHANGED lectureVars
  <2>1. UNCHANGED <<groups, lectures, deleting, completed, lectureReq>>
    BY <1>12 DEF lectureVars
  <2>2. LectureInv
    OBVIOUS
  <2>3. QED  BY <2>1, <2>2, <1>ov DEF LectureInv, Lecture!TypeOK, GroupsHold, GroupsApart,
               LecturesApart, LectureHeld, Within, Busy
<1>13. CASE Lecture!Next /\ Within(lectureReq')
  BY <1>13, <1>1, <1>2, <1>3, <1>4, <1>5, <1>6, <1>7, <1>8, <1>9, <1>10, <1>11, <1>ov,
     GroupInserted, GroupMoved, LectureMoved, GroupDeleted DEF Lecture!Next
<1>14. QED  BY <1>12, <1>13, LectureSteps

\* The invariant of the lectures holds in every behaviour.
LEMMA LectureInvariant == PlatformSpec => []LectureInv
<1>1. LectureInv /\ [PlatformNext]_platform => LectureInv'
  BY NextLecture
<1>2. QED  BY <1>1, InitLecture, PTL DEF PlatformSpec

\* With one handler at a time, groups of a course and lectures of a group are numbered apart,
\* whenever the deletions that were answered run.
THEOREM IndexesAreDistinct == PlatformSpec => []IndexesDistinctInSequence
<1>1. ASSUME LectureInv PROVE IndexesDistinctInSequence
  <2>1. ASSUME overlap = 1 PROVE Lecture!IndexesDistinct
    <3>1. GroupsApart(groups) /\ LecturesApart(lectures) /\ Lecture!TypeOK
      BY <1>1, <2>1 DEF LectureInv
    <3>2. \A l \in Lecture!Lectures, g \in Lecture!GroupId :
            l \in Lecture!LecturesOf(g) => lectures[l].group = g /\ g # None
      BY NoneIsNoRow DEF Lecture!LecturesOf
    <3>3. QED  BY <3>1, <3>2 DEF Lecture!IndexesDistinct, Lecture!Existing, GroupsApart,
                 LecturesApart
  <2>2. QED  BY <2>1 DEF IndexesDistinctInSequence
<1>2. LectureInv => IndexesDistinctInSequence
  BY <1>1
<1>3. QED  BY <1>2, LectureInvariant, PTL

-----------------------------------------------------------------------------
(* What a step may do to the order.                                         *)

\* The groups of each course that are there before and after keep their order, but one.
GroupsKept(m) ==
  \A g, h \in (Lecture!Existing \cap Lecture!Existing') \ {m} :
    groups[g].course = groups[h].course =>
      (groups[g].index < groups[h].index <=> groups'[g].index < groups'[h].index)

\* The lectures of each group do, and stay together if their group stays.
LecturesKept(m) ==
  \A k, l \in Lecture!Lectures \ {m} :
    lectures[k].group = lectures[l].group /\ lectures'[k].group # None =>
      /\ lectures'[k].group = lectures'[l].group
      /\ lectures[k].index < lectures[l].index <=> lectures'[k].index < lectures'[l].index

\* A step that leaves the groups that were there, and the places of the lectures.
LEMMA OrderStays ==
  ASSUME \A g \in Lecture!Existing \cap Lecture!Existing' : groups'[g] = groups[g],
         \A l \in Lecture!Lectures : lectures'[l].index = lectures[l].index,
         \A k, l \in Lecture!Lectures :
           lectures[k].group = lectures[l].group => lectures'[k].group = lectures'[l].group
  PROVE  Lecture!OrderKept
<1>1. GroupsKept(None) /\ LecturesKept(None)
  BY DEF GroupsKept, LecturesKept
<1>2. QED  BY <1>1 DEF GroupsKept, LecturesKept, Lecture!OrderKept

\* With one handler at a time every step of theirs keeps the order of what it does not move.
LEMMA OrderStep ==
  ASSUME LectureInv, overlap = 1, Lecture!Next
  PROVE  Lecture!OrderKept
<1>typ. Lecture!TypeOK
  BY DEF LectureInv
<1>1. ASSUME UNCHANGED <<groups, lectures>> PROVE Lecture!OrderKept
  BY <1>1, OrderStays
<1>2. ASSUME NEW r \in Requests, NEW g \in Lecture!GroupId, Lecture!InsertGroup(r, g)
      PROVE  Lecture!OrderKept
  <2>1. lectures' = lectures /\ g \notin Lecture!Existing
    BY <1>2 DEF Lecture!InsertGroup, Lecture!Fresh
  <2>2. \A h \in Lecture!GroupId : h # g => groups'[h] = groups[h]
    BY <1>2, <1>typ DEF Lecture!InsertGroup, Lecture!TypeOK
  <2>3. \A h \in Lecture!Existing \cap Lecture!Existing' : groups'[h] = groups[h]
    BY <2>1, <2>2 DEF Lecture!Existing
  <2>4. QED  BY <2>1, <2>3, OrderStays
<1>3. ASSUME NEW r \in Requests, Lecture!MoveGroup(r) PROVE Lecture!OrderKept
  <2> DEFINE m == lectureReq[r].group
  <2>1. lectures' = lectures /\ m \in Lecture!GroupId
    BY <1>3, <1>typ, LectureFields DEF Lecture!MoveGroup
  <2>2. ASSUME NEW g \in (Lecture!Existing \cap Lecture!Existing') \ {m},
               NEW h \in (Lecture!Existing \cap Lecture!Existing') \ {m},
               groups[g].course = groups[h].course
        PROVE  groups[g].index < groups[h].index <=> groups'[g].index < groups'[h].index
    <3>1. /\ g \in Lecture!GroupId /\ h \in Lecture!GroupId
          /\ groups[g] # None /\ groups[h] # None /\ groups'[g] # None
      BY DEF Lecture!Existing
    <3>2. CASE g # h
      BY <1>3, <2>2, <3>1, <3>2, GroupsInOrder
    <3>3. CASE g = h
      <4>1. groups[g].index \in Int /\ groups'[g].index \in Int
        <5>1. groups'[g] \in Lecture!Group
          BY <1>3, <3>1 DEF Lecture!MoveGroup
        <5>2. groups'[g].index \in Int
          BY <5>1, IndexInt DEF Lecture!Group
        <5>3. QED  BY <3>1, <5>2, <1>typ, RowFields
      <4>2. QED  BY <3>3, <4>1
    <3>4. QED  BY <3>2, <3>3
  <2>3. GroupsKept(m)
    BY <2>2 DEF GroupsKept
  <2>4. LecturesKept(None)
    BY <2>1 DEF LecturesKept
  <2> HIDE DEF m
  <2>5. QED  BY <2>1, <2>3, <2>4 DEF GroupsKept, LecturesKept, Lecture!OrderKept
<1>4. ASSUME NEW r \in Requests, Lecture!MoveLecture(r) PROVE Lecture!OrderKept
  <2> DEFINE m == lectureReq[r].lecture
  <2>1. groups' = groups /\ m \in Lecture!Lectures
    BY <1>4, <1>typ, LectureFields DEF Lecture!MoveLecture
  <2>2. ASSUME NEW k \in Lecture!Lectures \ {m}, NEW l \in Lecture!Lectures \ {m},
               lectures[k].group = lectures[l].group, lectures'[k].group # None
        PROVE  /\ lectures'[k].group = lectures'[l].group
               /\ lectures[k].index < lectures[l].index <=> lectures'[k].index < lectures'[l].index
    <3>1. lectures'[k].group = lectures[k].group /\ lectures'[l].group = lectures[l].group
      BY <1>4, <1>typ, LecturesMoved
    <3>2. CASE k # l
      <4>1. lectures[k].group # None
        BY <2>2, <3>1
      <4>2. lectures[k].index < lectures[l].index <=> lectures'[k].index < lectures'[l].index
        BY <1>4, <2>2, <3>2, <4>1, LecturesInOrder
      <4>3. QED  BY <2>2, <3>1, <4>2
    <3>3. CASE k = l
      <4>1. lectures[k].index \in Int /\ lectures'[k].index \in Int
        <5>1. lectures'[k] \in LectureRow
          BY <1>4, <1>typ, LecturesMoved
        <5>2. lectures'[k].index \in Int
          BY <5>1, IndexInt DEF LectureRow
        <5>3. QED  BY <5>2, <1>typ, RowFields
      <4>2. QED  BY <3>3, <4>1
    <3>4. QED  BY <3>2, <3>3
  <2>3. LecturesKept(m)
    BY <2>2 DEF LecturesKept
  <2>4. GroupsKept(None)
    BY <2>1 DEF GroupsKept
  <2> HIDE DEF m
  <2>5. QED  BY <2>1, <2>3, <2>4 DEF GroupsKept, LecturesKept, Lecture!OrderKept
<1>5. ASSUME NEW r \in Requests, Lecture!UpdateLecture(r) PROVE Lecture!OrderKept
  <2> DEFINE k == lectureReq[r].lecture
             row == [lectures[k] EXCEPT !.preview = lectureReq[r].preview]
  <2>1. lectures' = [lectures EXCEPT ![k] = row] /\ groups' = groups /\ k \in Lecture!Lectures
    BY <1>5, <1>typ, LectureFields DEF Lecture!UpdateLecture
  <2>2. lectures[k] \in LectureRow /\ lectures \in [Lecture!Lectures -> LectureRow]
    BY <1>typ, <2>1, RowFields DEF Lecture!TypeOK, LectureRow
  <2>3. row.group = lectures[k].group /\ row.index = lectures[k].index
    BY <2>2 DEF LectureRow
  <2> HIDE DEF row
  <2>4. \A l \in Lecture!Lectures :
          lectures'[l].group = lectures[l].group /\ lectures'[l].index = lectures[l].index
    BY <2>1, <2>2, <2>3
  <2>5. QED  BY <2>1, <2>4, OrderStays
<1>6. ASSUME NEW k \in Lecture!Lectures, Lecture!DeleteLecture(k) PROVE Lecture!OrderKept
  <2> DEFINE row == [lectures[k] EXCEPT !.deleted = TRUE]
  <2>1. lectures' = [lectures EXCEPT ![k] = row] /\ groups' = groups
    BY <1>6 DEF Lecture!DeleteLecture
  <2>2. lectures[k] \in LectureRow /\ lectures \in [Lecture!Lectures -> LectureRow]
    BY <1>typ, RowFields DEF Lecture!TypeOK, LectureRow
  <2>3. row.group = lectures[k].group /\ row.index = lectures[k].index
    BY <2>2 DEF LectureRow
  <2> HIDE DEF row
  <2>4. \A l \in Lecture!Lectures :
          lectures'[l].group = lectures[l].group /\ lectures'[l].index = lectures[l].index
    BY <2>1, <2>2, <2>3
  <2>5. QED  BY <2>1, <2>4, OrderStays
<1>7. ASSUME NEW g \in Lecture!GroupId, Lecture!FinishDelete(g) PROVE Lecture!OrderKept
  <2>1. /\ \A h \in Lecture!GroupId : groups'[h] = IF h = g THEN None ELSE groups[h]
        /\ \A l \in Lecture!Lectures :
             /\ lectures'[l].group = IF lectures[l].group = g THEN None ELSE lectures[l].group
             /\ lectures'[l].index = lectures[l].index
    BY <1>7, <1>typ, GroupsLost
  <2>2. \A h \in Lecture!Existing \cap Lecture!Existing' : groups'[h] = groups[h]
    BY <2>1 DEF Lecture!Existing
  <2>3. QED  BY <2>1, <2>2, OrderStays
<1>8. QED
  <2>1. ASSUME NEW r \in Requests,
               \/ \E c \in Lecture!TaughtCourses : Lecture!CreateGroup(r, c)
               \/ \E g \in Lecture!GroupId, i \in Lecture!Index : Lecture!RearrangeGroup(r, g, i)
               \/ \E l \in Lecture!Lectures, g \in Lecture!GroupId, i \in Lecture!Index :
                    Lecture!RearrangeLecture(r, l, g, i)
               \/ Lecture!CheckGroupIndex(r) \/ Lecture!CheckLectureIndex(r)
               \/ \E l \in Lecture!Lectures, p \in BOOLEAN : Lecture!FindForUpdate(r, l, p)
               \/ Lecture!Fail(r)
        PROVE  UNCHANGED <<groups, lectures>>
    BY <2>1 DEF Lecture!CreateGroup, Lecture!RearrangeGroup, Lecture!RearrangeLecture,
       Lecture!CheckGroupIndex, Lecture!CheckLectureIndex, Lecture!FindForUpdate, Lecture!Fail
  <2>2. ASSUME \/ \E g \in Lecture!GroupId : Lecture!DeleteGroup(g) \/ Lecture!FailDelete(g)
               \/ \E l \in Lecture!Lectures : Lecture!Complete(l)
        PROVE  UNCHANGED <<groups, lectures>>
    BY <2>2 DEF Lecture!DeleteGroup, Lecture!FailDelete, Lecture!Complete
  <2>3. QED  BY <1>1, <1>2, <1>3, <1>4, <1>5, <1>6, <1>7, <2>1, <2>2 DEF Lecture!Next

\* With one handler at a time, moving a group or a lecture changes the order of no others,
\* though a deletion, which nobody awaits, takes lectures out of their group between the
\* reading and the moving.
THEOREM OrderIsKept == PlatformSpec => OrderKeptInSequence
<1>1. ASSUME LectureInv, [PlatformNext]_platform PROVE [overlap = 1 => Lecture!OrderKept]_platform
  <2>1. CASE Lecture!Next
    BY <1>1, <2>1, OrderStep
  <2>2. CASE UNCHANGED lectureVars
    <3>1. UNCHANGED <<groups, lectures>>
      BY <2>2 DEF lectureVars
    <3>2. QED  BY <3>1, OrderStays
  <2>3. QED  BY <1>1, <2>1, <2>2, LectureSteps
<1>2. LectureInv /\ [PlatformNext]_platform => [overlap = 1 => Lecture!OrderKept]_platform
  BY <1>1
<1>3. QED  BY <1>2, LectureInvariant, PTL DEF PlatformSpec, OrderKeptInSequence

-----------------------------------------------------------------------------
(* What is locked.                                                          *)

Before(l) == {k \in Lecture!ListedEnrolled(CourseOf[l]) : k < l}

\* A course's lectures stand in the order of their ids.
InIdOrder(c) ==
  \A j, k \in Lecture!ListedEnrolled(c) : j < k => Lecture!Precedes(j, k)

\* Of two lectures one does not come before the other and behind it.
LEMMA PrecedesOneWay ==
  ASSUME Lecture!TypeOK, GroupsHold(groups, lectures),
         NEW k \in Lecture!Lectures, NEW l \in Lecture!Lectures, Lecture!Precedes(k, l)
  PROVE  ~ Lecture!Precedes(l, k)
<1> DEFINE Place(n) == IF lectures[n].group = None THEN MaxIndex + 1
                       ELSE groups[lectures[n].group].index
<1>1. \A n \in Lecture!Lectures : Place(n) \in Int /\ lectures[n].index \in Int
  <2>1. ASSUME NEW n \in Lecture!Lectures PROVE Place(n) \in Int
    <3>1. CASE lectures[n].group = None
      BY <3>1, PlatformBounds
    <3>2. CASE lectures[n].group # None
      BY <3>2, RowFields DEF GroupsHold
    <3>3. QED  BY <3>1, <3>2
  <2>2. QED  BY <2>1, RowFields
<1>2. \A m, n \in Lecture!Lectures :
        Lecture!Precedes(m, n) <=>
          \/ Place(m) < Place(n)
          \/ Place(m) = Place(n) /\ lectures[m].index < lectures[n].index
  BY DEF Lecture!Precedes
<1> HIDE DEF Place
<1>3. QED  BY <1>1, <1>2

\* Lectures that stand in the order of their ids are at the place that their ids give them.
LEMMA PositionIs ==
  ASSUME Lecture!TypeOK, GroupsHold(groups, lectures), NEW l \in Lecture!Lectures,
         InIdOrder(CourseOf[l])
  PROVE  /\ Lecture!Position(l) = Cardinality(Before(l))
         /\ IsFiniteSet(Before(l)) /\ Cardinality(Before(l)) \in Nat
<1> DEFINE L == Lecture!ListedEnrolled(CourseOf[l])
<1>1. L \subseteq Lecture!Lectures /\ l \in L
  BY DEF Lecture!ListedEnrolled
<1>2. ASSUME NEW k \in L PROVE Lecture!Precedes(k, l) <=> k < l
  <2>1. k \in Nat /\ l \in Nat /\ k \in Lecture!Lectures
    BY <1>1, SeededLectures
  <2>2. k < l => Lecture!Precedes(k, l)
    BY <1>1 DEF InIdOrder
  <2>3. l < k => Lecture!Precedes(l, k)
    BY <1>1 DEF InIdOrder
  <2>4. ~ (Lecture!Precedes(k, l) /\ Lecture!Precedes(l, k))
    BY <2>1, PrecedesOneWay
  <2>5. k = l => ~ Lecture!Precedes(k, l)
    BY <2>1, <2>4
  <2>6. k < l \/ l < k \/ k = l
    BY <2>1
  <2>7. QED  BY <2>2, <2>3, <2>4, <2>5, <2>6, <2>1
<1>3. {k \in L : Lecture!Precedes(k, l)} = Before(l)
  BY <1>2 DEF Before
<1>4. Lecture!Position(l) = Cardinality(Before(l))
  BY <1>3, LectureCardinality, Zenon DEF Lecture!Position
<1>5. Before(l) \in SUBSET Lecture!Lectures
  BY <1>1 DEF Before
<1>6. QED  BY <1>4, <1>5, SeededLectures, FS_Subset, FS_CardinalityType

\* Each is behind those with smaller ids: by one behind the highest of them, and by no
\* other number.
LEMMA OneBehind ==
  ASSUME Lecture!TypeOK, GroupsHold(groups, lectures),
         NEW k \in Lecture!Lectures, NEW l \in Lecture!Lectures, CourseOf[k] = CourseOf[l],
         k < l, InIdOrder(CourseOf[l])
  PROVE  /\ Lecture!Position(k) < Lecture!Position(l)
         /\ (\A j \in Before(l) : j <= k) => Lecture!Position(k) = Lecture!Position(l) - 1
<1>num. \A j \in Lecture!Lectures : j \in Nat
  BY SeededLectures
<1>nat. k \in Nat /\ l \in Nat
  BY <1>num
<1>1. \A j \in Before(l) \cup Before(k) : j \in Nat
  BY <1>num DEF Before, Lecture!ListedEnrolled
<1>2. k \in Before(l) /\ k \notin Before(k)
  BY <1>nat DEF Before, Lecture!ListedEnrolled
<1>3. \A j \in Before(k) : j < k
  BY DEF Before
<1>4. \A j \in Before(k) : j \in Before(l)
  <2>1. ASSUME NEW j \in Before(k) PROVE j < l
    BY <1>nat, <1>1, <1>3
  <2>2. QED  BY <2>1 DEF Before
<1>5. /\ Lecture!Position(k) = Cardinality(Before(k)) /\ Cardinality(Before(k)) \in Nat
      /\ Lecture!Position(l) = Cardinality(Before(l)) /\ Cardinality(Before(l)) \in Nat
      /\ IsFiniteSet(Before(l))
  BY PositionIs
<1>6. /\ Cardinality(Before(l) \ {k}) = Cardinality(Before(l)) - 1
      /\ IsFiniteSet(Before(l) \ {k})
  BY <1>2, <1>5, FS_RemoveElement
<1>7. Cardinality(Before(k)) <= Cardinality(Before(l) \ {k})
  <2>1. Before(k) \in SUBSET (Before(l) \ {k})
    BY <1>2, <1>4
  <2>2. QED  BY <2>1, <1>6, FS_Subset
<1>8. ASSUME \A j \in Before(l) : j <= k PROVE Cardinality(Before(k)) = Cardinality(Before(l)) - 1
  <2>1. ASSUME NEW j \in Before(l) \ {k} PROVE j \in Before(k)
    <3>1. j <= k /\ j # k /\ j \in Nat
      BY <1>1, <1>8
    <3>2. j < k
      BY <3>1, <1>nat
    <3>3. QED  BY <3>2 DEF Before
  <2>2. Before(k) = Before(l) \ {k}
    BY <1>2, <1>4, <2>1
  <2>3. Cardinality(Before(k)) = Cardinality(Before(l) \ {k})
    BY <2>2, Zenon
  <2>4. QED  BY <2>3, <1>6
<1>9. QED  BY <1>5, <1>6, <1>7, <1>8

\* So the lecture at the place before is the one with the highest id before.
LEMMA PreviousIs ==
  ASSUME Lecture!TypeOK, GroupsHold(groups, lectures), NEW l \in Lecture!Lectures,
         InIdOrder(CourseOf[l])
  PROVE  /\ Lecture!Position(l) \in Nat
         /\ Before(l) = {} => ~ Lecture!PreviousIncomplete(l)
         /\ Before(l) # {} =>
              /\ Lecture!Position(l) # 0
              /\ Lecture!PreviousIncomplete(l) <=> Lecture!Highest(Before(l)) \notin completed
<1> DEFINE c == CourseOf[l]
           L == Lecture!ListedEnrolled(c)
           h == Lecture!Highest(Before(l))
<1>1. \A k \in L : k \in Lecture!Lectures /\ CourseOf[k] = c
  BY DEF Lecture!ListedEnrolled
<1>num. /\ \A k \in L : k \in Nat
        /\ l \in Nat
  BY <1>1, SeededLectures
<1>2. \A k \in L : Lecture!Position(k) \in Nat
  <2>1. ASSUME NEW k \in L PROVE Lecture!Position(k) \in Nat
    BY <1>1, PositionIs
  <2>2. QED  BY <2>1
<1>3. Lecture!Position(l) = Cardinality(Before(l)) /\ Lecture!Position(l) \in Nat
  BY PositionIs
<1>4. ASSUME Before(l) = {} PROVE ~ Lecture!PreviousIncomplete(l)
  <2>1. Cardinality({}) = 0
    BY FS_EmptySet
  <2>2. Lecture!Position(l) = 0
    BY <1>3, <1>4, <2>1
  <2>3. QED  BY <1>2, <2>2 DEF Lecture!PreviousIncomplete
<1>5. ASSUME Before(l) # {}
      PROVE  /\ Lecture!Position(l) # 0
             /\ Lecture!PreviousIncomplete(l) <=> h \notin completed
  <2>1. Before(l) \subseteq Int /\ \A k \in Before(l) : k <= l
    BY <1>num DEF Before
  <2>2. h \in Before(l) /\ \A k \in Before(l) : k <= h
    BY <1>5, <1>num, <2>1, HighestIs
  <2>3. h \in L /\ h < l
    BY <2>2 DEF Before
  <2>4. h \in Lecture!Lectures /\ CourseOf[h] = c /\ h \in Nat
    BY <1>1, <1>num, <2>3
  <2> HIDE DEF h
  <2>5. Lecture!Position(h) = Lecture!Position(l) - 1
    BY <2>2, <2>3, <2>4, OneBehind
  <2>6. ASSUME NEW k \in L, Lecture!Position(k) = Lecture!Position(l) - 1 PROVE k = h
    <3>1. k \in Lecture!Lectures /\ CourseOf[k] = c /\ k \in Nat
      BY <1>1, <1>num
    <3>2. k < h => Lecture!Position(k) < Lecture!Position(h)
      BY <2>4, <3>1, OneBehind
    <3>3. h < k => Lecture!Position(h) < Lecture!Position(k)
      BY <2>4, <3>1, OneBehind
    <3>4. Lecture!Position(k) \in Nat /\ Lecture!Position(h) \in Nat
      BY <1>2, <2>3
    <3>5. ~ (k < h) /\ ~ (h < k)
      BY <2>5, <2>6, <3>2, <3>3, <3>4
    <3>6. QED  BY <2>4, <3>1, <3>5
  <2>7. Lecture!Position(l) # 0
    BY <1>2, <1>3, <2>3, <2>5
  <2>8. Lecture!PreviousIncomplete(l) <=> h \notin completed
    BY <2>3, <2>5, <2>6 DEF Lecture!PreviousIncomplete
  <2>9. QED  BY <2>7, <2>8
<1>6. QED  BY <1>3, <1>4, <1>5

\* What the listing, the progress and the video hold locked is the same for every lecture
\* of a course in the order of ids whose predecessor is on the same page, for any pages.
THEOREM LocksDoAgree == PlatformSpec => []LocksAgree
<1>1. ASSUME LectureInv PROVE LocksAgree
  <2>1. ASSUME NEW l \in Lecture!Lectures, InIdOrder(CourseOf[l]),
               Lecture!Position(l) = 0 \/ Lecture!Position(l) % PageSize # 0
        PROVE  /\ Lecture!LockedInListing(l) <=> Lecture!VideoLocked(l)
               /\ Lecture!LockedInProgress(l) <=> Lecture!VideoLocked(l)
    <3>1. /\ Lecture!Position(l) \in Nat
          /\ Before(l) = {} => ~ Lecture!PreviousIncomplete(l)
          /\ Before(l) # {} =>
               /\ Lecture!Position(l) # 0
               /\ Lecture!PreviousIncomplete(l) <=> Lecture!Highest(Before(l)) \notin completed
      BY <1>1, <2>1, PreviousIs DEF LectureInv
    <3>2. Lecture!VideoLocked(l) <=> Before(l) # {} /\ Lecture!Highest(Before(l)) \notin completed
      BY DEF Lecture!VideoLocked, Before
    <3>3. /\ Lecture!LockedInListing(l) <=>
               Lecture!Position(l) % PageSize # 0 /\ Lecture!PreviousIncomplete(l)
          /\ Lecture!LockedInProgress(l) <=>
               Lecture!Position(l) # 0 /\ Lecture!PreviousIncomplete(l)
      BY DEF Lecture!LockedInListing, Lecture!LockedInProgress
    <3>4. QED  BY <2>1, <3>1, <3>2, <3>3
  <2>2. QED  BY <2>1 DEF LocksAgree, Lecture!LocksAgree, InIdOrder
<1>2. LectureInv => LocksAgree
  BY <1>1
<1>3. QED  BY <1>2, LectureInvariant, PTL

\* Every table and every handler of every component keeps its shape.
THEOREM PlatformTypeCorrect == PlatformSpec => []PlatformTypeOK
<1> DEFINE Handlers == overlap \in 1 .. Cardinality(Requests)
<1>1. PlatformInit => Handlers
  BY DEF PlatformInit
<1>2. Handlers /\ [PlatformNext]_platform => Handlers'
  BY LectureSteps
<1>3. PlatformSpec => []Handlers
  <2> HIDE DEF Handlers
  <2>1. QED  BY <1>1, <1>2, PTL DEF PlatformSpec
<1>4. /\ Handlers /\ LectureInv /\ TypeOK /\ ForumInv /\ TicketInv /\ ShopInv /\ NoticeInv
      /\ RecordsTypeOK /\ SaleInv
      => PlatformTypeOK
  BY DEF LectureInv, ForumInv, TicketInv, ShopInv, NoticeInv, RecordsTypeOK, SaleInv, PlatformTypeOK
<1> HIDE DEF Handlers
<1>5. QED
  BY <1>3, <1>4, LectureInvariant, CatalogueTypeCorrect, ForumInvariant, TicketInvariant,
     ShopInvariant, NoticeInvariant, RecordsTypeCorrect, SaleInvariant, PTL

=============================================================================
