---------------------------- MODULE Records_proof ----------------------------
(***************************************************************************)
(* Of rules, files, users and sales: what admins ask of the rules survives *)
(* every start of the program; what rows name is stored where links point; *)
(* one user for each username and for each id of Facebook; the statements  *)
(* of a sale add up.  For any rules, keys, names and items, and any number *)
(* of handlers.                                                            *)
(***************************************************************************)
EXTENDS Platform, FiniteSetTheorems, TLAPS

\* Of a component every step is its own, or leaves it as it is.
LEMMA RewardSteps ==
  ASSUME [PlatformNext]_platform
  PROVE  (Reward!Next /\ Reward!OneOfEach') \/ UNCHANGED rewardVars
  BY DEF PlatformNext, platform, LectureStep, CatalogueStep, CommunityStep, SupportStep,
     StoreStep, NoticeStep, RewardStep, PricingStep, UploadStep, AccountStep

\* ... the same of files,
LEMMA FileSteps ==
  ASSUME [PlatformNext]_platform
  PROVE  File!Next \/ UNCHANGED uploadVars
  BY DEF PlatformNext, platform, LectureStep, CatalogueStep, CommunityStep, SupportStep,
     StoreStep, NoticeStep, RewardStep, PricingStep, UploadStep, AccountStep

\* ... and of users.
LEMMA AccountSteps ==
  ASSUME [PlatformNext]_platform
  PROVE  Account!Next \/ UNCHANGED accountVars
  BY DEF PlatformNext, platform, LectureStep, CatalogueStep, CommunityStep, SupportStep,
     StoreStep, NoticeStep, RewardStep, PricingStep, UploadStep, AccountStep

-----------------------------------------------------------------------------

\* A rule that was never put has the defaults; who updates holds the rule as it is, and
\* who puts a default is the first to put anything.
RuleKnown(k) == IF rules[k] = None THEN asked[k] = Reward!Default ELSE rules[k] = asked[k]

RuleHeld(r) ==
  /\ rewardReq[r].pc = "updating" => rules[rewardReq[r].rule] = rewardReq[r].old
  /\ rewardReq[r].pc = "defaulting" => rules[rewardReq[r].rule] = None

RewardInv ==
  /\ rules \in [Rules -> Reward!Rule \cup {None}]
  /\ asked \in [Rules -> Reward!Rule]
  /\ rewardReq \in [Requests -> Reward!Request]
  /\ Reward!OneOfEach
  /\ \A k \in Rules : RuleKnown(k)
  /\ \A r \in Requests : RuleHeld(r)

\* The defaults are a rule, and at first no rule is there.
LEMMA InitReward == Reward!Init => RewardInv
<1>1. Reward!Default \in Reward!Rule
  BY PlatformBounds DEF Reward!Default, Reward!Rule
<1>2. QED  BY <1>1 DEF Reward!Init, RewardInv, Reward!Idle, Reward!Request, Reward!OneOfEach, RuleKnown, RuleHeld

\* What the handlers hold has the fields that it was given.
LEMMA RuleHeldFields ==
  ASSUME RewardInv, NEW r \in Requests
  PROVE  /\ rewardReq[r].pc \in {"updating", "defaulting"} => rewardReq[r].rule \in Rules
         /\ rewardReq[r].pc = "updating" => /\ rewardReq[r].active \in BOOLEAN \cup {None}
                                      /\ rewardReq[r].points \in (0 .. MaxPoints) \cup {None}
                                      /\ rewardReq[r].old \in Reward!Rule
<1>1. rewardReq[r] \in Reward!Request
  BY DEF RewardInv
<1>2. QED  BY <1>1 DEF Reward!Request, Reward!Idle

\* A rule merged with what was asked of it is a rule.
LEMMA MergedIsRule ==
  ASSUME NEW a \in BOOLEAN \cup {None}, NEW p \in (0 .. MaxPoints) \cup {None}, NEW old \in Reward!Rule
  PROVE  Reward!Merged(a, p, old) \in Reward!Rule
<1>1. old.active \in BOOLEAN /\ old.points \in 0 .. MaxPoints
  BY DEF Reward!Rule
<1>2. (IF a # None THEN a ELSE old.active) \in BOOLEAN
  BY <1>1
<1>3. (IF p # None THEN p ELSE old.points) \in 0 .. MaxPoints
  BY <1>1
<1>4. QED  BY <1>2, <1>3 DEF Reward!Merged, Reward!Rule

\* Every step that leaves one of each keeps the invariant.
LEMMA NextReward ==
  ASSUME RewardInv, (Reward!Next /\ Reward!OneOfEach') \/ UNCHANGED rewardVars
  PROVE  RewardInv'
<1> USE PlatformBounds, NoneIsNoRow
<1>idle. Reward!Idle \in Reward!Request /\ Reward!Idle.pc = "idle"
  BY DEF Reward!Idle, Reward!Request
<1>0. Reward!OneOfEach'
  <2>1. CASE UNCHANGED rewardVars
    BY <2>1 DEF RewardInv, Reward!OneOfEach, rewardVars
  <2>2. QED  BY <2>1
\* A step to idle, or to anything but an update or a default, that leaves the rules.
<1>quiet. ASSUME NEW r \in Requests, NEW step \in Reward!Request, Reward!Proceed(r, step),
                 step.pc \notin {"updating", "defaulting"}, UNCHANGED <<rules, asked>>
          PROVE  RewardInv'
  <2>1. rewardReq' \in [Requests -> Reward!Request] /\ \A s \in Requests \ {r} : rewardReq'[s] = rewardReq[s]
    BY <1>quiet DEF Reward!Proceed, RewardInv
  <2>2. rewardReq'[r] = step
    BY <1>quiet DEF Reward!Proceed, RewardInv
  <2>3. \A s \in Requests : RuleHeld(s)'
    BY <2>1, <2>2, <1>quiet DEF RuleHeld, RewardInv
  <2>4. QED  BY <1>0, <1>quiet, <2>1, <2>3 DEF RewardInv, RuleKnown
<1>1. ASSUME NEW r \in Requests, NEW k \in Rules, Reward!CheckDefault(r, k) PROVE RewardInv'
  <2> DEFINE step == [pc |-> "defaulting", rule |-> k]
  <2>1. step \in Reward!Request
    BY DEF Reward!Request
  <2>2. rules[k] = None /\ rules' = rules /\ asked' = asked /\ rewardReq' = [rewardReq EXCEPT ![r] = step]
    BY <1>1 DEF Reward!CheckDefault, Reward!Exists, Reward!Start, Reward!Proceed, Reward!tables
  <2>3. rewardReq' \in [Requests -> Reward!Request]
    BY <2>1, <2>2 DEF RewardInv
  <2>4. \A s \in Requests : RuleHeld(s)'
    BY <2>2 DEF RuleHeld, RewardInv
  <2>5. QED  BY <1>0, <2>2, <2>3, <2>4 DEF RewardInv, RuleKnown
<1>2. ASSUME NEW r \in Requests, Reward!PutDefault(r) PROVE RewardInv'
  <2> DEFINE k == rewardReq[r].rule
  <2>1. k \in Rules /\ rules[k] = None /\ asked[k] = Reward!Default
    BY <1>2, RuleHeldFields DEF Reward!PutDefault, RewardInv, RuleHeld, RuleKnown
  <2>2. rules' = [rules EXCEPT ![k] = Reward!Default] /\ asked' = asked
        /\ rewardReq' = [rewardReq EXCEPT ![r] = Reward!Idle] /\ rewardReq[r].pc = "defaulting"
    BY <1>2 DEF Reward!PutDefault, Reward!Proceed
  <2>3. Reward!Default \in Reward!Rule
    BY DEF Reward!Default, Reward!Rule
  <2>4. rules' \in [Rules -> Reward!Rule \cup {None}] /\ rewardReq' \in [Requests -> Reward!Request]
    BY <2>1, <2>2, <2>3, <1>idle DEF RewardInv
  <2>5. \A j \in Rules : RuleKnown(j)'
    BY <2>1, <2>2, <2>3 DEF RewardInv, RuleKnown
  <2>6. ASSUME NEW s \in Requests PROVE RuleHeld(s)'
    <3>1. CASE s = r
      BY <3>1, <2>2, <1>idle DEF RuleHeld, RewardInv
    <3>2. CASE s # r /\ rewardReq[s].pc = "updating"
      <4>1. rewardReq[s].rule \in Rules /\ rules[rewardReq[s].rule] \in Reward!Rule
        BY <3>2, RuleHeldFields DEF RewardInv, RuleHeld
      <4>2. rewardReq[s].rule # k
        BY <4>1, <2>1
      <4>3. QED  BY <3>2, <4>1, <4>2, <2>2 DEF RuleHeld, RewardInv
    <3>3. CASE s # r /\ rewardReq[s].pc # "updating"
      <4>1. rewardReq[s].pc # "defaulting"
        BY <3>3, <2>2 DEF RewardInv, Reward!OneOfEach
      <4>2. QED  BY <3>3, <4>1, <2>2 DEF RuleHeld, RewardInv
    <3>4. QED  BY <3>1, <3>2, <3>3
  <2>7. QED  BY <1>0, <2>2, <2>4, <2>5, <2>6 DEF RewardInv
<1>3. ASSUME NEW r \in Requests, NEW k \in Rules, NEW a \in BOOLEAN \cup {None},
             NEW p \in (0 .. MaxPoints) \cup {None}, Reward!FindRule(r, k, a, p)
      PROVE  RewardInv'
  <2> DEFINE step == [pc |-> "updating", rule |-> k, active |-> a, points |-> p, old |-> rules[k]]
  <2>1. rules[k] \in Reward!Rule
    BY <1>3 DEF Reward!FindRule, Reward!ListedRules, RewardInv
  <2>2. step \in Reward!Request
    BY <2>1 DEF Reward!Request
  <2>3. rules' = rules /\ asked' = asked /\ rewardReq' = [rewardReq EXCEPT ![r] = step]
    BY <1>3 DEF Reward!FindRule, Reward!Start, Reward!Proceed, Reward!tables
  <2>4. rewardReq' \in [Requests -> Reward!Request]
    BY <2>2, <2>3 DEF RewardInv
  <2>5. \A s \in Requests : RuleHeld(s)'
    BY <2>3 DEF RuleHeld, RewardInv
  <2>6. QED  BY <1>0, <2>3, <2>4, <2>5 DEF RewardInv, RuleKnown
<1>4. ASSUME NEW r \in Requests, Reward!PutRule(r) PROVE RewardInv'
  <2> DEFINE k == rewardReq[r].rule
             new == Reward!Merged(rewardReq[r].active, rewardReq[r].points, rewardReq[r].old)
  <2>1. rewardReq[r].pc = "updating"
    BY <1>4 DEF Reward!PutRule
  <2>2. k \in Rules /\ rewardReq[r].old \in Reward!Rule /\ rules[k] = rewardReq[r].old
    BY <2>1, RuleHeldFields DEF RewardInv, RuleHeld
  <2>3. asked[k] = rewardReq[r].old
    BY <2>2 DEF RewardInv, RuleKnown
  <2>4. new \in Reward!Rule
    BY <2>1, RuleHeldFields, MergedIsRule
  <2>5. rules' = [rules EXCEPT ![k] = new] /\ asked' = [asked EXCEPT ![k] = new]
    BY <1>4, <2>3 DEF Reward!PutRule, RewardInv
  <2>6. rewardReq' = [rewardReq EXCEPT ![r] = Reward!Idle]
    BY <1>4 DEF Reward!PutRule, Reward!Proceed
  <2>7. /\ rules' \in [Rules -> Reward!Rule \cup {None}] /\ asked' \in [Rules -> Reward!Rule]
        /\ rewardReq' \in [Requests -> Reward!Request]
    BY <2>2, <2>4, <2>5, <2>6, <1>idle DEF RewardInv
  <2>8. \A j \in Rules : RuleKnown(j)'
    BY <2>2, <2>4, <2>5 DEF RewardInv, RuleKnown
  <2>9. ASSUME NEW s \in Requests PROVE RuleHeld(s)'
    <3>1. CASE s = r
      BY <3>1, <2>6, <1>idle DEF RuleHeld, RewardInv
    <3>2. CASE s # r /\ rewardReq[s].pc = "defaulting"
      <4>1. rewardReq[s].rule \in Rules /\ rewardReq[s].rule # k
        BY <3>2, RuleHeldFields, <2>2 DEF RewardInv, RuleHeld
      <4>2. QED  BY <3>2, <4>1, <2>5, <2>6 DEF RuleHeld, RewardInv
    <3>3. CASE s # r /\ rewardReq[s].pc # "defaulting"
      <4>1. rewardReq[s].pc # "updating"
        BY <3>3, <2>1 DEF RewardInv, Reward!OneOfEach
      <4>2. QED  BY <3>3, <4>1, <2>6 DEF RuleHeld, RewardInv
    <3>4. QED  BY <3>1, <3>2, <3>3
  <2>10. QED  BY <1>0, <2>7, <2>8, <2>9 DEF RewardInv
<1>5. ASSUME NEW r \in Requests, NEW u \in Students, NEW k \in Rules, Reward!GetCondition(r, u, k)
      PROVE  RewardInv'
  <2> DEFINE step == [pc |-> "giving", user |-> u, points |-> rules[k].points]
  <2>1. rules[k] \in Reward!Rule /\ rules[k].points > 0
    BY <1>5 DEF Reward!GetCondition, Reward!ListedRules, RewardInv
  <2>2. rules[k].points \in 1 .. MaxPoints
    BY <2>1 DEF Reward!Rule
  <2>3. step \in Reward!Request /\ step.pc = "giving"
    BY <2>2 DEF Reward!Request
  <2>4. Reward!Proceed(r, step) /\ UNCHANGED <<rules, asked>>
    BY <1>5 DEF Reward!GetCondition, Reward!Start, Reward!tables
  <2>5. QED  BY <2>3, <2>4, <1>quiet
<1>6. ASSUME NEW r \in Requests, Reward!CreateRewardPoints(r) PROVE RewardInv'
  BY <1>6, <1>idle, <1>quiet DEF Reward!CreateRewardPoints
<1>7. ASSUME NEW r \in Requests, Reward!Fail(r) PROVE RewardInv'
  <2>1. Reward!Proceed(r, Reward!Idle) /\ UNCHANGED <<rules, asked>>
    BY <1>7 DEF Reward!Fail, Reward!tables
  <2>2. QED  BY <2>1, <1>idle, <1>quiet
<1>8. ASSUME NEW n \in 1 .. MaxRate, Reward!SetExchangeRate(n) PROVE RewardInv'
  BY <1>8, <1>0 DEF Reward!SetExchangeRate, RewardInv, RuleKnown, RuleHeld
<1>9. CASE UNCHANGED rewardVars
  BY <1>9, <1>0 DEF rewardVars, RewardInv, RuleKnown, RuleHeld
<1>10. QED
  BY <1>1, <1>2, <1>3, <1>4, <1>5, <1>6, <1>7, <1>8, <1>9 DEF Reward!Next

\* What users earned, and the exchange rate.
PointsOK ==
  /\ earned \in [Students -> 0 .. MaxEarned]
  /\ rate \in 1 .. MaxRate \cup {None}

\* Points are numbers, within the bound of the model.
LEMMA PointsKept ==
  ASSUME RewardInv, PointsOK, Reward!Next \/ UNCHANGED rewardVars
  PROVE  PointsOK'
<1>1. ASSUME NEW r \in Requests, Reward!CreateRewardPoints(r)
      PROVE  PointsOK'
  <2>1. PICK q \in Reward!Request : q = rewardReq[r]
    BY DEF RewardInv
  <2>2. q.user \in Students /\ q.points \in 1 .. MaxPoints
    BY <1>1, <2>1 DEF Reward!CreateRewardPoints, Reward!Request, Reward!Idle
  <2>3. /\ earned[q.user] + q.points <= MaxEarned
        /\ earned' = [earned EXCEPT ![q.user] = earned[q.user] + q.points]
        /\ rate' = rate
    BY <1>1, <2>1 DEF Reward!CreateRewardPoints
  <2>4. earned[q.user] + q.points \in 0 .. MaxEarned
    BY <2>2, <2>3, PlatformBounds DEF PointsOK
  <2> QED BY <2>2, <2>3, <2>4 DEF PointsOK
<1>2. ASSUME NEW n \in 1 .. MaxRate, Reward!SetExchangeRate(n)
      PROVE  PointsOK'
  BY <1>2 DEF Reward!SetExchangeRate, PointsOK
<1>3. CASE UNCHANGED <<earned, rate>>
  BY <1>3 DEF PointsOK
<1> QED BY <1>1, <1>2, <1>3
        DEF Reward!Next, rewardVars, Reward!CheckDefault, Reward!FindRule, Reward!GetCondition,
            Reward!PutDefault, Reward!PutRule, Reward!Fail, Reward!tables

\* What an admin asked of a rule is the rule, over every start of the program that does not
\* overlap another start, for any rules and any number of users.
THEOREM RulesAreKept == PlatformSpec => []RulesKept
<1>1. PlatformInit => RewardInv
  BY InitReward DEF PlatformInit
<1>2. RewardInv /\ [PlatformNext]_platform => RewardInv'
  BY NextReward, RewardSteps
<1>3. RewardInv => RulesKept
  BY DEF RewardInv, RuleKnown, RulesKept, Reward!RulesKept, Reward!ListedRules
<1>4. QED  BY <1>1, <1>2, <1>3, PTL DEF PlatformSpec

-----------------------------------------------------------------------------

Bucket == {"public", "private"}

\* The instance counts as this module does.
LEMMA FileCardinality ==
  ASSUME NEW S
  PROVE  File!Cardinality(S) = Cardinality(S)
  BY DEF File!Cardinality, Cardinality

\* Every kind has functions for one bucket.
LEMMA OneBucket ==
  ASSUME NEW kind \in File!Kinds
  PROVE  kind.linked \in Bucket /\ kind.signed \in Bucket /\ kind.verified = kind.linked
<1>1. CASE kind \in {File!ProfileImage, File!CoverImage, File!CourseThumbnail, File!LectureThumbnail}
  BY <1>1 DEF Bucket, File!ProfileImage, File!CoverImage, File!CourseThumbnail, File!LectureThumbnail
<1>2. CASE kind \in {File!LectureVideo, File!LectureAttachment, File!AssignmentAttachment, File!ReplyAttachment,
                     File!SupportAttachment}
  BY <1>2 DEF Bucket, File!LectureVideo, File!LectureAttachment, File!AssignmentAttachment,
     File!ReplyAttachment, File!SupportAttachment
<1>3. CASE kind \in {File!BlogImage, File!ProductImage, File!CategoryIcon}
  BY <1>3 DEF Bucket, File!BlogImage, File!ProductImage, File!CategoryIcon
<1>4. QED  BY <1>1, <1>2, <1>3 DEF File!Kinds

\* Where a handler looks for a file is where its links point, but for the kinds that are
\* not checked there.
LEMMA SameBucket ==
  ASSUME NEW kind \in File!Kinds, NEW as \in File!VerifiedAs(kind),
         kind \notin File!UncheckedKinds
  PROVE  as.verified = kind.linked
<1>1. CASE kind = File!SupportAttachment
  <2>1. kind # File!ProductImage /\ kind # File!AssignmentAttachment
    BY DEF File!UncheckedKinds
  <2>2. as = File!SupportAttachment \/ as = File!LectureAttachment
    BY <1>1, <2>1 DEF File!VerifiedAs
  <2>3. File!SupportAttachment.verified = "private" /\ File!LectureAttachment.verified = "private"
    BY DEF File!SupportAttachment, File!LectureAttachment
  <2>4. File!SupportAttachment.linked = "private"
    BY DEF File!SupportAttachment
  <2>5. QED  BY <1>1, <2>2, <2>3, <2>4
<1>2. CASE kind # File!SupportAttachment
  <2>1. as = kind
    BY <1>2 DEF File!VerifiedAs, File!UncheckedKinds
  <2>2. QED  BY <2>1, OneBucket
<1>3. QED  BY <1>1, <1>2

-----------------------------------------------------------------------------
\* What LinkedStored says of one row.
Stored(kind, k) ==
  k \in objects[kind.linked] \/ k \in failed \/ kind \in File!UncheckedKinds

\* The inductive invariant: what a handler has found stays stored until it writes the row,
\* and only what failed as a video is deleted.
FileInv ==
  /\ objects \in [Bucket -> SUBSET Keys]
  /\ rows \subseteq File!Kinds \X Keys /\ Cardinality(rows) <= MaxRows
  /\ failed \subseteq Keys /\ doomed \subseteq failed
  /\ fileReq \in [Requests -> File!Request]
  /\ \A row \in rows : Stored(row[1], row[2])
  /\ \A r \in Requests : fileReq[r].pc # "idle" => Stored(fileReq[r].kind, fileReq[r].key)

\* At first there is nothing.
LEMMA InitFile == File!Init => FileInv
  BY PlatformBounds, FS_EmptySet DEF File!Init, FileInv, Bucket, File!Idle, File!Request

\* A step that loses no object keeps what was stored.
LEMMA StoredKept ==
  ASSUME FileInv, NEW kind \in File!Kinds, NEW k \in Keys, Stored(kind, k),
         failed \subseteq failed', objects' \in [Bucket -> SUBSET Keys],
         \A b \in Bucket : objects[b] \subseteq objects'[b] \cup failed'
  PROVE  Stored(kind, k)'
  BY OneBucket DEF Stored

\* Every step keeps the invariant.
LEMMA NextFile ==
  ASSUME FileInv, File!Next \/ UNCHANGED uploadVars
  PROVE  FileInv'
<1> USE DEF FileInv
<1>rows. \A row \in rows : row[1] \in File!Kinds /\ row[2] \in Keys
  OBVIOUS
<1>reqs. \A r \in Requests : fileReq[r].pc # "idle" => fileReq[r].kind \in File!Kinds /\ fileReq[r].key \in Keys
  BY DEF File!Request, File!Idle
<1>1. ASSUME NEW kind \in File!Kinds, NEW k \in Keys, File!Upload(kind, k) PROVE FileInv'
  <2>1. kind.signed \in Bucket
    BY OneBucket
  <2>2. objects' \in [Bucket -> SUBSET Keys] /\ \A b \in Bucket : objects[b] \subseteq objects'[b]
    BY <1>1, <2>1 DEF File!Upload
  <2>3. QED  BY <1>1, <2>2, <1>rows, <1>reqs, StoredKept DEF File!Upload
<1>2. ASSUME NEW r \in Requests, NEW kind \in File!Kinds, NEW k \in Keys, File!Verify(r, kind, k)
      PROVE  FileInv'
  <2>1. Stored(kind, k)
    <3>1. CASE kind \in File!UncheckedKinds
      BY <3>1 DEF Stored
    <3>2. CASE kind \notin File!UncheckedKinds
      <4>1. kind # File!ProductImage /\ kind # File!AssignmentAttachment
        BY <3>2 DEF File!UncheckedKinds
      <4>2. File!VerifiedAs(kind) # {}
        BY <4>1 DEF File!VerifiedAs
      <4>3. PICK as \in File!VerifiedAs(kind) : k \in objects[as.verified]
        BY <1>2, <4>2 DEF File!Verify
      <4>4. QED  BY <3>2, <4>3, SameBucket DEF Stored
    <3>3. QED  BY <3>1, <3>2
  <2>2. fileReq'[r].kind = kind /\ fileReq'[r].key = k /\ fileReq'[r] \in File!Request
    BY <1>2 DEF File!Verify, File!Proceed, File!Request
  <2>3. QED  BY <1>2, <2>1, <2>2 DEF File!Verify, File!Proceed, Stored, File!tables, File!Request
<1>3. ASSUME NEW r \in Requests, File!Probe(r) PROVE FileInv'
  <2>1. fileReq[r] \in [pc : {"probing", "saving"}, kind : File!Kinds, key : Keys]
    BY <1>3 DEF File!Probe, File!Request, File!Idle
  <2>2. fileReq' = [fileReq EXCEPT ![r] = [fileReq[r] EXCEPT !.pc = "saving"]]
    BY <1>3 DEF File!Probe, File!Proceed
  <2>3. fileReq' \in [Requests -> File!Request]
    BY <2>1, <2>2 DEF File!Request
  <2>4. fileReq'[r].kind = fileReq[r].kind /\ fileReq'[r].key = fileReq[r].key /\ fileReq[r].pc # "idle"
    BY <1>3, <2>1, <2>2 DEF File!Probe
  <2>5. QED  BY <1>3, <2>2, <2>3, <2>4 DEF File!Probe, Stored, File!tables
<1>4. ASSUME NEW r \in Requests, File!ProbeFails(r) PROVE FileInv'
  <2>1. fileReq[r].key \in Keys /\ fileReq' \in [Requests -> File!Request]
    BY <1>4, <1>reqs DEF File!ProbeFails, File!Proceed, File!Request
  <2>2. \A s \in Requests : fileReq'[s].pc # "idle" => fileReq'[s] = fileReq[s]
    BY <1>4 DEF File!ProbeFails, File!Proceed, File!Idle
  <2>3. QED  BY <1>4, <2>1, <2>2 DEF File!ProbeFails, Stored
<1>5. ASSUME NEW k \in Keys, File!Delete(k) PROVE FileInv'
  <2>1. objects' \in [Bucket -> SUBSET Keys]
    BY <1>5 DEF File!Delete, Bucket
  <2>2. \A b \in Bucket : objects[b] \subseteq objects'[b] \cup failed'
    BY <1>5 DEF File!Delete, Bucket
  <2>3. QED  BY <1>5, <2>1, <2>2, <1>rows, <1>reqs, StoredKept DEF File!Delete
<1>6. ASSUME NEW k \in Keys, File!DeleteFails(k) PROVE FileInv'
  BY <1>6 DEF File!DeleteFails, Stored
<1>7. ASSUME NEW r \in Requests, NEW replaced \in SUBSET rows, File!Save(r, replaced) PROVE FileInv'
  <2>1. fileReq[r].kind \in File!Kinds /\ fileReq[r].key \in Keys /\ Stored(fileReq[r].kind, fileReq[r].key)
    BY <1>7, <1>reqs DEF File!Save
  <2>2. rows' \subseteq File!Kinds \X Keys /\ \A row \in rows' : Stored(row[1], row[2])
    BY <1>7, <2>1 DEF File!Save
  <2>3. fileReq' \in [Requests -> File!Request] /\ \A s \in Requests : fileReq'[s].pc # "idle" => fileReq'[s] = fileReq[s]
    BY <1>7 DEF File!Save, File!Proceed, File!Request, File!Idle
  <2>4. UNCHANGED <<objects, failed, doomed>> /\ Cardinality(rows') <= MaxRows
    BY <1>7, FileCardinality DEF File!Save
  <2>5. QED  BY <2>2, <2>3, <2>4 DEF Stored
<1>8. ASSUME NEW r \in Requests, File!Leave(r) PROVE FileInv'
  <2>1. fileReq' \in [Requests -> File!Request] /\ \A s \in Requests : fileReq'[s].pc # "idle" => fileReq'[s] = fileReq[s]
    BY <1>8 DEF File!Leave, File!Proceed, File!Request, File!Idle
  <2>2. QED  BY <1>8, <2>1 DEF File!Leave, Stored, File!tables
<1>9. CASE UNCHANGED uploadVars
  BY <1>9 DEF uploadVars, Stored
<1>10. QED
  BY <1>1, <1>2, <1>3, <1>4, <1>5, <1>6, <1>7, <1>8, <1>9 DEF File!Next

\* What a row names is stored where its links point, unless its verification as a video
\* failed or its kind is not checked there (images of products, what is attached to
\* assignments), in every behaviour of the upload service.
THEOREM FilesAreStored == PlatformSpec => []LinkedStored
<1>1. PlatformInit => FileInv
  BY InitFile DEF PlatformInit
<1>2. FileInv /\ [PlatformNext]_platform => FileInv'
  BY NextFile, FileSteps
<1>3. FileInv => LinkedStored
  BY DEF FileInv, Stored, LinkedStored, File!LinkedStored
<1>4. QED  BY <1>1, <1>2, <1>3, PTL DEF PlatformSpec

-----------------------------------------------------------------------------

\* Two rows that are users have two names, and who came from Facebook has the id as name.
Unique == \A u, v \in Account!UserId :
  users[u] # None /\ users[v] # None /\ users[u].username = users[v].username => u = v

NamedById == \A u \in Account!UserId :
  users[u] # None /\ users[u].facebook \in FacebookIds => users[u].facebook = users[u].username

\* Points go to a user that is there: none is deleted.
Registered == \A r \in Requests : accountReq[r].pc = "rewarding" => users[accountReq[r].user] # None

AccountInv == Account!TypeOK /\ Unique /\ NamedById /\ Registered

\* A step that deletes no user.
NoneLost == \A u \in Account!UserId : users[u] # None => users'[u] # None

\* At first nobody is there.
LEMMA InitAccount == Account!Init => AccountInv
  BY DEF Account!Init, AccountInv, Account!TypeOK, Unique, NamedById, Registered, Account!Idle, Account!Request

\* A row whose name is free and which came from Facebook only with its id, or not at all.
LEMMA InsertKeeps ==
  ASSUME AccountInv, NEW u \in Account!UserId, NEW row \in Account!User, Account!Insert(u, row),
         row.facebook \in FacebookIds => row.facebook = row.username
  PROVE  /\ users' \in [Account!UserId -> Account!User \cup {None}] /\ Unique' /\ NamedById'
         /\ users'[u] # None /\ NoneLost
<1> USE NoneIsNoRow
<1>1. users' = [users EXCEPT ![u] = row] /\ users[u] = None
  BY DEF Account!Insert
<1>2. \A v \in Account!UserId : users[v] # None => users[v].username # row.username
  BY DEF Account!Insert, Account!Named, Account!Existing
<1>3. users' \in [Account!UserId -> Account!User \cup {None}]
  BY <1>1 DEF AccountInv, Account!TypeOK
<1>4. Unique'
  BY <1>1, <1>2 DEF Unique, AccountInv, Account!TypeOK
<1>5. NamedById'
  BY <1>1 DEF NamedById, AccountInv, Account!TypeOK
<1>6. users'[u] # None /\ NoneLost
  BY <1>1 DEF NoneLost, AccountInv, Account!TypeOK
<1>7. QED  BY <1>3, <1>4, <1>5, <1>6

\* A new row that keeps the name and the id of a user.
LEMMA ReplaceKeeps ==
  ASSUME AccountInv, NEW u \in Account!UserId, users[u] # None, NEW row \in Account!User,
         users' = [users EXCEPT ![u] = row],
         row.username = users[u].username, row.facebook = users[u].facebook
  PROVE  users' \in [Account!UserId -> Account!User \cup {None}] /\ Unique' /\ NamedById' /\ NoneLost
<1> USE NoneIsNoRow
<1>1. users' \in [Account!UserId -> Account!User \cup {None}]
  BY DEF AccountInv, Account!TypeOK
<1>2. Unique'
  BY DEF Unique, AccountInv, Account!TypeOK
<1>3. NamedById'
  BY DEF NamedById, AccountInv, Account!TypeOK
<1>4. NoneLost
  BY DEF NoneLost, AccountInv, Account!TypeOK
<1>5. QED  BY <1>1, <1>2, <1>3, <1>4

\* Every step keeps the invariant.
LEMMA NextAccount ==
  ASSUME AccountInv, Account!Next \/ UNCHANGED accountVars
  PROVE  AccountInv'
<1> USE NoneIsNoRow, FacebookAssumption
<1>idle. Account!Idle \in Account!Request /\ Account!Idle.pc # "rewarding"
  BY DEF Account!Request, Account!Idle
\* A handler proceeds while no user is lost.
<1>accountReq. ASSUME NEW r \in Requests, NEW step \in Account!Request, Account!Proceed(r, step),
               step.pc = "rewarding" => users'[step.user] # None, NoneLost
        PROVE  accountReq' \in [Requests -> Account!Request] /\ Registered'
  <2>1. accountReq' = [accountReq EXCEPT ![r] = step] /\ accountReq \in [Requests -> Account!Request]
    BY <1>accountReq DEF Account!Proceed, AccountInv, Account!TypeOK
  <2>2. accountReq' \in [Requests -> Account!Request]
    BY <2>1
  <2>3. ASSUME NEW s \in Requests, s # r, accountReq[s].pc = "rewarding" PROVE accountReq[s].user \in Account!UserId
    BY <2>1, <2>3 DEF Account!Request, Account!Idle
  <2>4. Registered'
    BY <1>accountReq, <2>1, <2>3 DEF Registered, AccountInv, NoneLost
  <2>5. QED  BY <2>2, <2>4
\* ... or no handler does.
<1>wait. ASSUME accountReq' = accountReq, NoneLost PROVE accountReq' \in [Requests -> Account!Request] /\ Registered'
  <2>1. ASSUME NEW s \in Requests, accountReq[s].pc = "rewarding" PROVE accountReq[s].user \in Account!UserId
    BY <2>1 DEF Account!Request, Account!Idle, AccountInv, Account!TypeOK
  <2>2. QED  BY <1>wait, <2>1 DEF Registered, AccountInv, Account!TypeOK, NoneLost
<1>same. ASSUME UNCHANGED users, NEW r \in Requests, NEW step \in Account!Request, Account!Proceed(r, step),
                step.pc # "rewarding"
         PROVE  AccountInv'
  <2>1. NoneLost
    BY <1>same DEF NoneLost
  <2>2. accountReq' \in [Requests -> Account!Request] /\ Registered'
    BY <1>accountReq, <1>same, <2>1
  <2>3. QED  BY <1>same, <2>2 DEF AccountInv, Account!TypeOK, Unique, NamedById
<1>1. ASSUME NEW r \in Requests, NEW n \in Names, Account!RegisterStudent(r, n) PROVE AccountInv'
  <2>1. [pc |-> "registering", name |-> n] \in Account!Request
    BY DEF Account!Request
  <2>2. QED  BY <1>1, <2>1, <1>same DEF Account!RegisterStudent, Account!Start
<1>2. ASSUME NEW r \in Requests, NEW f \in FacebookIds, Account!FindFacebook(r, f) PROVE AccountInv'
  <2>1. [pc |-> "absent", facebook |-> f] \in Account!Request
    BY DEF Account!Request
  <2>2. QED  BY <1>2, <2>1, <1>same DEF Account!FindFacebook, Account!Start
<1>3. ASSUME NEW r \in Requests, NEW u \in Account!UserId, Account!CreateStudent(r, u) PROVE AccountInv'
  <2> DEFINE row == Account!Student(accountReq[r].name, None)
  <2>1. accountReq[r].name \in Names
    BY <1>3 DEF Account!CreateStudent, AccountInv, Account!TypeOK, Account!Request, Account!Idle
  <2>2. row \in Account!User /\ row.facebook \notin FacebookIds
    BY <2>1 DEF Account!Student, Account!User, Account!Role
  <2>3. /\ users' \in [Account!UserId -> Account!User \cup {None}] /\ Unique' /\ NamedById'
        /\ users'[u] # None /\ NoneLost
    BY <1>3, <2>2, InsertKeeps DEF Account!CreateStudent
  <2>4. [pc |-> "rewarding", user |-> u] \in Account!Request
    BY DEF Account!Request
  <2>5. accountReq' \in [Requests -> Account!Request] /\ Registered'
    BY <1>3, <2>3, <2>4, <1>accountReq DEF Account!CreateStudent
  <2>6. QED  BY <2>3, <2>5 DEF AccountInv, Account!TypeOK
<1>4. ASSUME NEW r \in Requests, NEW u \in Account!UserId, Account!CreateStudentFromFacebook(r, u) PROVE AccountInv'
  <2> DEFINE f == accountReq[r].facebook
             row == Account!Student(f, f)
  <2>1. f \in FacebookIds
    BY <1>4 DEF Account!CreateStudentFromFacebook, AccountInv, Account!TypeOK, Account!Request, Account!Idle
  <2>2. row \in Account!User /\ row.facebook = row.username
    BY <2>1 DEF Account!Student, Account!User, Account!Role
  <2>3. Account!Insert(u, row) /\ Account!Proceed(r, Account!Idle)
    BY <1>4 DEF Account!CreateStudentFromFacebook, Account!FacebookName
  <2>4. users' \in [Account!UserId -> Account!User \cup {None}] /\ Unique' /\ NamedById' /\ NoneLost
    BY <2>2, <2>3, InsertKeeps
  <2>5. accountReq' \in [Requests -> Account!Request] /\ Registered'
    BY <2>3, <2>4, <1>idle, <1>accountReq
  <2>6. QED  BY <2>4, <2>5 DEF AccountInv, Account!TypeOK
<1>5. ASSUME NEW r \in Requests, Account!GiveReward(r) PROVE AccountInv'
  <2> DEFINE u == accountReq[r].user
             row == [users[u] EXCEPT !.points = 1]
  <2>1. u \in Account!UserId /\ users[u] # None
    BY <1>5 DEF Account!GiveReward, AccountInv, Account!TypeOK, Registered, Account!Request, Account!Idle
  <2>2. users[u] \in Account!User
    BY <2>1 DEF AccountInv, Account!TypeOK
  <2>3. row \in Account!User /\ row.username = users[u].username /\ row.facebook = users[u].facebook
    BY <2>2 DEF Account!User
  <2>4. users' = [users EXCEPT ![u] = row] /\ Account!Proceed(r, Account!Idle)
    BY <1>5, <2>1 DEF Account!GiveReward, AccountInv, Account!TypeOK
  <2>5. users' \in [Account!UserId -> Account!User \cup {None}] /\ Unique' /\ NamedById' /\ NoneLost
    BY <2>1, <2>3, <2>4, ReplaceKeeps
  <2>6. accountReq' \in [Requests -> Account!Request] /\ Registered'
    BY <2>4, <2>5, <1>idle, <1>accountReq
  <2>7. QED  BY <2>5, <2>6 DEF AccountInv, Account!TypeOK
<1>6. ASSUME NEW r \in Requests, Account!CheckFacebook(r) PROVE AccountInv'
  <2>1. accountReq[r] \in Account!Request /\ accountReq[r].pc = "absent"
    BY <1>6 DEF Account!CheckFacebook, AccountInv, Account!TypeOK
  <2>2. accountReq[r] \in [pc : {"absent", "connecting"}, facebook : FacebookIds]
    BY <2>1 DEF Account!Request, Account!Idle
  <2> DEFINE step == [accountReq[r] EXCEPT !.pc = "connecting"]
  <2>3. step \in Account!Request /\ step.pc # "rewarding"
    BY <2>2 DEF Account!Request
  <2>4. users' = users /\ Account!Proceed(r, step)
    BY <1>6 DEF Account!CheckFacebook
  <2>5. QED  BY <2>3, <2>4, <1>same
<1>7. ASSUME NEW r \in Requests, Account!Fail(r) PROVE AccountInv'
  BY <1>7, <1>idle, <1>same DEF Account!Fail
<1>8. ASSUME NEW u \in Account!UserId, NEW role \in Account!Role \cup {None},
             NEW o \in Organizations \cup {None, "null"}, Account!UpdateUserAdmin(u, role, o)
      PROVE  AccountInv'
  <2> DEFINE row == [users[u] EXCEPT !.role = IF role = None THEN @ ELSE role,
                                     !.organization = Account!UpdatedOrganization(u, role, o)]
  <2>1. users[u] # None /\ users[u] \in Account!User
    BY <1>8 DEF Account!UpdateUserAdmin, Account!Existing, AccountInv, Account!TypeOK
  <2>2. Account!UpdatedOrganization(u, role, o) \in Organizations \cup {None}
    BY <2>1 DEF Account!UpdatedOrganization, Account!User
  <2>3. row \in Account!User /\ row.username = users[u].username /\ row.facebook = users[u].facebook
    BY <2>1, <2>2 DEF Account!User
  <2>4. users' = [users EXCEPT ![u] = row]
    BY <1>8 DEF Account!UpdateUserAdmin, AccountInv, Account!TypeOK
  <2>5. users' \in [Account!UserId -> Account!User \cup {None}] /\ Unique' /\ NamedById' /\ NoneLost
    BY <2>1, <2>3, <2>4, ReplaceKeeps
  <2>6. QED  BY <1>8, <2>5, <1>wait DEF Account!UpdateUserAdmin, AccountInv, Account!TypeOK
<1>9. ASSUME NEW u \in Account!UserId, Account!ResetPassword(u) PROVE AccountInv'
  <2> DEFINE row == [users[u] EXCEPT !.password = TRUE]
  <2>1. users[u] # None /\ users[u] \in Account!User
    BY <1>9 DEF Account!ResetPassword, Account!Existing, AccountInv, Account!TypeOK
  <2>2. row \in Account!User /\ row.username = users[u].username /\ row.facebook = users[u].facebook
    BY <2>1 DEF Account!User
  <2>3. users' = [users EXCEPT ![u] = row]
    BY <1>9 DEF Account!ResetPassword, AccountInv, Account!TypeOK
  <2>4. users' \in [Account!UserId -> Account!User \cup {None}] /\ Unique' /\ NamedById' /\ NoneLost
    BY <2>1, <2>2, <2>3, ReplaceKeeps
  <2>5. QED  BY <1>9, <2>4, <1>wait DEF Account!ResetPassword, AccountInv, Account!TypeOK
<1>10. CASE UNCHANGED accountVars
  <2>1. NoneLost
    BY <1>10 DEF accountVars, NoneLost
  <2>2. accountReq' \in [Requests -> Account!Request] /\ Registered'
    BY <1>10, <2>1, <1>wait DEF accountVars
  <2>3. QED  BY <1>10, <2>2 DEF accountVars, AccountInv, Account!TypeOK, Unique, NamedById
<1>11. QED
  BY <1>1, <1>2, <1>3, <1>4, <1>5, <1>6, <1>7, <1>8, <1>9, <1>10 DEF Account!Next

\* Whoever signs in with a name, or with Facebook, is one user, whatever registrations and
\* callbacks overlap, and whatever admins make of users.
THEOREM EachIsOne == PlatformSpec => []OneAccountEach
<1>1. PlatformInit => AccountInv
  BY InitAccount DEF PlatformInit
<1>2. AccountInv /\ [PlatformNext]_platform => AccountInv'
  BY NextAccount, AccountSteps
<1>3. AccountInv => OneAccountEach
  BY DEF AccountInv, Unique, NamedById, OneAccountEach, Account!OneAccountEach,
     Account!OfFacebook, Account!Named, Account!Existing
<1>4. QED  BY <1>1, <1>2, <1>3, PTL DEF PlatformSpec

\* The tables and the handlers of rules, files and users keep their shapes.
RecordsTypeOK == Reward!TypeOK /\ File!TypeOK /\ Account!TypeOK

LEMMA RecordsTypeCorrect == PlatformSpec => []RecordsTypeOK
<1> DEFINE Inv == RewardInv /\ PointsOK /\ FileInv /\ AccountInv
<1>1. PlatformInit => Inv
  <2>1. Reward!Init => PointsOK
    BY PlatformBounds DEF Reward!Init, PointsOK
  <2> QED BY <2>1, InitReward, InitFile, InitAccount DEF PlatformInit
<1>2. Inv /\ [PlatformNext]_platform => Inv'
  BY NextReward, RewardSteps, PointsKept, NextFile, FileSteps, NextAccount, AccountSteps
<1>3. Inv => RecordsTypeOK
  <2>1. RewardInv /\ PointsOK => Reward!TypeOK
    BY DEF RewardInv, PointsOK, Reward!TypeOK
  <2>2. FileInv => File!TypeOK
    BY FileCardinality DEF FileInv, File!TypeOK, Bucket
  <2>3. AccountInv => Account!TypeOK
    BY DEF AccountInv
  <2> QED BY <2>1, <2>2, <2>3 DEF RecordsTypeOK
<1> QED BY <1>1, <1>2, <1>3, PTL DEF PlatformSpec

-----------------------------------------------------------------------------
(* Sums over finite sets, and what is summed of a sale.                     *)

\* What is summed first.
Taken(s) == CHOOSE x \in s : TRUE

\* F has the sum of v over each set of T.
Sums(F, v, T) ==
  F = [s \in SUBSET T |-> IF s = {} THEN 0 ELSE v[Taken(s)] + F[s \ {Taken(s)}]]

\* Of some subsets of a finite set there is one that is among them with no element less.
LEMMA Smallest ==
  ASSUME NEW T, IsFiniteSet(T), NEW B, B \subseteq SUBSET T, B # {}
  PROVE  \E s \in B : \A x \in s : s \ {x} \notin B
<1> DEFINE N == {n \in Nat : \E s \in B : Cardinality(s) = n}
<1>1. \A s \in B : IsFiniteSet(s) /\ Cardinality(s) \in Nat
  <2>1. ASSUME NEW s \in B PROVE IsFiniteSet(s) /\ Cardinality(s) \in Nat
    <3>1. s \in SUBSET T
      OBVIOUS
    <3>2. QED  BY <3>1, FS_Subset, FS_CardinalityType
  <2>2. QED  BY <2>1
<1>2. N \subseteq Nat /\ N # {}
  <2>1. PICK s \in B : TRUE
    OBVIOUS
  <2>2. Cardinality(s) \in N
    BY <1>1, <2>1
  <2>3. QED  BY <2>2
<1>3. PICK n \in N : \A m \in N : ~ (<<m, n>> \in OpToRel(<, Nat))
  <2> HIDE DEF N
  <2>1. QED  BY <1>2, NatLessThanWellFounded, WFMin
<1>4. PICK s \in B : Cardinality(s) = n
  BY <1>3
<1>5. ASSUME NEW x \in s, s \ {x} \in B PROVE FALSE
  <2>1. Cardinality(s \ {x}) = n - 1 /\ Cardinality(s \ {x}) \in Nat /\ n \in Nat
    BY <1>1, <1>4, <1>5, FS_RemoveElement
  <2>2. n - 1 \in N /\ n - 1 < n
    BY <1>5, <2>1
  <2>3. QED  BY <1>2, <1>3, <2>2 DEF OpToRel
<1>6. QED  BY <1>5

\* There are such sums: of the sets of one element more if of those of one less.
LEMMA SumsExist ==
  ASSUME NEW T, IsFiniteSet(T), NEW v
  PROVE  \E F : Sums(F, v, T)
<1> DEFINE Upto(n) == {s \in SUBSET T : Cardinality(s) <= n}
           Next1(F, s) == IF s = {} THEN 0 ELSE v[Taken(s)] + F[s \ {Taken(s)}]
           Summed(F, n) == F = [s \in Upto(n) |-> Next1(F, s)]
           Bad == {n \in Nat : \A F : ~ Summed(F, n)}
<1>1. \A s \in SUBSET T : IsFiniteSet(s) /\ Cardinality(s) \in Nat /\ Cardinality(s) <= Cardinality(T)
  BY FS_Subset, FS_CardinalityType
<1>2. \A s \in SUBSET T : s # {} =>
        /\ Taken(s) \in s /\ s \ {Taken(s)} \in SUBSET T
        /\ Cardinality(s \ {Taken(s)}) = Cardinality(s) - 1
  <2>1. ASSUME NEW s \in SUBSET T, s # {}
        PROVE  Taken(s) \in s /\ Cardinality(s \ {Taken(s)}) = Cardinality(s) - 1
    <3>1. Taken(s) \in s
      BY <2>1 DEF Taken
    <3>2. QED  BY <1>1, <3>1, FS_RemoveElement
  <2>2. QED  BY <2>1
<1>3. Bad = {}
  <2>1. SUFFICES ASSUME Bad # {} PROVE FALSE
    OBVIOUS
  <2>2. PICK n \in Bad : \A m \in Bad : ~ (<<m, n>> \in OpToRel(<, Nat))
    <3>1. Bad \subseteq Nat
      OBVIOUS
    <3> HIDE DEF Bad
    <3>2. QED  BY <2>1, <3>1, NatLessThanWellFounded, WFMin
  <2>3. n \in Nat /\ \A m \in Nat : m < n => \E F : Summed(F, m)
    BY <2>2 DEF OpToRel
  <2>4. CASE n = 0
    <3> DEFINE F == [s \in Upto(0) |-> 0]
    <3>1. \A s \in Upto(0) : s = {}
      BY <1>1, FS_EmptySet
    <3>2. F = [s \in Upto(0) |-> Next1(F, s)]
      BY <3>1
    <3>3. Summed(F, 0)
      BY <3>2
    <3>4. QED  BY <2>2, <2>4, <3>3
  <2>5. CASE n # 0
    <3>1. n - 1 \in Nat /\ n - 1 < n
      BY <2>3, <2>5
    <3>2. PICK F : Summed(F, n - 1)
      BY <2>3, <3>1
    <3> DEFINE G == [s \in Upto(n) |-> Next1(F, s)]
    <3>3. \A s \in Upto(n - 1) : F[s] = Next1(F, s)
      BY <3>2
    <3>4. \A s \in Upto(n - 1) : s \in Upto(n)
      BY <1>1, <2>3
    <3>5. \A s \in Upto(n - 1) : G[s] = F[s]
      BY <3>3, <3>4
    <3>6. \A s \in Upto(n) : s # {} => s \ {Taken(s)} \in Upto(n - 1)
      BY <1>1, <1>2, <2>3
    <3>a. \A s \in Upto(n) : s # {} => G[s \ {Taken(s)}] = F[s \ {Taken(s)}]
      <4> HIDE DEF G, Upto
      <4>1. QED  BY <3>5, <3>6
    <3>7. \A s \in Upto(n) : Next1(G, s) = Next1(F, s)
      <4> HIDE DEF G, Upto
      <4>1. QED  BY <3>a
    <3>8. G = [s \in Upto(n) |-> Next1(G, s)]
      BY <3>7
    <3>9. Summed(G, n)
      BY <3>8
    <3>10. QED  BY <2>2, <3>9
  <2>6. QED  BY <2>4, <2>5
<1>4. Cardinality(T) \in Nat
  BY FS_CardinalityType
<1>5. PICK F : Summed(F, Cardinality(T))
  <2>1. Cardinality(T) \notin Bad
    BY <1>3
  <2> HIDE DEF Summed
  <2>2. QED  BY <1>4, <2>1
<1>6. Upto(Cardinality(T)) = SUBSET T
  BY <1>1
<1>7. QED  BY <1>5, <1>6 DEF Sums

\* A sum is of whole numbers.
LEMMA SumsInt ==
  ASSUME NEW T, IsFiniteSet(T), NEW v, \A i \in T : v[i] \in Int, NEW F, Sums(F, v, T)
  PROVE  F[{}] = 0 /\ \A s \in SUBSET T : F[s] \in Int
<1> DEFINE B == {s \in SUBSET T : F[s] \notin Int}
<1>1. \A s \in SUBSET T : F[s] = IF s = {} THEN 0 ELSE v[Taken(s)] + F[s \ {Taken(s)}]
  BY DEF Sums
<1>2. F[{}] = 0
  BY <1>1
<1>3. ASSUME B # {} PROVE FALSE
  <2>1. PICK s \in B : \A x \in s : s \ {x} \notin B
    <3> HIDE DEF B
    <3>1. B \subseteq SUBSET T
      BY DEF B
    <3>2. QED  BY <1>3, <3>1, Smallest
  <2>2. s # {} /\ Taken(s) \in s
    BY <1>2, <2>1 DEF Taken
  <2>3. F[s \ {Taken(s)}] \in Int /\ v[Taken(s)] \in Int
    BY <2>1, <2>2
  <2>4. QED  BY <1>1, <2>1, <2>2, <2>3
<1>4. QED  BY <1>2, <1>3

\* Whatever is taken first.
LEMMA SumsRemove ==
  ASSUME NEW T, IsFiniteSet(T), NEW v, \A i \in T : v[i] \in Int, NEW F, Sums(F, v, T)
  PROVE  \A s \in SUBSET T, x \in T : x \in s => F[s] = v[x] + F[s \ {x}]
<1> DEFINE B == {s \in SUBSET T : \E x \in s : F[s] # v[x] + F[s \ {x}]}
<1>1. \A s \in SUBSET T : s # {} => F[s] = v[Taken(s)] + F[s \ {Taken(s)}]
  BY DEF Sums
<1>2. \A s \in SUBSET T : F[s] \in Int
  BY SumsInt
<1>3. ASSUME B # {} PROVE FALSE
  <2>1. PICK s \in B : \A x \in s : s \ {x} \notin B
    <3> HIDE DEF B
    <3>1. B \subseteq SUBSET T
      BY DEF B
    <3>2. QED  BY <1>3, <3>1, Smallest
  <2>2. PICK x \in s : F[s] # v[x] + F[s \ {x}]
    BY <2>1
  <2> DEFINE p == Taken(s)
             sp == s \ {p}
             sx == s \ {x}
  <2>3. p \in s /\ F[s] = v[p] + F[sp]
    BY <1>1, <2>1, <2>2 DEF Taken
  <2>4. p # x /\ x \in sp /\ p \in sx /\ sp \notin B /\ sx \notin B
        /\ sp \in SUBSET T /\ sx \in SUBSET T
    BY <2>1, <2>2, <2>3
  <2>5. F[sp] = v[x] + F[sp \ {x}] /\ F[sx] = v[p] + F[sx \ {p}]
    BY <2>4
  <2>6. sp \ {x} = sx \ {p} /\ sp \ {x} \in SUBSET T
    OBVIOUS
  <2>7. v[x] \in Int /\ v[p] \in Int /\ F[sp \ {x}] \in Int
    BY <1>2, <2>1, <2>2, <2>3, <2>6
  <2>8. F[sx \ {p}] = F[sp \ {x}]
    BY <2>6
  <2> HIDE DEF p, sp, sx
  <2>9. F[s] = v[x] + F[sx]
    BY <2>3, <2>5, <2>7, <2>8
  <2>10. QED  BY <2>2, <2>9 DEF sx
<1>4. QED  BY <1>3

\* What is the same has the same sum.
LEMMA SumsSame ==
  ASSUME NEW T, IsFiniteSet(T), NEW U, U \subseteq T, NEW v, NEW w, \A i \in U : v[i] = w[i],
         NEW F, NEW G, Sums(F, v, T), Sums(G, w, U)
  PROVE  \A s \in SUBSET U : F[s] = G[s]
<1> DEFINE B == {s \in SUBSET U : F[s] # G[s]}
<1>1. /\ \A s \in SUBSET T : F[s] = IF s = {} THEN 0 ELSE v[Taken(s)] + F[s \ {Taken(s)}]
      /\ \A s \in SUBSET U : G[s] = IF s = {} THEN 0 ELSE w[Taken(s)] + G[s \ {Taken(s)}]
  BY DEF Sums
<1>2. ASSUME B # {} PROVE FALSE
  <2>1. PICK s \in B : \A x \in s : s \ {x} \notin B
    <3> HIDE DEF B
    <3>1. B \subseteq SUBSET T
      BY DEF B
    <3>2. QED  BY <1>2, <3>1, Smallest
  <2>2. s \in SUBSET U /\ s \in SUBSET T /\ F[s] # G[s]
    BY <2>1
  <2>3. s # {} /\ Taken(s) \in s
    BY <1>1, <2>2 DEF Taken
  <2>4. s \ {Taken(s)} \notin B /\ s \ {Taken(s)} \in SUBSET U /\ v[Taken(s)] = w[Taken(s)]
    BY <2>1, <2>2, <2>3
  <2>5. QED  BY <1>1, <2>2, <2>3, <2>4
<1>3. QED  BY <1>2

\* What is apart adds up.
LEMMA SumsJoin ==
  ASSUME NEW T, IsFiniteSet(T), NEW v, \A i \in T : v[i] \in Int, NEW F, Sums(F, v, T),
         NEW X \in SUBSET T, NEW Y \in SUBSET T, X \cap Y = {}
  PROVE  F[X \cup Y] = F[X] + F[Y]
<1> DEFINE B == {s \in SUBSET X : F[s \cup Y] # F[s] + F[Y]}
<1>1. F[{}] = 0 /\ \A s \in SUBSET T : F[s] \in Int
  BY SumsInt
<1>2. \A s \in SUBSET T, x \in T : x \in s => F[s] = v[x] + F[s \ {x}]
  BY SumsRemove
<1>3. ASSUME B # {} PROVE FALSE
  <2>1. PICK s \in B : \A x \in s : s \ {x} \notin B
    <3> HIDE DEF B
    <3>1. B \subseteq SUBSET T
      BY DEF B
    <3>2. QED  BY <1>3, <3>1, Smallest
  <2>2. s \in SUBSET X /\ F[s \cup Y] # F[s] + F[Y]
    BY <2>1
  <2>3. s # {}
    <3>1. {} \cup Y = Y
      OBVIOUS
    <3>2. F[{} \cup Y] = F[{}] + F[Y]
      BY <1>1, <3>1
    <3>3. QED  BY <2>2, <3>2
  <2>4. PICK x \in s : TRUE
    BY <2>3
  <2> DEFINE less == s \ {x}
  <2>5. less \in SUBSET X /\ F[less \cup Y] = F[less] + F[Y]
    BY <2>1, <2>2, <2>4
  <2>6. (s \cup Y) \ {x} = less \cup Y /\ s \cup Y \in SUBSET T /\ x \in s \cup Y
        /\ s \in SUBSET T /\ less \in SUBSET T
    BY <2>2, <2>4
  <2>7. F[s \cup Y] = v[x] + F[less \cup Y] /\ F[s] = v[x] + F[less]
    <3>1. F[s \cup Y] = v[x] + F[(s \cup Y) \ {x}]
      BY <1>2, <2>6
    <3>2. QED  BY <1>2, <2>4, <2>6, <3>1
  <2>8. v[x] \in Int /\ F[less] \in Int /\ F[Y] \in Int
    BY <1>1, <2>4, <2>6
  <2> HIDE DEF less
  <2>9. F[s \cup Y] = F[s] + F[Y]
    BY <2>5, <2>7, <2>8
  <2>10. QED  BY <2>2, <2>9
<1>4. QED  BY <1>3

\* What is nothing below nothing and comes to nothing is nothing.
LEMMA SumsZero ==
  ASSUME NEW T, IsFiniteSet(T), NEW v, \A i \in T : v[i] \in Int /\ v[i] >= 0,
         NEW F, Sums(F, v, T), F[T] = 0
  PROVE  \A i \in T : v[i] = 0
<1> DEFINE B == {s \in SUBSET T : ~ (F[s] >= 0)}
<1>1. F[{}] = 0 /\ \A s \in SUBSET T : F[s] \in Int
  BY SumsInt
<1>2. \A s \in SUBSET T, x \in T : x \in s => F[s] = v[x] + F[s \ {x}]
  BY SumsRemove
<1>3. ASSUME B # {} PROVE FALSE
  <2>1. PICK s \in B : \A x \in s : s \ {x} \notin B
    <3> HIDE DEF B
    <3>1. B \subseteq SUBSET T
      BY DEF B
    <3>2. QED  BY <1>3, <3>1, Smallest
  <2>2. s # {}
    <3>1. 0 >= 0
      OBVIOUS
    <3>2. F[s] # 0
      BY <2>1, <3>1
    <3>3. QED  BY <1>1, <3>2
  <2>3. PICK x \in s : TRUE
    BY <2>2
  <2>4. s \in SUBSET T /\ s \ {x} \in SUBSET T /\ F[s \ {x}] >= 0 /\ x \in T
    BY <2>1, <2>3
  <2>5. F[s] = v[x] + F[s \ {x}] /\ F[s \ {x}] \in Int /\ v[x] \in Int /\ v[x] >= 0
    BY <1>1, <1>2, <2>3, <2>4
  <2>6. F[s] >= 0
    BY <2>4, <2>5
  <2>7. QED  BY <2>1, <2>6
<1>4. ASSUME NEW i \in T PROVE v[i] = 0
  <2>1. F[T] = v[i] + F[T \ {i}] /\ F[T \ {i}] \in Int /\ F[T \ {i}] >= 0
    BY <1>1, <1>2, <1>3, <1>4
  <2>2. QED  BY <2>1
<1>5. QED  BY <1>4

\* What is summed of a meta is such a sum: the one of the charges.
LEMMA CostIs ==
  ASSUME NEW meta, NEW is, IsFiniteSet(is \cap DOMAIN meta), NEW v,
         \A i \in is \cap DOMAIN meta : v[i] = Sale!Charge(meta[i])
  PROVE  \E F : Sums(F, v, is \cap DOMAIN meta) /\ Sale!Cost(meta, is) = F[is \cap DOMAIN meta]
<1> DEFINE T == is \cap DOMAIN meta
           Adds(F) == F = [s \in SUBSET T |-> IF s = {} THEN 0
                             ELSE Sale!Charge(meta[Taken(s)]) + F[s \ {Taken(s)}]]
<1>1. \A F : Adds(F) <=> Sums(F, v, T)
  <2>1. \A s \in SUBSET T : s # {} => v[Taken(s)] = Sale!Charge(meta[Taken(s)])
    <3>1. \A s \in SUBSET T : s # {} => Taken(s) \in s
      BY DEF Taken
    <3>2. QED  BY <3>1
  <2>2. QED  BY <2>1 DEF Sums
<1>2. Sale!Cost(meta, is) = (CHOOSE F : Adds(F))[T]
  BY DEF Sale!Cost, Sale!MapThenSumSet, Sale!MapThenFoldSet, Taken
<1>3. \E F : Sums(F, v, T)
  BY SumsExist
<1> HIDE DEF Adds
<1>4. \E F : Adds(F)
  BY <1>1, <1>3
<1>5. Adds(CHOOSE F : Adds(F))
  BY <1>4
<1>6. QED  BY <1>1, <1>2, <1>5

-----------------------------------------------------------------------------
OrderRow ==
  [meta : UNION {[is -> Sale!Meta] : is \in SUBSET Sale!Items}, coupon : Sale!Coupon \cup {None},
   amount : Int, status : {"Pending", "Completed"}]

\* The amount is of the meta, and what is stated of an item is what it costs for one month.
SaleInv ==
  /\ Sale!TypeOK
  /\ order # None => order \in OrderRow /\ order.amount = Sale!Amount(order.meta)
  /\ Sale!Executed =>
       \A i \in DOMAIN statements : statements[i] = Sale!UnitPrice(order.meta[i])

\* Of the sale every step is its own.
LEMMA SaleSteps ==
  ASSUME [PlatformNext]_platform
  PROVE  Sale!Next \/ UNCHANGED pricingVars
  BY DEF PlatformNext, platform, LectureStep, CatalogueStep, CommunityStep, SupportStep,
     StoreStep, NoticeStep, RewardStep, PricingStep, UploadStep, AccountStep

\* What is charged is a whole number; it is nothing only of what is listed for nothing.
LEMMA ChargeInt ==
  ASSUME NEW m \in Sale!Meta
  PROVE  /\ Sale!UnitPrice(m) \in Int /\ Sale!Charge(m) \in Int
         /\ Sale!Charge(m) = 0 => m.list = 0
         /\ m.months \in {0, 1} => Sale!Charge(m) = Sale!UnitPrice(m)
<1>1. m.list \in Int /\ m.discounted \in Int /\ m.months \in Int
  BY SoldThings DEF Sale!Meta, Sale!Months
<1>2. Sale!UnitPrice(m) \in Int /\ (Sale!UnitPrice(m) = 0 => m.list = 0)
  BY <1>1 DEF Sale!UnitPrice
<1>3. Sale!Charge(m) = IF m.months # 0 THEN m.months * Sale!UnitPrice(m) ELSE Sale!UnitPrice(m)
  BY DEF Sale!Charge
<1>4. \A a, b \in Int : a * b \in Int /\ (a # 0 /\ a * b = 0 => b = 0) /\ 1 * b = b
  OBVIOUS
<1>5. QED  BY <1>1, <1>2, <1>3, <1>4

\* The amount of an order is the sum of the charges of all that is in it.
LEMMA AmountIs ==
  ASSUME NEW meta, DOMAIN meta \subseteq Sale!Items, \A i \in DOMAIN meta : meta[i] \in Sale!Meta,
         NEW v, \A i \in DOMAIN meta : v[i] = Sale!Charge(meta[i])
  PROVE  \E F : Sums(F, v, DOMAIN meta) /\ Sale!Amount(meta) = F[DOMAIN meta]
                /\ Sale!Amount(meta) \in Int
<1> DEFINE D == DOMAIN meta
           B == SoldBundles \cap D
           C == SoldCourses \cap D
           P == SoldProducts \cap D
<1>1. IsFiniteSet(D) /\ IsFiniteSet(B) /\ IsFiniteSet(C) /\ IsFiniteSet(P)
  <2>1. D \in SUBSET Sale!Items /\ B \in SUBSET D /\ C \in SUBSET D /\ P \in SUBSET D
    OBVIOUS
  <2>2. IsFiniteSet(D)
    BY <2>1, SoldThings, FS_Subset
  <2> HIDE DEF D, B, C, P
  <2>3. QED  BY <2>1, <2>2, FS_Subset
<1>2. \A i \in D : v[i] \in Int
  BY ChargeInt
<1>3. PICK F : Sums(F, v, D)
  BY <1>1, SumsExist
<1>4. PICK FB : Sums(FB, v, B) /\ Sale!Cost(meta, SoldBundles) = FB[B]
  BY <1>1, CostIs
<1>5. PICK FC : Sums(FC, v, C) /\ Sale!Cost(meta, SoldCourses) = FC[C]
  BY <1>1, CostIs
<1>6. PICK FP : Sums(FP, v, P) /\ Sale!Cost(meta, SoldProducts) = FP[P]
  BY <1>1, CostIs
<1>7. /\ B \subseteq D /\ C \subseteq D /\ P \subseteq D /\ B \cup C \subseteq D
      /\ B \cap C = {} /\ (B \cup C) \cap P = {}
      /\ (B \cup C) \cup P = D
  BY SoldThings DEF Sale!Items
<1>8. Sale!Amount(meta) = FB[B] + FC[C] + FP[P]
  BY <1>4, <1>5, <1>6 DEF Sale!Amount
<1> HIDE DEF D, B, C, P
<1>9. F[B] = FB[B] /\ F[C] = FC[C] /\ F[P] = FP[P]
  <2>1. F[B] = FB[B]
    BY <1>1, <1>3, <1>4, <1>7, SumsSame
  <2>2. F[C] = FC[C]
    BY <1>1, <1>3, <1>5, <1>7, SumsSame
  <2>3. F[P] = FP[P]
    BY <1>1, <1>3, <1>6, <1>7, SumsSame
  <2>4. QED  BY <2>1, <2>2, <2>3
<1>10. F[B \cup C] = F[B] + F[C] /\ F[(B \cup C) \cup P] = F[B \cup C] + F[P]
  BY <1>1, <1>2, <1>3, <1>7, SumsJoin
<1>11. F[B] \in Int /\ F[C] \in Int /\ F[P] \in Int
  BY <1>1, <1>2, <1>3, <1>7, SumsInt
<1>12. F[D] = F[(B \cup C) \cup P]
  BY <1>7, Zenon
<1>13. Sale!Amount(meta) = F[D] /\ Sale!Amount(meta) \in Int
  BY <1>8, <1>9, <1>10, <1>11, <1>12
<1>14. QED  BY <1>3, <1>13 DEF D

\* What is copied of an item.
LEMMA MetaOfIs ==
  ASSUME SaleInv, NEW i \in Sale!Items, NEW months \in Sale!Months,
         NEW coupon \in Sale!Coupon \cup {None}
  PROVE  Sale!MetaOf(i, months, coupon) \in Sale!Meta
<1>1. price[i] \in Int /\ 100 * price[i] \in Int
  BY DEF SaleInv, Sale!TypeOK
<1>2. 0 \in Sale!Months
  BY SoldThings DEF Sale!Months
<1>3. ASSUME coupon # None PROVE Sale!CalcCouponPrice(price[i], coupon) \in Int
  <2>1. coupon.discount \in Int
    BY <1>3, SoldThings DEF Sale!Coupon
  <2>2. \A a, b \in Int : a * b \in Int /\ 100 * (a - b) \in Int
    OBVIOUS
  <2>3. QED  BY <1>1, <2>1, <2>2 DEF Sale!CalcCouponPrice
<1> DEFINE d == IF coupon # None /\ i \in coupon.covers
                  THEN Sale!CalcCouponPrice(price[i], coupon) ELSE 0
           n == IF i \in monthly THEN months ELSE 0
<1>4. d \in Int /\ n \in Sale!Months
  BY <1>2, <1>3
<1>5. Sale!MetaOf(i, months, coupon) = [list |-> 100 * price[i], discounted |-> d, months |-> n]
  BY DEF Sale!MetaOf
<1> HIDE DEF d, n
<1>6. QED  BY <1>1, <1>4, <1>5 DEF Sale!Meta

\* At first nothing is ordered.
LEMMA InitSale == PlatformInit => SaleInv
<1> SUFFICES ASSUME PlatformInit PROVE SaleInv
  OBVIOUS
<1>1. Sale!Init
  BY DEF PlatformInit
<1>2. DOMAIN statements = {}
  BY <1>1 DEF Sale!Init
<1>3. Sale!TypeOK
  BY <1>1, <1>2, SoldThings DEF Sale!Init, Sale!TypeOK, Sale!Price
<1>4. QED  BY <1>1, <1>3 DEF Sale!Init, SaleInv, Sale!Executed

\* An order is placed: its amount is computed from what is copied.
LEMMA OrderPlaced ==
  ASSUME SaleInv, NEW cart \in Sale!Carts, NEW coupon \in Sale!Coupon \cup {None},
         Sale!PlaceOrder(cart, coupon)
  PROVE  SaleInv'
<1> DEFINE meta == [i \in DOMAIN cart \ empty |-> Sale!MetaOf(i, cart[i], coupon)]
           row == [meta |-> meta, coupon |-> coupon, amount |-> Sale!Amount(meta),
                   status |-> "Pending"]
<1>1. /\ order = None /\ order' = row /\ linked' = SoldCourses \cap DOMAIN meta
      /\ UNCHANGED <<price, monthly, empty, statements>>
  BY DEF Sale!PlaceOrder
<1>2. DOMAIN cart \subseteq Sale!Items /\ \A i \in DOMAIN cart : cart[i] \in Sale!Months
  BY DEF Sale!Carts
<1>3. meta \in [DOMAIN cart \ empty -> Sale!Meta]
  <2>1. \A i \in DOMAIN cart \ empty : Sale!MetaOf(i, cart[i], coupon) \in Sale!Meta
    BY <1>2, MetaOfIs
  <2>2. QED  BY <2>1
<1>4. DOMAIN meta = DOMAIN cart \ empty
  OBVIOUS
<1> HIDE DEF meta
<1>5. DOMAIN meta \subseteq Sale!Items \ empty /\ \A i \in DOMAIN meta : meta[i] \in Sale!Meta
  BY <1>2, <1>3, <1>4
<1>6. Sale!Amount(meta) \in Int
  <2> DEFINE v == [i \in DOMAIN meta |-> Sale!Charge(meta[i])]
  <2>1. \A i \in DOMAIN meta : v[i] = Sale!Charge(meta[i])
    OBVIOUS
  <2> HIDE DEF v
  <2>2. QED  BY <1>5, <2>1, AmountIs
<1>7. meta \in UNION {[is -> Sale!Meta] : is \in SUBSET Sale!Items}
  BY <1>3, <1>4, <1>5
<1>8. row \in OrderRow
  BY <1>6, <1>7 DEF OrderRow
<1>9. /\ row.meta = meta /\ row.coupon = coupon /\ row.amount = Sale!Amount(meta)
      /\ row.status = "Pending" /\ row # None
  BY <1>8, SoldThings DEF OrderRow
<1>10. DOMAIN statements = {}
  BY <1>1 DEF SaleInv, Sale!TypeOK
<1> HIDE DEF row
<1>11. Sale!TypeOK'
  BY <1>1, <1>5, <1>6, <1>9, <1>10 DEF SaleInv, Sale!TypeOK
<1>12. QED  BY <1>1, <1>8, <1>9, <1>10, <1>11 DEF SaleInv, Sale!Executed

\* It is executed: what is stated is what was copied.
LEMMA OrderExecuted ==
  ASSUME SaleInv, Sale!ExecuteOrder
  PROVE  SaleInv'
<1> DEFINE row == [order EXCEPT !.status = "Completed"]
<1>1. /\ order # None /\ order' = row
      /\ statements' = [i \in DOMAIN order.meta \ (SoldCourses \ linked) |-> Sale!Stated(i)]
      /\ UNCHANGED <<price, monthly, empty, linked>>
  BY DEF Sale!ExecuteOrder, Sale!StatedItems
<1>2. order \in OrderRow /\ order.amount = Sale!Amount(order.meta)
  BY <1>1 DEF SaleInv
<1>3. /\ row \in OrderRow /\ row.meta = order.meta /\ row.coupon = order.coupon
      /\ row.amount = order.amount /\ row.status = "Completed"
  BY <1>2 DEF OrderRow
<1>4. row # None
  BY <1>3, SoldThings DEF OrderRow
<1> HIDE DEF row
<1>5. DOMAIN statements' \subseteq DOMAIN order.meta
  BY <1>1
<1>6. \A i \in DOMAIN statements' : statements'[i] = Sale!UnitPrice(order.meta[i])
  BY <1>1 DEF Sale!Stated
<1>7. Sale!TypeOK'
  BY <1>1, <1>2, <1>3, <1>4, <1>5 DEF SaleInv, Sale!TypeOK
<1>8. QED  BY <1>1, <1>2, <1>3, <1>4, <1>6, <1>7 DEF SaleInv, Sale!Executed

\* The invariant is inductive.
LEMMA NextSale ==
  ASSUME SaleInv, [PlatformNext]_platform
  PROVE  SaleInv'
<1>1. CASE UNCHANGED pricingVars
  <2>1. UNCHANGED <<price, monthly, empty, order, linked, statements>>
    BY <1>1 DEF pricingVars
  <2>2. SaleInv
    OBVIOUS
  <2>3. QED  BY <2>1, <2>2 DEF SaleInv, Sale!TypeOK, Sale!Executed
<1>2. ASSUME NEW i \in Sale!Items, NEW p \in Prices, Sale!ChangePrice(i, p) PROVE SaleInv'
  <2>1. price' \in [Sale!Items -> Int] /\ UNCHANGED <<monthly, empty, order, linked, statements>>
    BY <1>2, SoldThings DEF Sale!ChangePrice, SaleInv, Sale!TypeOK
  <2>2. SaleInv
    OBVIOUS
  <2>3. QED  BY <2>1, <2>2 DEF SaleInv, Sale!TypeOK, Sale!Executed
<1>3. ASSUME NEW c \in linked, Sale!Relink(c) PROVE SaleInv'
  <2>1. linked' \subseteq SoldCourses /\ UNCHANGED <<price, monthly, empty, order, statements>>
    BY <1>3 DEF Sale!Relink, SaleInv, Sale!TypeOK
  <2>2. SaleInv
    OBVIOUS
  <2>3. QED  BY <2>1, <2>2 DEF SaleInv, Sale!TypeOK, Sale!Executed
<1>4. CASE Sale!Next
  BY <1>2, <1>3, <1>4, OrderPlaced, OrderExecuted DEF Sale!Next
<1>5. QED  BY <1>1, <1>4, SaleSteps

\* The invariant of the sale holds in every behaviour.
LEMMA SaleInvariant == PlatformSpec => []SaleInv
<1>1. SaleInv /\ [PlatformNext]_platform => SaleInv'
  BY NextSale
<1>2. QED  BY <1>1, InitSale, PTL DEF PlatformSpec

\* The meta of an order has its items, and what each is charged.
LEMMA OrderMeta ==
  ASSUME SaleInv, order # None
  PROVE  /\ DOMAIN order.meta \subseteq Sale!Items
         /\ \A i \in DOMAIN order.meta : order.meta[i] \in Sale!Meta
         /\ IsFiniteSet(DOMAIN order.meta)
<1>1. DOMAIN order.meta \in SUBSET Sale!Items
  BY DEF SaleInv, Sale!TypeOK
<1>2. IsFiniteSet(DOMAIN order.meta)
  BY <1>1, SoldThings, FS_Subset
<1>3. QED  BY <1>1, <1>2 DEF SaleInv, Sale!TypeOK

\* What an order was charged is what its statements add up to, for any items and prices,
\* unless it was for several months or a later order took a course of it.
THEOREM StatementsDoAddUp == PlatformSpec => []StatementsAddUp
<1>1. ASSUME SaleInv PROVE StatementsAddUp
  <2>1. SUFFICES ASSUME Sale!Executed, \A i \in DOMAIN order.meta : order.meta[i].months \in {0, 1},
                        DOMAIN statements = DOMAIN order.meta
                 PROVE  order.amount = Sale!MapThenSumSet(LAMBDA i : statements[i], DOMAIN statements)
    BY DEF StatementsAddUp, Sale!StatementsAddUp
  <2> DEFINE D == DOMAIN order.meta
             v == [i \in D |-> Sale!Charge(order.meta[i])]
  <2>2. /\ order # None /\ D \subseteq Sale!Items
        /\ \A i \in D : order.meta[i] \in Sale!Meta
        /\ IsFiniteSet(D)
    BY <1>1, <2>1, OrderMeta DEF Sale!Executed
  <2>3. \A i \in D : v[i] = Sale!Charge(order.meta[i])
    OBVIOUS
  <2>4. \A i \in D : v[i] = statements[i]
    BY <1>1, <2>1, <2>2, ChargeInt DEF SaleInv
  <2> HIDE DEF v
  <2>5. PICK F : Sums(F, v, D) /\ Sale!Amount(order.meta) = F[D]
    BY <2>2, <2>3, AmountIs
  <2>6. PICK G : Sums(G, statements, D)
                 /\ Sale!MapThenSumSet(LAMBDA i : statements[i], D) = G[D]
    <3> HIDE DEF D
    <3>1. \E F2 : Sums(F2, statements, D)
      BY <2>2, SumsExist
    <3>2. Sale!MapThenSumSet(LAMBDA i : statements[i], D)
            = (CHOOSE F2 : Sums(F2, statements, D))[D]
      BY DEF Sale!MapThenSumSet, Sale!MapThenFoldSet, Sums, Taken
    <3>3. QED  BY <3>1, <3>2
  <2>7. F[D] = G[D]
    <3> HIDE DEF D
    <3>1. QED  BY <2>2, <2>4, <2>5, <2>6, SumsSame
  <2>8. order.amount = Sale!Amount(order.meta)
    BY <1>1, <2>2 DEF SaleInv
  <2>9. Sale!MapThenSumSet(LAMBDA i : statements[i], DOMAIN statements)
          = Sale!MapThenSumSet(LAMBDA i : statements[i], D)
    BY <2>1, Zenon
  <2>10. QED  BY <2>5, <2>6, <2>7, <2>8, <2>9
<1>2. SaleInv => StatementsAddUp
  BY <1>1
<1>3. QED  BY <1>2, SaleInvariant, PTL

\* An order that comes to nothing is of what was listed for nothing, unless something of it
\* was charged less than nothing.
THEOREM FreeIsForNothing == PlatformSpec => []FreeIsFree
<1>1. ASSUME SaleInv PROVE FreeIsFree
  <2>1. SUFFICES ASSUME Sale!Executed, order.amount = 0,
                        \A i \in DOMAIN order.meta : ~ (Sale!Charge(order.meta[i]) < 0)
                 PROVE  \A i \in DOMAIN order.meta : order.meta[i].list = 0
    BY DEF FreeIsFree, Sale!FreeIsFree
  <2> DEFINE D == DOMAIN order.meta
             v == [i \in D |-> Sale!Charge(order.meta[i])]
  <2>2. /\ order # None /\ D \subseteq Sale!Items
        /\ \A i \in D : order.meta[i] \in Sale!Meta
        /\ IsFiniteSet(D)
    BY <1>1, <2>1, OrderMeta DEF Sale!Executed
  <2>3. \A i \in D : v[i] = Sale!Charge(order.meta[i])
    OBVIOUS
  <2>4. \A i \in D : v[i] \in Int /\ v[i] >= 0
    BY <2>1, <2>2, ChargeInt
  <2> HIDE DEF v
  <2>5. PICK F : Sums(F, v, D) /\ Sale!Amount(order.meta) = F[D]
    BY <2>2, <2>3, AmountIs
  <2>6. F[D] = 0
    BY <1>1, <2>1, <2>2, <2>5 DEF SaleInv
  <2>7. \A i \in D : v[i] = 0
    <3> HIDE DEF D
    <3>1. QED  BY <2>2, <2>4, <2>5, <2>6, SumsZero
  <2>8. QED  BY <2>2, <2>3, <2>7, ChargeInt
<1>2. SaleInv => FreeIsFree
  BY <1>1
<1>3. QED  BY <1>2, SaleInvariant, PTL

=============================================================================
