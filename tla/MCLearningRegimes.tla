--------------------------- MODULE MCLearningRegimes ---------------------------
(* One exploration in two regimes: two handlers that overlap and marks at   *)
(* any time, for one student; and handlers and marks one at a time, for two.*)
EXTENDS Learning, TLC

VARIABLE regime

Symmetry == Permutations(Students) \cup Permutations(Requests)

Busy == {r \in Requests : req[r].pc # "idle"}

\* The students who have enrolled, watched, or are in a handler.
InUse ==
  {s \in Students : \/ enrolled[s] # {}
                    \/ \E l \in Lectures : progress[s][l] # "none"
                    \/ \E r \in Busy : req[r].pc # "replying" /\ req[r].student = s}

TwoOverlap == regime = "overlapping" /\ Cardinality(InUse) <= 1

\* No mark comes between the read and the write of a reply either.
OneAtATime ==
  /\ regime = "sequential"
  /\ Cardinality(Busy') <= 1
  /\ active' # active => req' # req \/ Busy = {}

RegimeInit == Init /\ regime \in {"overlapping", "sequential"}
RegimeNext == Next /\ UNCHANGED regime /\ (TwoOverlap' \/ OneAtATime)
RegimeSpec == RegimeInit /\ [][RegimeNext]_<<vars, regime>>

\* One handler at a time: the completion of a lecture is never lost, because
\* trackLectureProgress reads the old progress before it writes the new one.
CompletedStaysInSequence ==
  [][regime = "sequential" =>
       \A s \in Students, l \in Lectures :
         progress[s][l] = "completed" => progress'[s][l] = "completed"]_<<vars, regime>>

\* One handler at a time: a reply never turns a passed assignment into a submitted
\* one, because createAssignmentReply refuses a passed assignment.
PassedStaysInSequence ==
  [][regime = "sequential" =>
       \A a \in Unlocked :
         active[a].status = "Passed" => active'[a].status # "Submited"]_<<vars, regime>>
=============================================================================
