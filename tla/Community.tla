------------------------------ MODULE Community ------------------------------
(***************************************************************************)
(* The forum's threads and the blogs, with their comments and feedback.    *)
(* A handler finds the thread or the blog, and writes to it an await later.*)
(***************************************************************************)
EXTENDS Naturals, FiniteSets

CONSTANTS
  Users, Requests, None,
  MaxPost, MaxComment, MaxFeedback      \* bounds of the model

PostId == 1 .. MaxPost
FeedbackId == 1 .. MaxFeedback

VARIABLES
  posts,       \* the Thread and Blog tables; late counts what was written once deleted
  comments,    \* the ThreadComment and BlogComment rows of a post, by user
  feedbacks,   \* the ThreadFeedback and BlogFeedback tables, by id
  req

tables == <<posts, comments, feedbacks>>
vars == <<tables, req>>

Idle == [pc |-> "idle"]

\* Only threads have an owner who may change them; blogs are the admin's.
Thread == [owner : Users, deleted : BOOLEAN, late : 0 .. MaxComment]
Blog == [owner : {None}, deleted : BOOLEAN, late : 0 .. MaxComment]

Request ==
  {Idle}
  \cup [pc : {"updating", "deleting"}, post : PostId]
  \cup [pc : {"commenting", "asking", "reacting"}, post : PostId, user : Users]
  \cup [pc : {"rewarding"}, user : Users]
  \cup [pc : {"retracting"}, feedback : FeedbackId]

TypeOK ==
  /\ posts \in [PostId -> Thread \cup Blog \cup {None}]
  /\ comments \in [PostId -> [Users -> 0 .. MaxComment]]
  /\ feedbacks \in [FeedbackId -> [post : PostId, user : Users] \cup {None}]
  /\ req \in [Requests -> Request]

Init ==
  /\ posts = [p \in PostId |-> None]
  /\ comments = [p \in PostId |-> [u \in Users |-> 0]]
  /\ feedbacks = [f \in FeedbackId |-> None]
  /\ req = [r \in Requests |-> Idle]

-----------------------------------------------------------------------------
(* What is found and shown.                                                 *)

Threads == {p \in PostId : posts[p] # None /\ posts[p].owner # None}
Blogs == {p \in PostId : posts[p] # None /\ posts[p].owner = None}

\* Mutant: a deleted thread is found.
FoundThreadAny(p) == p \in Threads

\* getThreadById, getBlogById (the admin's too), and the finds by id of threads.
FoundThread(p) == p \in Threads /\ ~ posts[p].deleted
FoundBlog(p) == p \in Blogs /\ ~ posts[p].deleted

\* listThreads, with onlyOwned for a user's own.
ListedThreads == {p \in Threads : FoundThread(p)}
ListedOwned(u) == {p \in ListedThreads : posts[p].owner = u}

\* listBlogs; listBlogsAdmin shows no more.
ListedBlogs == {p \in Blogs : FoundBlog(p)}

\* getThreadFeedbackByUser, getBlogFeedbackByUser: any row of the user.
ThreadFeedback(p, u) == {f \in FeedbackId : feedbacks[f] = [post |-> p, user |-> u]}

Reacted(p, u) == ThreadFeedback(p, u) # {}

-----------------------------------------------------------------------------
Proceed(r, step) == req' = [req EXCEPT ![r] = step]

Start(r, step) == req[r].pc = "idle" /\ Proceed(r, step)

NextPost(p) == posts[p] = None /\ \A k \in PostId : k < p => posts[k] # None

\* What is written to a post, found an await ago, that may be deleted by now.
Touched(p) == [posts EXCEPT ![p].late = IF posts[p].deleted THEN @ + 1 ELSE @]

CanTouch(p) == posts[p].deleted => posts[p].late < MaxComment

\* The points are given after the thread is created.
CreateThread(r, u, p) ==
  /\ NextPost(p)
  /\ posts' = [posts EXCEPT ![p] = [owner |-> u, deleted |-> FALSE, late |-> 0]]
  /\ Start(r, [pc |-> "rewarding", user |-> u])
  /\ UNCHANGED <<comments, feedbacks>>

\* updateThread and deleteThread of the repository: the owner's thread is found,
FindOwned(r, u, p, step) ==
  /\ FoundThread(p) /\ posts[p].owner = u
  /\ Start(r, [pc |-> step, post |-> p])
  /\ UNCHANGED tables

\* and updated by its id,
UpdateThread(r) ==
  /\ req[r].pc = "updating" /\ CanTouch(req[r].post)
  /\ posts' = Touched(req[r].post)
  /\ Proceed(r, Idle)
  /\ UNCHANGED <<comments, feedbacks>>

\* or deleted softly.
DeleteThread(r) ==
  /\ req[r].pc = "deleting"
  /\ posts' = [posts EXCEPT ![req[r].post].deleted = TRUE]
  /\ Proceed(r, Idle)
  /\ UNCHANGED <<comments, feedbacks>>

\* createBlogAdmin, after the image and the category were found.
CreateBlog(p) ==
  /\ NextPost(p)
  /\ posts' = [posts EXCEPT ![p] = [owner |-> None, deleted |-> FALSE, late |-> 0]]
  /\ UNCHANGED <<comments, feedbacks, req>>

\* deleteBlogByIdAdmin asks nothing, and may be repeated.
DeleteBlog(p) ==
  /\ p \in Blogs
  /\ posts' = [posts EXCEPT ![p].deleted = TRUE]
  /\ UNCHANGED <<comments, feedbacks, req>>

\* createThreadComment and createBlogComment find the post,
FindForComment(r, u, p) ==
  /\ FoundThread(p) \/ FoundBlog(p)
  /\ Start(r, [pc |-> "commenting", post |-> p, user |-> u])
  /\ UNCHANGED tables

\* Only comments on threads are rewarded.
AfterComment(r, q) ==
  Proceed(r, IF q.post \in Threads THEN [pc |-> "rewarding", user |-> q.user] ELSE Idle)

\* and comment on it.
InsertComment(r) ==
  LET q == req[r] IN
  /\ q.pc = "commenting" /\ CanTouch(q.post)
  /\ comments[q.post][q.user] < MaxComment
  /\ comments' = [comments EXCEPT ![q.post][q.user] = @ + 1]
  /\ posts' = Touched(q.post)
  /\ AfterComment(r, q)
  /\ UNCHANGED feedbacks

\* giveRewardPoints, by the rules.
GiveReward(r) ==
  /\ req[r].pc = "rewarding"
  /\ Proceed(r, Idle)
  /\ UNCHANGED tables

-----------------------------------------------------------------------------
(* Feedback, one of each user for a post.                                   *)

\* createThreadFeedback and createBlogFeedback find the post,
FindForFeedback(r, u, p) ==
  /\ FoundThread(p) \/ FoundBlog(p)
  /\ Start(r, [pc |-> "asking", post |-> p, user |-> u])
  /\ UNCHANGED tables

\* then no feedback of the user ('Feedback already exist'),
CheckFeedback(r) ==
  /\ req[r].pc = "asking"
  /\ ~ Reacted(req[r].post, req[r].user)
  /\ Proceed(r, [req[r] EXCEPT !.pc = "reacting"])
  /\ UNCHANGED tables

\* An id is taken again only when nothing refers to it.
FreshFeedback(f) ==
  /\ feedbacks[f] = None
  /\ \A r \in Requests : req[r].pc = "retracting" => req[r].feedback # f

\* and create it.
CreateFeedback(r, f) ==
  LET q == req[r] IN
  /\ q.pc = "reacting" /\ CanTouch(q.post)
  /\ FreshFeedback(f) /\ \A k \in FeedbackId : FreshFeedback(k) => f <= k
  /\ feedbacks' = [feedbacks EXCEPT ![f] = [post |-> q.post, user |-> q.user]]
  /\ posts' = Touched(q.post)
  /\ Proceed(r, Idle)
  /\ UNCHANGED comments

\* The post is not asked for: its feedback may be taken back when it is deleted.
FindFeedback(r, u, p, f) ==
  /\ f \in ThreadFeedback(p, u)
  /\ Start(r, [pc |-> "retracting", feedback |-> f])
  /\ UNCHANGED tables

\* A row that is gone fails.
DeleteFeedback(r) ==
  /\ req[r].pc = "retracting" /\ feedbacks[req[r].feedback] # None
  /\ feedbacks' = [feedbacks EXCEPT ![req[r].feedback] = None]
  /\ Proceed(r, Idle)
  /\ UNCHANGED <<posts, comments>>

\* A refusal, a failing query, or the end of the process: what was written stays.
Fail(r) ==
  /\ req[r].pc # "idle"
  /\ Proceed(r, Idle)
  /\ UNCHANGED tables

Next ==
  \/ \E r \in Requests, u \in Users, p \in PostId :
       \/ CreateThread(r, u, p)
       \/ \E step \in {"updating", "deleting"} : FindOwned(r, u, p, step)
       \/ FindForComment(r, u, p) \/ FindForFeedback(r, u, p)
       \/ \E f \in FeedbackId : FindFeedback(r, u, p, f)
  \/ \E r \in Requests :
       \/ UpdateThread(r) \/ DeleteThread(r) \/ InsertComment(r) \/ GiveReward(r)
       \/ CheckFeedback(r) \/ DeleteFeedback(r) \/ Fail(r)
       \/ \E f \in FeedbackId : CreateFeedback(r, f)
  \/ \E p \in PostId : CreateBlog(p) \/ DeleteBlog(p)

-----------------------------------------------------------------------------
\* With `overlap` handlers at a time a user never has more than `overlap` feedbacks on
\* one thread or blog, however feedback is taken back and given again.
FeedbackWithin(overlap) ==
  \A p \in PostId, u \in Users : Cardinality(ThreadFeedback(p, u)) <= overlap

\* A post gets no more writes after its deletion than handlers had found it before:
\* the handler that deletes a thread is one of the `overlap`, the admin's is not.
LateWithin(overlap) ==
  \A p \in PostId : posts[p] # None =>
    posts[p].late <= IF p \in Threads THEN overlap - 1 ELSE overlap
=============================================================================
