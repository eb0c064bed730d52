------------------------------- MODULE Accounts -------------------------------
(***************************************************************************)
(* Users: registration with a username or from Facebook, and what admins   *)
(* make of a user.  Usernames are unique in the database, the ids that     *)
(* Facebook gives are not: they are copied to the username.                *)
(***************************************************************************)
EXTENDS Naturals

CONSTANTS
  Names,          \* usernames, the ids of Facebook among them
  FacebookIds, Organizations, Requests, None,
  MaxUser         \* bound: users

UserId == 1 .. MaxUser
Role == {"Student", "Instructor", "Organization"}
User == [username : Names, facebook : FacebookIds \cup {None}, role : Role,
         organization : Organizations \cup {None}, password : BOOLEAN, points : 0 .. 1]

VARIABLES
  users,          \* the User table, by id
  req

vars == <<users, req>>

Idle == [pc |-> "idle"]

Request ==
  {Idle} \cup [pc : {"registering"}, name : Names] \cup [pc : {"rewarding"}, user : UserId]
  \cup [pc : {"absent", "connecting"}, facebook : FacebookIds]

TypeOK ==
  /\ users \in [UserId -> User \cup {None}]
  /\ req \in [Requests -> Request]

Init ==
  /\ users = [u \in UserId |-> None]
  /\ req = [r \in Requests |-> Idle]

-----------------------------------------------------------------------------
Proceed(r, step) == req' = [req EXCEPT ![r] = step]
Start(r, step) == req[r].pc = "idle" /\ Proceed(r, step)

Existing == {u \in UserId : users[u] # None}

Named(n) == {u \in Existing : users[u].username = n}

OfFacebook(f) == {u \in Existing : users[u].facebook = f}

\* listUsersAdmin filters by any of these; no user is ever deleted.
ListedAdmin(role, o) ==
  {u \in Existing : role \in {None, users[u].role} /\ o \in {None, users[u].organization}}

\* findInstructor lists both kinds of instructors.  (Its query names a column that the
\* table has not, and fails.)
FoundInstructors == {u \in Existing : users[u].role \in {"Instructor", "Organization"}}

\* JwtStrategy: only who is an organization keeps the organization in a request.
ActsFor(u) == IF users[u].role = "Organization" THEN users[u].organization ELSE None

\* login refuses whose password does not match; who came from Facebook has none.
MayLogin(u) == users[u].password

-----------------------------------------------------------------------------
Student(n, f) == [username |-> n, facebook |-> f, role |-> "Student", organization |-> None,
                  password |-> f = None, points |-> 0]

\* The id that the table hands out next, unless the unique username refuses the row.
Insert(u, row) ==
  /\ users[u] = None /\ \A v \in UserId : v < u => users[v] # None
  /\ Named(row.username) = {}
  /\ users' = [users EXCEPT ![u] = row]

\* registerStudent: createStudent finds no one of the name.
RegisterStudent(r, n) ==
  /\ Named(n) = {}
  /\ Start(r, [pc |-> "registering", name |-> n])
  /\ UNCHANGED users

CreateStudent(r, u) ==
  /\ req[r].pc = "registering"
  /\ Insert(u, Student(req[r].name, None))
  /\ Proceed(r, [pc |-> "rewarding", user |-> u])

\* giveRewardPoints of the registration, after the user is there.
GiveReward(r) ==
  /\ req[r].pc = "rewarding"
  /\ users' = [users EXCEPT ![req[r].user].points = 1]
  /\ Proceed(r, Idle)

\* The callback of Facebook logs in who is found, else creates a student,
FindFacebook(r, f) ==
  /\ OfFacebook(f) = {}
  /\ Start(r, [pc |-> "absent", facebook |-> f])
  /\ UNCHANGED users

\* looks again,
CheckFacebook(r) ==
  /\ req[r].pc = "absent" /\ OfFacebook(req[r].facebook) = {}
  /\ Proceed(r, [req[r] EXCEPT !.pc = "connecting"])
  /\ UNCHANGED users

\* Mutant: any free name will do.
FacebookNameFree(f) ==
  IF \E n \in Names : Named(n) = {} THEN CHOOSE n \in Names : Named(n) = {} ELSE f

\* The id is the name,
FacebookName(f) == f

\* and no points are given.
CreateStudentFromFacebook(r, u) ==
  LET f == req[r].facebook IN
  /\ req[r].pc = "connecting"
  /\ Insert(u, Student(FacebookName(f), f))
  /\ Proceed(r, Idle)

\* A check or a query fails; what was written stays.
Fail(r) ==
  /\ req[r].pc # "idle"
  /\ Proceed(r, Idle)
  /\ UNCHANGED users

-----------------------------------------------------------------------------
\* updateUser of the admin.  The role decides only whether an organization is connected;
\* it is disconnected when the request says null, and stays otherwise, whatever the role.
UpdatedOrganization(u, role, o) ==
  IF role = "Organization" /\ o \in Organizations THEN o
  ELSE IF o = "null" THEN None ELSE users[u].organization

UpdateUserAdmin(u, role, o) ==
  /\ u \in Existing
  /\ users' = [users EXCEPT ![u].role = IF role = None THEN @ ELSE role,
                            ![u].organization = UpdatedOrganization(u, role, o)]
  /\ UNCHANGED req

ResetPassword(u) ==
  /\ u \in Existing
  /\ users' = [users EXCEPT ![u].password = TRUE]
  /\ UNCHANGED req

Next ==
  \/ \E r \in Requests :
       \/ \E n \in Names : RegisterStudent(r, n)
       \/ \E f \in FacebookIds : FindFacebook(r, f)
       \/ \E u \in UserId : CreateStudent(r, u) \/ CreateStudentFromFacebook(r, u)
       \/ GiveReward(r) \/ CheckFacebook(r) \/ Fail(r)
  \/ \E u \in UserId :
       \/ \E role \in Role \cup {None}, o \in Organizations \cup {None, "null"} :
            UpdateUserAdmin(u, role, o)
       \/ ResetPassword(u)

Spec == Init /\ [][Next]_vars

-----------------------------------------------------------------------------
\* Whoever signs in with Facebook is one user, although the id has no unique key and two
\* callbacks may both find nobody: who is found by it is always the same.
OneAccountEach ==
  /\ \A f \in FacebookIds : \A u, v \in OfFacebook(f) : u = v
  /\ \A n \in Names : \A u, v \in Named(n) : u = v
=============================================================================
