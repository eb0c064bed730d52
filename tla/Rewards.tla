------------------------------- MODULE Rewards -------------------------------
(***************************************************************************)
(* The rules of the reward points, kept in etcd: every start of the        *)
(* program puts the defaults that are missing, admins change them, and     *)
(* points are given by them.                                               *)
(***************************************************************************)
EXTENDS Naturals

CONSTANTS
  Users, Rules, Requests, None,
  MaxPoints, MaxEarned, MaxRate      \* bounds of the model

VARIABLES
  rules,      \* the rules in etcd, by key
  asked,      \* what admins asked of a rule, last, for each of its fields
  earned,     \* the sum of a user's RewardPoints rows of type Earn; no others are created
  rate,       \* the exchange rate in etcd
  req

tables == <<rules, asked, earned, rate>>
vars == <<tables, req>>

Idle == [pc |-> "idle"]

Rule == [active : BOOLEAN, points : 0 .. MaxPoints]

\* defaultConditions
Default == [active |-> FALSE, points |-> 0]

Request ==
  {Idle}
  \cup [pc : {"defaulting"}, rule : Rules]
  \cup [pc : {"updating"}, rule : Rules, active : BOOLEAN \cup {None},
        points : (0 .. MaxPoints) \cup {None}, old : Rule]
  \cup [pc : {"giving"}, user : Users, points : 1 .. MaxPoints]

TypeOK ==
  /\ rules \in [Rules -> Rule \cup {None}]
  /\ asked \in [Rules -> Rule]
  /\ earned \in [Users -> 0 .. MaxEarned]
  /\ rate \in 1 .. MaxRate \cup {None}
  /\ req \in [Requests -> Request]

Init ==
  /\ rules = [k \in Rules |-> None]
  /\ asked = [k \in Rules |-> Default]
  /\ earned = [u \in Users |-> 0]
  /\ rate = None
  /\ req = [r \in Requests |-> Idle]

-----------------------------------------------------------------------------
\* Mutant: every start puts the defaults.
ExistsNever(k) == FALSE

Exists(k) == rules[k] # None

\* listRewardRulesAdmin
ListedRules == {k \in Rules : rules[k] # None}

\* available of listRewardPoints: nothing is ever spent.
Available(u) == earned[u]

\* getExchangeRate
ExchangeRate == IF rate = None THEN 1 ELSE rate

-----------------------------------------------------------------------------
Proceed(r, step) == req' = [req EXCEPT ![r] = step]

Start(r, step) == req[r].pc = "idle" /\ Proceed(r, step)

\* setDefaultOptions, of every process that starts, asks for each of the keys,
CheckDefault(r, k) ==
  /\ ~ Exists(k)
  /\ Start(r, [pc |-> "defaulting", rule |-> k])
  /\ UNCHANGED tables

\* and puts what it did not find.
PutDefault(r) ==
  /\ req[r].pc = "defaulting"
  /\ rules' = [rules EXCEPT ![req[r].rule] = Default]
  /\ Proceed(r, Idle)
  /\ UNCHANGED <<asked, earned, rate>>

\* updateRewardRuleAdmin reads the rule: a field that is not given stays as it was,
FindRule(r, k, active, points) ==
  /\ k \in ListedRules
  /\ Start(r, [pc |-> "updating", rule |-> k, active |-> active, points |-> points,
               old |-> rules[k]])
  /\ UNCHANGED tables

\* Mutant: what is not given is not there.
MergedGiven(active, points, old) == [active |-> active, points |-> points]

Merged(active, points, old) ==
  [active |-> IF active # None THEN active ELSE old.active,
   points |-> IF points # None THEN points ELSE old.points]

\* and puts all of it.
PutRule(r) ==
  LET q == req[r] IN
  /\ q.pc = "updating"
  /\ rules' = [rules EXCEPT ![q.rule] = Merged(q.active, q.points, q.old)]
  /\ asked' = [asked EXCEPT ![q.rule] = Merged(q.active, q.points, @)]
  /\ Proceed(r, Idle)
  /\ UNCHANGED <<earned, rate>>

\* giveRewardPoints reads the rule; one that is not active, or gives nothing, ends it;
GetCondition(r, u, k) ==
  /\ k \in ListedRules /\ rules[k].active /\ rules[k].points > 0
  /\ Start(r, [pc |-> "giving", user |-> u, points |-> rules[k].points])
  /\ UNCHANGED tables

\* and adds the row.
CreateRewardPoints(r) ==
  LET q == req[r] IN
  /\ q.pc = "giving" /\ earned[q.user] + q.points <= MaxEarned
  /\ earned' = [earned EXCEPT ![q.user] = @ + q.points]
  /\ Proceed(r, Idle)
  /\ UNCHANGED <<rules, asked, rate>>

SetExchangeRate(n) ==
  /\ rate' = n
  /\ UNCHANGED <<rules, asked, earned, req>>

\* A failing query, or the end of the process.
Fail(r) ==
  /\ req[r].pc # "idle"
  /\ Proceed(r, Idle)
  /\ UNCHANGED tables

Next ==
  \/ \E n \in 1 .. MaxRate : SetExchangeRate(n)
  \/ \E r \in Requests :
       \/ \E k \in Rules :
            \/ CheckDefault(r, k)
            \/ \E active \in BOOLEAN \cup {None}, points \in (0 .. MaxPoints) \cup {None} :
                 FindRule(r, k, active, points)
            \/ \E u \in Users : GetCondition(r, u, k)
       \/ PutDefault(r) \/ PutRule(r) \/ CreateRewardPoints(r) \/ Fail(r)

\* One process starts at a time, and one admin changes the rules at a time.
OneOfEach ==
  \A r, s \in Requests :
    req[r].pc = req[s].pc /\ req[r].pc \in {"defaulting", "updating"} => r = s

-----------------------------------------------------------------------------
\* What an admin asked of a rule holds until an admin asks otherwise, through the starts of
\* the program, while OneOfEach does.
RulesKept == \A k \in ListedRules : rules[k] = asked[k]

Spec == Init /\ [][Next /\ OneOfEach']_vars
=============================================================================
