# A verification project for u2e-backend

`u2e-backend` is a NestJS back end for an e-learning platform: students order
courses, bundles and store products, pay through the Yoco gateway, follow
lectures, hand in assignments and receive certificates; instructors publish
courses, arrange lectures and draw payouts from their sales.  State lives in
PostgreSQL (through Prisma), Redis (device tokens) and etcd (reward rules).  The
process is a single Node.js event loop, so handlers interleave at every `await`.

All paths below are relative to the repository (`src/` is its root here, so the
TypeScript sources are `src/src/...`).

## 1. Inventory

| Component | State it keeps | Operations that change state | What is hard |
|---|---|---|---|
| Orders (`order/`, `order.repository`) | `Order`, and the foreign keys `Course.orderId`, `Product.orderId` | `placeOrder`, `executeOrder`, `updateOrder` | check-then-act over awaits; a course row can be linked to one order only |
| Payments (`payment/`, `payment.repository`) | `Payment`, the Yoco checkout outside | `createCharge`, `approveOrder` (webhook) | at-least-once webhooks, several charges for one order, a crash between the charge and its row |
| Enrollments (`enrollment/`, `enrolled.repository`) | `Enrollment` with `expiry`, `status` | `createEnrollments`, `updateEnrollmentStatus` | no unique key, expiry against the clock |
| Statements (`statement/`) | `Statement`, append only | `createStatements` | are what payouts are computed from |
| Payouts (`payout/`, `admin/payout.service`) | `Payout`, `PayoutAccount` | `createPayout`, `createPayoutAccount`, admin `updatePayout` | five reads before one write; watermark `lastStatementId`; lock time |
| Reward points (`reward-points/`) | `RewardPoints`, rules in etcd | `giveRewardPoints`, `updateRewardRuleAdmin`, `setDefaultOptions` | written outside the caller's transaction |
| Pricing (`order.service`, `order.repository`) | none (pure) | `calcCouponPrice`, `calc*Meta`, the sums in `createOrder` | zero and falsy discounts, negative prices |
| Lectures and groups (`lecture/`) | `Lecture.index`, `LectureGroup.index`, progress | create / rearrange / delete groups and lectures, `trackLectureProgress` | index renumbering from a value read before the transaction |
| Certificates (`certificate/`) | `Certificate` | `requestCertificate` | check-then-create; "last lecture" by id |
| Assignments (`assignment/`) | `ActiveAssignment`, messages | `createActiveAssignment`, reply, mark | stale status read before a marking |
| Courses, bundles, associates, reviews | `Course`, `Bundle`, `Associate(Invitation)`, `Review` | create / update / publish / approve, bundle membership, invite / accept, review | courses of organizations have no instructor; accept writes two rows with no transaction |
| Store (`store/`, `admin/store.service`) | `Product`, `StoreOrder`, `Review` | admin product and order updates, review | review depends on an arbitrary order row |
| Support tickets | `Ticket`, `TicketComment` | create, comment, close | status read before the comment is written |
| Forum, blog | `Thread`, `Blog`, comments, feedback | create / delete, one feedback per user | one-per-user by check-then-create |
| Notifications | `Notificaiton`, token lists in Redis | `registerNotification`, `sendUserNotification` | list membership check, then push |
| Users, auth | `User`, JWTs | register, Facebook callback, admin update, login | strategy strips fields later code reads; the Facebook id has no unique key |
| Uploads | S3 objects, the keys that rows name | signatures, verification, deletion of failed videos | twelve kinds of files, each with three functions of its own; a deletion nobody waits for |

Read-only parts (dashboards, listings, statement analytics), the wiring of the
application and the parts that are empty in the source (organizations,
meetings, quizzes) are listed in `PROJECT.json` and not modelled.

### How the components interact

- `placeOrder` reads the catalogue, coupons and enrollments, inserts an `Order`
  whose `meta` records what was bought and *connects* the courses and products
  (`Course.orderId`, `Product.orderId`), and executes the order itself when it is free.
- `createCharge` asks Yoco for a checkout and records it as a `Payment`; Yoco
  later calls the webhook, possibly more than once, and `approveOrder` executes
  the order of that payment.  The webhook is not guarded and the check of Yoco's signature
  is commented out, so an event for any recorded checkout does, paid or not.
- `executeOrder` writes a `StoreOrder`, `Enrollment` rows, `Statement` rows and the
  status of the order in one interactive transaction, and grants reward points
  from inside it, through another connection.
- `createPayout` sums the statements after the watermark of the last paid payout;
  an admin moves the payout's status.
- Enrollments are what `trackLectureProgress` and `requestCertificate` look at;
  completed lectures unlock assignments.

Handlers share nothing but the database, at READ COMMITTED, with few unique keys.
So almost every hazard is one of: a row read before an `await` and relied on after
it; two writes without a transaction; a repeated or delayed webhook; an unordered
`findFirst`; a foreign key that can hold one value where several are meant.
`PROJECT.json` lists them with their lines (`hazards`).

### What makes each component correct

| Component | Promise |
|---|---|
| Orders, payments | everything delivered was ordered, recorded, and free, paid or reported as paid; nothing is half delivered; a paid order is eventually completed, once |
| Enrollments | a student does not hold two enrollments in force in a course |
| Statements | they agree with what was delivered |
| Payouts | only committed statements, none above the watermark, one pending payout, none paid twice |
| Learning | certificates and assignments are earned; completion and passed marks are kept; one of each |
| Lectures and groups | indexes are distinct, what is not moved keeps its order, one notion of what is locked |
| Courses, bundles, associates | what is listed or bundled has an instructor; an associate has accepted |
| Forum, support, store | what is deleted or closed stays quiet; reviews are of what was delivered; one row per user where one is meant |
| Notifications | an announcement reaches who was enrolled; a device is registered once |
| Reward rules | what an admin asked survives every start |
| Pricing | statements add up to the charge; only what is free costs nothing; a percentage is taken off |
| Uploads | what a row names is stored where its links point |
| Users | who signs in, by name or with Facebook, is one user |

## 2. Plan

| Order | Module | Composes with | State |
|---|---|---|---|
| 1 | `OrderFulfilment`: orders, payments, executions | environment: Yoco | done, proved |
| 2 | `Payouts`: statements, watermarks, payouts | statements written by executions (environment) | done, proved |
| 3 | `Learning`: progress, assignments, certificates | enrollments (environment) | done, proved |
| 4 | `Entitlement`: the abstract specification "an order is placed, settled, then delivered"; `FulfilmentRefinement`: how `OrderFulfilment` implements it | `OrderFulfilment` by INSTANCE | done, proved |
| 5 | `Lectures`: groups, their lectures, what is locked | `Platform` | done, proved |
| 6 | `Catalogue`: courses, associates, bundles, reviews | `Platform` | done, proved |
| 7 | `Community`, `Support`, `Store`, `Notices`: small check-then-act components | `Platform` | done, proved |
| 8 | `Rewards`: the rules in etcd | `Platform` | done, proved |
| 9 | `Pricing`: coupons, months and sums | `Platform` | done, proved |
| 10 | `Uploads`: files of every kind; `Accounts`: users | `Platform` | done, proved |
| 11 | `Platform`: components 5 to 10 side by side, the specification their theorems are of | `MCPlatform` adds the foci for TLC | done, proved |

Runs stay few: a component has one passing run, with a *regime* variable where two
explorations are needed (section 4), and one more for liveness where the code
schedules something; the components that share no tables in what is checked of them
have one composite run.  Bounds: two handlers, one or two users, two courses, as
many rows as make the duplicate visible that must not be there.

Every safety property of the passing runs has a theorem (section 5).  What is left: an
abstract specification of `Payouts` ("each statement is paid in one payout at most, up to
what `getLastPayout` picks") with a refinement, and of `Learning` ("enrolled, followed,
certified").

## 3. Modules

Every module describes handlers as request *slots*: `req[r]` is what handler `r`
has read so far and where it is (`pc`).  The set `Requests` bounds how many
overlap.  A step ends at each `await` after which the handler relies on something
it read before; `prisma.$transaction` callbacks are one step, because a transaction
that fails or times out is rolled back whole, and `Fail` stands for an exception,
a timeout or a crash at any point.  Nothing survives in memory, so a crash is
`Fail` of every slot.

### `OrderFulfilment`

| TLA+ | Code |
|---|---|
| `orders`, `courseOrder`, `productOrder` | `Order`, `Course.orderId`, `Product.orderId` |
| `enrollments`, `statements`, `storeOrders`, `rewards` | rows an execution writes |
| `charges` (external), `payments` | Yoco's checkouts, `Payment` |
| `CheckCart`, `CreateOrder` | `OrderService.placeOrder`, `OrderRepository.createOrder` |
| `GiveReward`, `Commit` | `executeOrder`: the reward points on a connection of their own, then the transaction |
| `StartCharge`, `YocoCheckout`, `RecordPayment` | `PaymentService.createCharge` |
| `Approve`, `Settle` | `approveOrder`, before and after the execution |
| `YocoPays`, `Lapse` | the student pays; an enrollment expires |
| `early` | nothing: it remembers the checkouts whose event came before the payment |

**What the webhook believes.**  `Approve` is enabled for every checkout with a `Payment` row
whose order is not completed: the route has no guard (`payment.controller.ts:37-42`), the
signature check of `approveCharge` is commented out (`yoco.service.ts:134-155`), and
`approveOrder` (`payment.service.ts:64-84`) does not ask whether the checkout was paid.  So an
order can be executed, and points granted, without a payment, on an event alone.  What the
model can promise of payment is therefore weaker than one would wish: nothing is executed
without an event for a recorded checkout of that very order, and `early` holds exactly the
checkouts whose event came before their payment.  That orders are paid for before they are
executed follows only where all events come from Yoco, that is where `early` stays empty.

Abstractions: the catalogue reads of `placeOrder` are the constant `Carts` (what
was resolved); of a price only "is it zero" and "is it fractional" are kept; a
month count is "given or not"; the reads of `approveOrder` (payment, order, linked
courses) are one step, being one query; rows get their ids in the order in which
they commit; the field `tx` of a row, `bundle` of an enrollment, `order` of a charge
and `charge` of a store order are ghosts that say where the row came from; the rule
that decides whether points are granted is a choice.

### `Entitlement` and `FulfilmentRefinement`

`Entitlement` says what ordering promises with four variables and no handlers: what
each order asks for, which orders are settled, which were reported as paid before they were,
and what was delivered.  Only a settled or reported order is delivered.
`FulfilmentRefinement` reads them off the tables: `order` is the `Order` table,
`settled` the orders that are free or have a paid checkout, `reported` (`ReportedOrders`) the
orders of the payments in `early`, and a delivery is a store
order with the enrollments of its execution.  `CreateOrder` implements `Place`,
`YocoPays` implements `Pay`, `Approve` of an unpaid checkout implements `Report`, `Commit`
implements `Deliver`, and everything else is a stutter: a half-written execution is never visible.  `Deliver` may happen twice for
an order, because the code lets it (run `fulfil_twice`); it leaves an entry out only if
an order placed later asks for the same course (run `fulfil_stolen` shows that it does).

### `Payouts`

| TLA+ | Code |
|---|---|
| `statements` with `inserted`, `committed`, `aborted` | ids are drawn before the transaction of `executeOrder` ends |
| `CheckPending` .. `CreatePayout` | the five reads and the insert of `PayoutService.createPayout` |
| `RequestLockTime` | `JwtStrategy.validate`, which deletes `payoutLockTime` |
| `LastStatementOf`, `ReadLastPaid` | `getLastPayout`, an unordered `findFirst` |
| `SumStatements`, `ReadLastStatement` | `getCalculatedPayoutWithLastStatement` |
| `UpdateStatus` | the admin's `updatePayout`, any status to any |

`covers` of a payout is a ghost: the statements whose amounts it sums.  Amounts are
left out (a sum is identified with the set it sums), and so are negative amounts.

### `Learning`

| TLA+ | Code |
|---|---|
| `progress`, `active`, `certificates`, `enrolled` | `LectureProgress`, `ActiveAssignment`, `Certificate`, `Enrollment` |
| `Track`, `ReadOldProgress`, `UpsertProgress` | `trackLectureProgress` of the service and of the repository |
| `CheckActive`, `CreateActive` | `createActiveAssignment` |
| `Reply`, `Submit` | `createAssignmentReply`, `updateActiveAssignmentStatus` |
| `Mark` | `updateActiveAssignment` of the instructor |
| `RequestCertificate`, `CheckEligible`, `IssueCertificate` | `requestCertificate` |

One course, whose lectures are fixed data; durations are reduced to "within ten
seconds of the end or not"; messages and attachments are left out.  The reads of
`requestCertificate` between the first check and the progress are one step, because
enrollment rows are never removed.

### The components of `Platform`

| Module | State | Actions and the handlers they model |
|---|---|---|
| `Lectures` | `groups`, `lectures`: the two tables; `deleting`: deletions answered but not run; `completed` | `CreateGroup` `InsertGroup`: `createLectureGroup`; `DeleteGroup` `FinishDelete` `FailDelete`: `deleteLectureGroup`, which awaits nothing; `RearrangeGroup` `CheckGroupIndex` `MoveGroup`, `RearrangeLecture` `CheckLectureIndex` `MoveLecture`: the two rearrangements; `UpdateLecture`, `DeleteLecture`, `Complete` |
| `Catalogue` | `courses`, `bundles`, `invites`, `associates`, `enrolled`, `reviews`, `rewarded` | `CreateCourse`, `UpdateCourse`, `PublishCourse` `SetPublished` `GiveReward`, `Approve`; `Invite` `CreateInvite`, `AcceptInvite` `MarkAccepted` `CreateAssociate`; `CreateBundle`, `FindBundleCourses` `UpdateBundle`, `TakeBundle` (an update that names no courses), `FindBundle` `DeleteBundle`; `CheckReview` `CreateReview`; `Enroll` (environment).  Listings are operators |
| `Community` | `posts` (threads and blogs), `comments`, `feedbacks` | creation, update, deletion; `FindForComment` `InsertComment` `GiveReward`; `FindForFeedback` `CheckFeedback` `CreateFeedback`; `FindFeedback` `DeleteFeedback` |
| `Support` | `tickets`, `comments` | `CreateTicket` `InsertTicket`, `CheckTicket` `InsertComment`, `FindCourseTicket` `UpdateTicket`, `FindPlatformTicket` `UpdateTicketAdmin`, `AnswerTicket` `InsertAnswer` |
| `Store` | `products`, `orders`, `reviews` | the admin's changes of products and orders, `PlaceOrder` `CreateStoreOrder`, `FindReview` `FindOrder` `WriteReview` |
| `Notices` | `devices` (Redis), `enrolled`, `notices` | `CheckDevice` `RegisterDevice`; `FindCourse` `CreateNotification` `AskStudents` `ReadDevices` `Push` `EndPush`: an announcement to a course; `NotifyUser` |
| `Rewards` | `rules`, `rate` (etcd), `asked`, `earned` | `CheckDefault` `PutDefault`: `setDefaultOptions`; `FindRule` `PutRule`: the admin's update; `GetCondition` `CreateRewardPoints`; `SetExchangeRate` |
| `Pricing` | `price`, `monthly`, `empty`, `order`, `linked`, `statements` | `PlaceOrder` with `CalcCouponPrice`, `MetaOf`, `Amount`; `ChangePrice`, `Relink` (another order takes a course); `ExecuteOrder` with `Stated` |
| `Uploads` | `objects` by bucket, `rows` that name keys, `failed`, `doomed` | `Upload` (external), `Verify`, `Probe`, `ProbeFails`, `Delete` `DeleteFails` (external), `Save`, `Leave` |
| `Accounts` | `users` | `RegisterStudent` `CreateStudent` `GiveReward`; `FindFacebook` `CheckFacebook` `CreateStudentFromFacebook`; `UpdateUserAdmin`; `ResetPassword` |

A name that follows another in one entry is the same handler after an `await`.
Of each component the model keeps what its rows refer to and what its guards ask;
texts, titles and pages are left out.  Some fields only remember: `asked` (what admins
asked of a rule), `late` of a post (writes after its deletion), `due` and `tried` of a notice,
`delivered` of a store order, `failed` (keys whose verification as a video failed).  Prices
in `Pricing` are integers, in units that make the percentage exact; rounding to cents is not
modelled, but an execution with a fraction in its statements is refused (`Statement.amount` is an
`Int`).  A rearrangement takes any whole number as index, as its DTO does.  The operations of a
course or an organization that are commented out in the source are not there.

Facts of the code that shape these modules: a course for an organization is created with
no instructor and cannot be published (`exist.instructor.id` of null); images of products
are uploaded to one bucket and looked for in another, so creating a product with the images
its client just uploaded fails; attachments of assignments are never looked for (`createLecture`
verifies those of the lecture a second time in their place, `lecture.service.ts:101-111`;
`updateLecture`, `lecture.service.ts:173-215`, verifies none of them, and
`lecture.repository.ts:464-487` writes them); `updateUser` verifies images and saves neither;
`findInstructor` asks for a column the table no longer has; a ticket of type Course without
a course breaks its user's listing; an admin's change of role leaves the organization linked.

`MCOrderFulfilment`, `MCPayouts` hold constants for TLC; `MCFulfilRegimes`,
`MCPayoutRegimes` and `MCLearningRegimes` the two regimes of the safety runs, and
`Platform`, which extends `Catalogue` and instantiates the others, puts the components side
by side: a step is of one of them, with at most `overlap` handlers of it in flight.
`MCPlatform` extends it by the foci of the composite run, each a restriction of `PlatformSpec`.

## 4. What is checked

### Two regimes in one exploration

Most of this code is correct when requests do not overlap and only *bounded* in its
errors when they do.  Each safety run therefore explores two regimes, fixed by the
initial value of the variable `regime`: in `overlapping` two handlers interleave freely
with few rows; in `sequential` one handler is in flight at a time, with more rows and
more of the environment.  The ordinary invariants are checked in both; the properties
whose name ends in `InSequence` only in the second.  The regimes restrict the
environment (which requests arrive, and whether the reward rule is switched on), never
what a handler does.  A state constraint of `fulfil_safety`, `EarlyWithin`, bounds how far
events that come before the payment are explored: with overlapping handlers, two orders of
one student that share a course; one handler at a time, one such checkout and two orders.

### Passing runs

| Run | Instance | Shows |
|---|---|---|
| `fulfil_safety` | 2 students, 2 courses, a bundle, a product, 2 handlers, up to 3 orders, 2 charges, 3 executions | `EnrollmentBacked`, `CompletedIffExecuted`, `StatementsMatch`: whatever fails, delivery is all or nothing. `ExecutionPaid`, `RewardPaid`: however events are repeated, delayed, early and failed on, nothing is executed and no points are granted but for a free order or the order of a checkout that was paid or reported as paid. `PaidIsRecorded`: no money unknown. `NewestOrderHolds`, `LostOnlyToNewer`: an order loses a course only to a newer one. `ExecutionsWithinOverlap`: at most one execution per overlapping handler. `NoDuplicateInSequence`: no duplicate enrollments without overlap. `ImplementsEntitlement`: every step is a step of `Entitlement` |
| `fulfil_live` | 1 student, 2 orders of the same two courses, 2 handlers, 2 charges | `PaidIsFulfilled`: under fairness every paid charge leads to a completed order |
| `payout_safety` | 2 instructors, 2 handlers, 3 statements, 3 payouts | `CoveredUpToWatermark`: only committed statements, none above the watermark. `SinglePendingInSequence`, `OverlapInSequence`: without overlap there is one pending payout, and a statement is paid again only where an older paid payout could be picked |
| `learning_safety` | 2 students, 2 lectures, 2 handlers, up to 3 rows of each kind | `CertificateEarned`, `AssignmentsUnlocked`, `RowsWithinOverlap`; `CompletedStaysInSequence`, `PassedStaysInSequence` |
| `platform_safety` | 15 foci, see below | of `Lectures`: `IndexesDistinctInSequence`, `OrderKeptInSequence`, `LocksAgree`; of `Catalogue`: `AssociatesAccepted`, `CoursesHaveInstructor`; of `Catalogue`, `Store`, `Community`: `DuplicatesWithin`; of `Community`: `LateWithin`; of `Support`: `ClosedStaysQuietInSequence`; of `Store`: `ReviewedWasDelivered`; of `Notices`: `DevicesWithin`, `AnnouncedToAll`; of `Rewards`: `RulesKept`; of `Pricing`: `StatementsAddUp`, `FreeIsFree`; of `Uploads`: `LinkedStored`; of `Accounts`: `OneAccountEach` |

`NoDuplicateInSequence` is subtler than the check in `placeOrder`: two unpaid orders
of one student for one course both pass it, and only because the later order takes
the single link `Course.orderId` away does the earlier one not enroll a second time.

The bounds let every interesting case happen: two handlers suffice for every race
between two requests; a third row shows that duplicates stop at the number of
handlers; two students and two courses suffice for an order that takes a course from
another's; three orders for a link that moves twice; three payouts for one that
continues from the wrong predecessor.  Permutations of users, instructors, students
and slots are symmetries: no definition tells their members apart.
Deadlock is checked in every run but `fulfil_live` and `fulfil_twice`, where one student
and few ids leave nothing to do once everything has been ordered.

### The foci of `platform_safety`

The components of `Platform` share no tables in what is checked of them, so a behaviour
is of one of them: `focus` names the component and the part of it that is enumerated, and
`overlap` how many handlers may be in flight.  A focus restricts what the environment asks
for, never what a handler does.

| Focus | Overlap | Instance |
|---|---|---|
| `arranging`, `following` (`Lectures`) | 1 | 3 lectures of a course, 3 groups, pages of 2: a move up, down, before the first, to another group and past the end, with gaps that deletions leave (before the first: 2 groups, no deletion under way); a page boundary |
| `publishing`, `studying` (`Catalogue`) | 1, 2 | 2 courses, an instructor and a member of an organization, a student |
| `inviting` / `bundling` (`Catalogue`) | 2 / 1 | 2 invitations to one course; a bundle that takes, loses and keeps courses |
| `posting` (`Community`) | 1, 2 | a thread and a blog, or one post when two overlap, 2 comments, 2 feedbacks |
| `answering` (`Support`) | 1 | a ticket, with and without a course, of a course with and without an instructor, 2 comments |
| `selling` (`Store`) | 1, 2 | 2 products and 2 store orders, or one product when two overlap |
| `registering` / `announcing` (`Notices`) | 1, 2 / 1 | 2 tokens, 4 entries of which 3 are read; 2 announcements, 2 users, 2 courses |
| `governing` (`Rewards`) | 2 | 2 rules; a start, an update and a grant overlap, as long as no two starts or two updates do |
| `pricing` (`Pricing`) | - | a course, a product and a bundle, prices 0 and 2, coupons worth 2, 3 and 25 percent, months from -1 to 2; a sale whose statements are fractions is not executed |
| `uploading` (`Uploads`) | 1 | one object, all twelve kinds, 2 rows, a deletion still under way while other handlers run |
| `enlisting` (`Accounts`) | 2 | 2 names, one of them an id of Facebook, 2 users |

With overlap 2 a third row would show that duplicates do not stop at the number of
handlers, and the tables have room for it where the property speaks of it
(`MaxReview` is 3, the invitations and users fill the tables).  Deadlock is not checked in
this run: ids run out, and an order that was executed ends its behaviour.  The properties
of one component hold trivially in the foci of the others, where its tables are empty.

`RulesKept` needs `OneOfEach`: one process starts at a time and one admin changes rules at a
time; without it a default that one start puts late would undo what an admin asked after
another start had put it.  `StatementsAddUp` says when it speaks: an order of several months
is charged by the month and stated once, and a course that a later order took is not stated.
`FreeIsFree` excepts charges below nothing, which flat coupons and negative months can make.
`LinkedStored` excepts files that some handler gave up as a failed video, and two kinds of which
the code checks nothing that could be kept: images of products, which it looks for in another
bucket, and attachments of assignments, which it does not look for.  `LocksAgree` excepts the first lecture of every page but the first, which the listing
shows unlocked, and lectures that were reordered against their ids, by which the video decides.

### Disagreements between the code and what it says

Each run checks one statement of the repository that the code does not keep.

| Run | Statement | What happens |
|---|---|---|
| `fulfil_twice` | "Order already fulfilled." | two events whose handlers overlap execute an order twice |
| `fulfil_stolen` | "Creating enrollments", "Your payment for order ... completed." | a later order takes the course; the earlier one is completed without it |
| `fulfil_cents` | "Your payment for order ... completed." | a fractional price is refused by `Statement.amount`, an `Int`: paid, never executed |
| `payout_again` | "last payout" | an older payout is picked: statements paid twice |
| `payout_lock` | "Days before which payout cannot be applied" | the lock time is deleted before it is compared |
| `coupon_percentage` | "Calcuate new price for course after coupon applied" | a coupon of 25 percent leaves 25 percent of the price |
| `learn_expired` | "You are not enrolled in this course." | the expiry test is inverted |

Also visible in the models, contradicting no statement of the repository: the reward
for store purchases is granted to every executed order, and again when its
transaction aborts and is repeated, with no bound of the code's; an order is executed on an
event for its checkout that nobody paid, since the event is not verified; an assignment names
attachments that were never uploaded; a statement that commits after a payout with a
higher watermark is never paid.

### Fairness

`fulfil_live` assumes, besides that handlers take their next step (weak fairness of
`Handler`: Prisma's transactions and queries have timeouts, so no `await` hangs), that
the webhook is repeated until it is answered with success, which is how Yoco
delivers (strong fairness of `IsPaid /\ Approve` for each charge: no event is owed for a
checkout that is not paid), and that the
database does not fail for ever (strong fairness of `GiveReward` and `Commit`).
Nothing obliges a user to act.

## 5. What is proved

The `_proof` modules are checked by TLAPS, for all values of the constants,
from the assumptions named in the modules: bounds are natural numbers, `None` is not a
row, carts are carts, and `Requests` is finite.  TLC evaluates each of these assumptions in
the passing runs.  Every safety property that a passing run checks is proved; the
theorems named in `PROJECT.json` say which.

Two kinds of properties need two kinds of invariants.  What holds however handlers overlap
rests on facts that nothing takes back (a row stays, a payment stays paid), or on counting:
`Fit(n, handlers)`, the rows there are and the handlers that found none are together never
more than the handlers that may overlap.  What holds one handler at a time (`InSequence`)
rests on the opposite: what the only handler has read is as it was, because no other runs.

**`OrderFulfilment_proof`.**  The promised properties are not inductive, because they
say nothing of handlers in flight.  `IInv` adds: `References` (what a handler or a row
names exists), `CheckoutsHeldOnce` (a checkout is open, and held by one handler, until
its row is written), `PaymentsAgree` (row and checkout name the same order),
`PaidInFlight` (the checkout of an execution in flight is paid or in `early` already), `SnapshotLacksOnlyNewer`
(the courses an execution in flight has read lack only such as a newer order contains)
and `StatementsBacked`.  Then `PaidInFlight` carries the payment, or the report of it, from `Approve` to
`Commit`, and neither is taken back; `SnapshotLacksOnlyNewer` carries `NewestOrderHolds` from the moment the links
are read to the moment they are used, since orders are never removed.
Theorems: `TypeCorrect`, `CompletedIsExecuted`, `EnrollmentsAreBacked`, `NothingUnpaid`, `PaidIsKnown`,
`NewestIsLinked`, `RewardsArePaid`, `StatementsAreDelivered`, `LostToNewerOnly`, `ExecutionsBounded`.
The last rests on `ExecutionsLetThrough`: the executions of an order and the handlers
executing it were all let through before the first of them committed, in different
slots, so together they are never more than the slots.

`NoDuplicateWhenInSequence` is of the sequential regime of `MCFulfilRegimes`: its student and
its carts, but any number of orders, charges and slots.  `SequenceInv` says what the check of
`placeOrder` leaves open: two unpaid orders for a course are possible, but the course is
linked to one order only (`LinksPlaced`, `LinkedExecuted`), each order asks for a course
once (`PlacedEntries`), and what the only handler in flight has checked or read from the
links `StillHolds` when it commits.

**`FulfilmentRefinement_proof`.**  `Implementation`: `Spec => ImplementsEntitlement`.  The
empty tables map to the abstract initial state, and under `IInv` each kind of step has
a lemma (`CreateStep`, `CheckoutStep`, `ReportStep`, `CommitStep`, `QuietStep`).  `Deliver` needs that
the order is settled or reported when the transaction commits (`PaidInFlight`), that what is left
out is in a newer order (`SnapshotLacksOnlyNewer`), and that no enrollment bears the
number of the execution yet (`EnrollmentBacked`).  `RowAssumption` says that `None` is
not a row of the view.

**`Payouts_proof`.**  `SummedStaysVisible`: what a handler has summed remains committed,
and its watermark is not below it, because both queries see a growing set.
Theorems: `TypeCorrect`, `PayoutsCoverCommitted`.  One handler at a time, `SequenceInv` adds
`WatermarksGrow` (the watermarks of an instructor's payouts never decrease), `OnePending`, and
`StillHolds`: nothing of the instructor is pending while the handler runs, it starts from a
payout that is paid, and it sums only beyond that one's watermark.  Theorems:
`SinglePendingWhenInSequence`; `OverlapWhenInSequence`: if two payouts share a statement,
the later one started from an older paid payout, which is the disagreement of `payout_again`.

**`Learning_proof`.**  `ReadsStand`: what a handler goes by when it writes still holds
(progress, enrollments and assignments are never taken away).  `RowsLetThrough`: the rows
there are and the handlers that found none are together never more than the slots.
Theorems: `TypeCorrect`, `CertificatesAreEarned`, `AssignmentsAreUnlocked`, `RowsBounded`.
`ReadsAsIs` carries the sequential regime: the old progress and the status that the handler
has read are those of the rows it overwrites.  Theorems: `CompletedStays`, `PassedStays`.

**`Catalogue_proof`.**  `Holding` says that what a handler has found is still so when it
writes: nothing takes an instructor from a course, an invitation away or an acceptance back
(`InstructorsKept`, `InvitesKept`, `StillHolding`).  `Instructed` says that what is published or
bundled has an instructor; a course gets there only through a handler that saw one.
`Reviews`, `Publications`, `Invitations` count by `Fit`: a reward is written only for a course
that is published by then, so that no later handler passes the check.
`OneHandler`, `NoHandler` and `Reading` reduce each action to what it writes.
Theorems: `AssociatesHaveAccepted`, `ShownHaveInstructor`, and `CatalogueInvariant`, which
`DuplicatesAreWithin` uses.

**`Services_proof`.**  One invariant for each of four components.  `ShopInv`: an order that
was delivered once stays marked so whatever its status becomes, and reviews are counted.
`ForumInv`: only what is deleted has late writes, and these, the one deletion under way and the
handlers that had found the post fit in `overlap` (`LateFor`).  `TicketInv`: with one handler
at a time, the ticket that a handler comments on is still open.  `NoticeInv`: tokens among the
entries that are read are counted (`Devices`), and who is due has been tried or is still to
be asked or pushed to by the handler of the notice (`NoticeHeld`).
Theorems: `ReviewersHadIt`, `LateIsWithin`, `ClosedStaysQuiet`, `DuplicatesAreWithin` (with the
counts of `Catalogue_proof`), `DevicesAreWithin`, `AnnouncementsReachAll`.

**`Lectures_proof`.**  `LectureInv`: a lecture's group is there, always; with one handler at a
time, groups of a course and lectures of a group are apart, and the index a handler has read is
that of the row, or was just drawn above all others (`HighestIs`).  A move shifts exactly
those between the old place and the new one, so what it leaves in place cannot meet
what it shifts (`ShiftedInOrder`), and a move out of a group closes no gap but makes none meet
(`RenumberedInOrder`).  `GroupsKept` and `LecturesKept` say of each step which one group or
lecture it moves; `OrderIsKept` follows for the same reason as `IndexesAreDistinct`.
`LocksDoAgree` needs no history: a place on a page, the lecture before it and the ids below it
are three ways to say "the one before" as long as the course stands `InIdOrder`
(`PositionIs`, `PreviousIs`).  `SeededLectures` is what a seed provides: finitely many lectures
with numbers as ids, no more than there are indexes in the model.
Theorems: `IndexesAreDistinct`, `OrderIsKept`, `LocksDoAgree`, and `PlatformTypeCorrect` of all
components.

**`Records_proof`.**  Of rules, files, users and sales.
*Rules*: who updates a rule holds it as it is, and who puts a default is the first to put
anything (`RuleHeld`); a rule that was never put has its defaults (`RuleKnown`).  Both last
because no two starts and no two updates overlap (`OneOfEach`, a conjunct of the step).
*Files*: where each kind is looked for is where it is linked to, but for products and what is
attached to assignments; what a
handler has verified stays stored, or failed as a video, until it writes the row, and only what
failed is deleted (`FileInv`).
*Users*: `Unique` names and `NamedById`: whoever came from Facebook has the id as name, so the
unique key of the name makes the id unique; ids are names, being strings (`FacebookAssumption`).
*Sales*: `SaleInv` keeps the amount of an order and what is stated of it equal to what its meta
says.  The amount is three sums, over courses, products and bundles; the statements are one.
That they agree is a fact about sums over finite sets, which are defined by recursion: the
library's induction is out of reach, so `Smallest` (of any sets one has none of the others
inside it by one element, by the well-foundedness of `<`) gives least counterexamples instead.
From it come `SumsExist`, `SumsRemove` (the order of summing does not matter), `SumsJoin`
(disjoint sets) and `SumsZero`.  `SoldThings` says that items are finitely many, of one kind
each, at whole prices; those of products may be below nothing, which no DTO forbids.
Theorems: `RulesAreKept`, `FilesAreStored`, `EachIsOne`, `StatementsDoAddUp`, `FreeIsForNothing`.

The theorems of `Platform` are of `PlatformSpec`, where all components move and nothing restricts
the environment but `overlap`; the run explores `FocusSpec`, a part of its behaviours.  Those of
`RegimeSpec` are of the two regimes that the runs explore.

**Only model-checked.**  `PaidIsFulfilled`, the only property of a passing run without a theorem:
liveness under fairness, and the `ENABLED` it rests on, are beyond the proof system here.  The
statements of section 4 that the code does not keep are refuted by TLC, not proved.

## 6. What is not modelled, and why

- E-mail and push delivery, Firebase, the Cloudinary service (commented out where the upload
  service is chosen): I/O with no state of the program.
- Dashboards, statement analytics and listings on which no other component relies: they only read.
- Tokens and sessions: signed and verified, kept nowhere on the server.
- The student's change of the status of an enrollment, which filters one listing.
- Organizations, meetings, quizzes: empty or commented out.
- Transactions below the level of a step, except where the code relies on what it read before
  one: READ COMMITTED inside one transaction shows in `Payouts` and `Lectures` only.
- Yoco itself, beyond "a checkout can be paid once it was offered, and its event is
  repeated; any other event may arrive too": external.
- `createLecture`: its DTO's `index` carries no decorator, so validation strips it and the
  insert, which requires it, fails; lectures are therefore there from the start in `Learning`
  and `Lectures`.
