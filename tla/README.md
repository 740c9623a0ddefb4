# Verification of the event management backend

TLA+ models, model-checking runs and machine-checked proofs about the
TypeScript/Express/Prisma backend in this repository. The code is a modular
monolith: HTTP handlers that make a sequence of database, S3, Redis and queue
calls, with very few transactions. What is hard to test in it is therefore not
one handler but the overlap of two: between two `await`s of a handler any step
of another handler may run, and a check made on a row that was read is acted on
when the row may have changed. The models are about that.

Paths below are relative to the repository; `connection.service.ts:95` means
line 95 of that file under `src/modules/connection/`.

## 1. The system

| Component | State | Operations that change it | Talks to |
|---|---|---|---|
| connection | `connections` rows (requester, receiver, status) | create/reopen, accept, reject, cancel, remove | user (status), read by event invitation |
| event | `events` row with `version`, `event_schedules`, `repeat_configs`, `edit_logs`, cover image in S3 | create, PATCH, disable, soft delete | S3, notification, contribution score, BullMQ |
| event invitation | `event_invitations` rows (event, inviter, invitee, status, respondedAt) | send, accept, decline, accept-all, decline-all | event flags, connection, notification |
| event application | `event_applieds` rows (user, event, deletedAt) | apply, withdraw | event flags, contribution score, notification |
| event repetition | BullMQ delayed jobs, `nextAutoGenerateDate` | one job per occurrence schedules the next | event creation |
| event feeds | none (queries) | - | event, schedules, age groups |
| notification | `notifications` rows, BullMQ job per row, `fcmToken` | create, read, push, token save/clear | queue, FCM, socket |
| socket | rooms, in-memory notifications | join, emit | notification |
| donation | `donations` rows with payment status | create, Stripe/Apple/Google webhooks | notification |
| auth | Redis: pending registrations, OTP challenges, attempt counters, one refresh token per user | register, verify, login, refresh, reset, change password, logout | user, cache, email queue |
| user | `users` rows, skills, contribution score, profile picture | create, update, status, soft delete, increment | S3, family |
| family, family member | `families`, memberships with role | create, add, remove, add owner, independence | user |
| category, program, subcategory | catalog rows, images in S3 | create, update, delete | S3 |
| user settings, feedback, settings, welcome | single rows | get-or-create, update | - |
| contribution, dashboard | none (aggregations) | - | events, applications |
| middleware, server, jobs | process life cycle, rate limits | start, graceful stop with a deadline | everything |

### What makes each component correct, and what is hard about it

* **connection** - one relation per pair; nobody is connected without both having
  asked or agreed; only a row's two users change it. Hard: every write is an
  update by id after a separate read (`connection.service.ts:48,95,120,145,171`), and the unique
  index covers the ordered pair only.
* **event** - the edit logs retell the history; a version, a log and a reward belong to
  one write; the row never names a missing image and no image is left behind.
  Hard: log and old cover come from reads made before the write
  (`event.service.ts:290,296`), the steps after the write fail independently.
* **event invitation** - only connected users are invited, to events that can be
  joined; only the invitee answers, once. Hard: event, connection and status are
  all checked before the write; the sending transaction runs at READ COMMITTED.
* **event application** - an application counts once, whatever is withdrawn, repeated,
  raced or lost. Hard: insert, points and notice are three calls; a soft delete
  under a unique index.
* **event repetition** - no occurrence is made twice or skipped, and the chain does not end by
  itself. Hard: retries after a partial run, stale `nextAutoGenerateDate`, deduplication by
  name, workers that stop polling.
* **event feeds** - an event is in one feed at a time and moves through them in order; a
  reader who turns the pages misses nothing; label and filter of an age band agree. Hard:
  two queries per page, offsets into a changing list, day boundaries, two hand-written
  translations of the same conditions.
* **notification** - a saved row is pushed once and the unread badge is up to date. Hard: row
  before queue, jobs that are run again, a count that is emitted after a newer one, a token
  cleared while a new one is saved.
* **donation** - a payment has one row, and a success the provider no longer repeats has been
  announced. Hard: duplicated, reordered and overlapping webhooks, no unique constraint.
* **auth** - an ended session stays ended, attempts are limited, codes serve once. Hard:
  read-compare-write on Redis without a transaction, expiring keys, calls that do nothing
  in a process that started without Redis.
* **family** - a family always has an owner, an independent account stays independent. Hard:
  two owners removing each other; checks of a row that is written later.
* **catalog, user profile** - image and row stay in step. Hard: upload, write and
  delete are separate calls in a different order in each service; a missing `await` disables
  one rollback.

`PROJECT.json` lists the hazards one by one with the line where each bites and
the properties that would catch it.

## 2. Modules

| Module | What it is |
|---|---|
| `Connection` | the five connection requests over the `connections` table |
| `ConnectionLifecycle` | what the connection API promises about one pair of users |
| `ConnectionProofs` | TLAPS proofs about `Connection` |
| `EventEdit` | PATCH, disable and delete of one event with logs, images, schedule, verification, rollback |
| `EventProofs` | TLAPS proofs about `EventEdit`, `AgeBands`, `Feeds` and `RepeatEvent` |
| `EventInvitation` | sending and answering invitations against events and connections that change |
| `EventInvitationProofs` | TLAPS proofs about `EventInvitation` |
| `EventApplication` | applying and withdrawing, contribution points, notice to the creator |
| `EventApplicationProofs` | TLAPS proofs about `EventApplication` |
| `RepeatEvent` | creation of a repeating event and the chain of delayed jobs that generates its occurrences |
| `Notification` | rows, jobs, worker, push, token and unread badge of notifications |
| `Donation` | one payment: the donor's POST and the provider's webhooks, composed with `Notification` |
| `DonationProofs` | TLAPS proofs about `Donation` with `Notification` |
| `Account` | registration, login, refresh, password reset and logout of one email address over Redis |
| `AccountProofs` | TLAPS proofs about `Account` |
| `Family` | families, members, owners and managed accounts |
| `FamilyProofs` | TLAPS proofs about `Family` |
| `Catalog` | rows with an image in S3: categories, subcategories, programs, profiles |
| `CatalogProofs` | TLAPS proofs about `Catalog` |
| `AgeBands` | the label and the filter of age bands, as pure functions |
| `Feeds` | the lists of events, read page by page while events and time change |
| `MC...` | the instances TLC checks |

Conventions shared by the modules:

* A request in flight is a **Worker** with a program counter `pc[w]` (its next
  database, S3 or queue call) and `job[w]`, the parameters and everything the
  handler has read and will use later. One `await` is one action; the
  synchronous code around it belongs to the action of the call before it.
* A handler's early return (404, 403, 409, 400) is `Respond`.
* `UNCHANGED` lists what a call leaves alone; an update by id touches the columns
  the Prisma call names and no others, whatever the row has become.
* A definition named in a comment as a *mutated form* is the code with a
  plausible bug; it is not part of the specification. Every checked property is
  shown to fail for one of them, so that none is checked in vain.
* Variables marked *history* are never read by an action.
* `overlapped` is a history variable that becomes TRUE when a request starts while another is
  in flight. Some promises are kept by requests that do not overlap and not by those that
  do; they are stated as `~overlapped => ...`, and the comment of the property says what an
  overlap does to them. The steps of one request then still interleave with everything
  else: time, webhooks, the worker, expiring keys, failing calls, restarts.
* A call that may fail is a step of its own (`Fault`), and so is a stop of the process (`Crash`).

### Connection

`conn[r]` is a row, `live` the users that are not soft-deleted.
`CreateStart, CreateCheckReceiver, CreateFind, CreateInsert/CreateReopen` are
`createConnectionRequest` (`connection.service.ts:7-53`); `RowOpStart, RowOpLoad,
RowOpUpdate` are the one shape of accept, reject, cancel and remove (`75-174`),
with `MayAccept ... MayRemove` as their checks. `findFirst` without an order may
return any of the rows between two users. The unique index is `RowsFromTo`.
`consented` records who asked or agreed. `ConnectionLifecycle` is the abstract
specification; `Connection!Lifecycle` maps the table to it.

### EventEdit

One event: `row`, its `repeat` and `window` (schedule) rows, its `logs`, the
`objects` in the bucket, counters of `rewards` and `notices`. The actions
`PatchLoad ... PatchReward` follow `updateEvent` (`event.service.ts:284-442`) call by
call; `From...` give the order of the optional ones. `Fault` is a call that rejects
without effect and leads to the catch block (`PatchRollback`) from inside the try
block. `ChangedFields` and `LogOf` are `diffEventForEditLog`
(`event.helpers.ts:71-108`) on the snapshot: a repeat configuration in the body is
always logged except null on null, because the stored row has keys the body lacks; a
schedule patch always is. The tracked text columns are one value, `content`. `isVerified` is one of the
tracked fields (`event.helpers.ts:20`), and never logged: `updateEvent` takes it out of the body
(`event.service.ts:332,364`) and the verification writes it, within a version. `Patched` are the
other tracked columns.
Every event has a schedule row (`createEvent` always makes one), so the
"no schedule" error cannot occur. A cover is an uploaded file or, since the body takes any
string (`event.validation.ts:279`), a URL: one outside the bucket or that of an image the event
has or has had (`Known`), whether it is still in the bucket or not. `given` (history) keeps what
such a URL was when it was written: not the row's (`"other"`); that of an image already deleted
or about to be deleted by an edit that has replaced it (`"gone"`). Image URLs have the default
form of `buildS3Url`.

### EventInvitation

A row per `<<event, inviter, invitee>>`. An event is `live` (shareable), `closed`
(disabled, inactive or unpublished) or `deleted`; `connected` is the set of pairs with an
ACCEPTED connection, changed by `Connect` and `Disconnect`, which stand for
`Connection`'s accept and remove. `SendReadExisting` and `SendCommit` are the first
read and the rest of the transaction in `createInvitations`
(`eventInvitation.repository.ts:168-245`): the writes take row locks and become
visible at the commit. `AnswerAll` is one `updateMany`, taken as one statement.
The status EXPIRED is in the enum and written nowhere. History: `met`, `wasLive`, and
`due`, the openings of an invitation minus the notifications sent for it.

### EventApplication

A row per `<<user, event>>` that is never removed: withdrawing sets `deletedAt`.
`ApplyLoadEvent, ApplyInsert, ApplyReward, ApplyNotify` are the four calls of
`createEventApplication` (`eventApplication.service.ts:16-52`). The increment of the
score is one atomic update that throws for a deleted user; `score` counts the points
of applications only. `Crash` is the process stopping with requests in flight
(`server.ts:161-166` after the deadline, or a real crash). History: `lost`, the
applications whose points were never added, and `wasOpen`.

### RepeatEvent

The event (`source`, its `start` date and name), its `repeat_configs` row, its live
copies per date and the BullMQ jobs. Dates count repeat intervals: the calendar is
left out, and with it a change of the interval. A job's id contains its date
(`repeatEvent.schedule.ts:11`), so `jobs[d]` is the job for date `d`. `Name(d)` stands
for the suffix of the copy's name (`event.utils.ts:115-142`): a weekday, week of the
month, month or quarter, which comes round again after `Period` dates. The year is part
of the name as well; a horizon of dates within one year is the case where the
names repeat. `eventName` cannot be changed by PATCH (`event.service.ts:301`).

`CreateInsert, CreateFollowUp, CreateEnqueue` are `createEvent`
(`event.service.ts:32-99`) of a repeating event: the transaction, the points and the
notices, the first job. The cover it uploads and removes on failure is left out.
`RunLoad ... RunComplete` are `generateNextRepeatedEvent`
(`repeatEventClone.service.ts:160-211`) call by call, in one worker with concurrency 1.
`RunFail` is a call that throws, `Crash` the process stopping and starting again. The workers
may not be there (`server.ts:278-287` starts them only when Redis is connected, and they can be
disabled, `jobs/index.ts:33`), and `Pause` is what happens when Redis refuses a worker for its
command quota: all are paused and nothing resumes them (`jobs/index.ts:16-30`). `polling` says
whether the worker takes jobs; a run in progress goes on in any case. `PatchRule`,
`DeleteSource` and `DeleteClone` are the users. BullMQ is external and modelled from
how the code configures it: an id that is in the queue is not added again, three
attempts (`config/index.ts:140-148`), completed jobs are removed and failed ones kept
(`repeatEvent.queue.ts:5-12`), a stalled job is taken up again once, which is the
library's default. History: `late`, the copies made after the deletion. The specification is
called `RepeatSpec`, and `worker`, `failures` and `Absent` are what other modules call `pc`,
`faults` and `None`, because `EventProofs` extends all modules about events; in `Feeds` it is
`FeedsSpec`, `clock` and `Nothing`.

### Notification and Donation

`Notification` has the row and the job of each notification, the worker's run of a job call
by call (`RunTake ... RunComplete` are `notification.processor.ts:10-68` and
`fcm.ts:47-97`), the user's device token, and the unread badge: `shown[u]` is the count that was
emitted to u last. A count is read in one step and emitted in a later one, by the app's request
(`MarkCount, MarkEmit`), by the worker (`RunCount, RunEmit`) and by the caller's request
(`NotifyCount, NotifyEmit` in `Donation`); when the worker cannot read it its job goes on. History:
`latest[u]` is who has read u's count last and has yet to emit it, and `outrun` are the users whose
last emitted count was read before another. A user's app has one such request at a time. A call
that throws ends the run and the job
is tried again; the push itself never throws (`sendFcmPush` catches), and nothing after it
but the clearing of the token can, which is why `PushedOnce` holds. BullMQ is external, as
in `RepeatEvent`; the push service accepts, refuses a token, or refuses for another reason.

`Donation` EXTENDS it and uses `InsertNote`, `Enqueue`, `Count` and `Emit` as steps of its
requests: `createNotification` (`notification.service.ts:27-36`) runs inside them. One
transaction id is claimed by the POSTs of the donors (`donation.service.ts:27-61`). The three
webhooks have one shape, `WebhookMatch, WebhookUpdate, NotifyRow, NotifyQueue, NotifyCount,
NotifyEmit`;
`NextStatus` is their different reading of the event. `updateMany` writes every row of the
transaction; `verifiedAt` comes from the row that was read before. The provider announces
events in an order that payments can have, and delivers each until it is answered with 200,
possibly twice and at once. `known` records whether the transaction had a row when an
event was announced: a webhook that comes before the POST is answered with 200 and
forgotten, so nothing is promised about it.

### Account

The row of one email address and its Redis keys. Sessions of registrations and of forgotten
passwords have ids; a code is the number of times one was generated for its session, so
that a client may send the current code, an old one or a wrong one. `Register`, `Resend`,
`Verify`, `Login`, `Refresh`, `Forgot`, `ResendReset`, `VerifyReset`, `Reset`, `Change`, `Logout` and
`Revoke` follow the functions of `auth.service.ts` call by call; `CountAttempt` is the counting of
wrong attempts that three of them share (`auth.helpers.ts:57-78`). `Authenticate` is the middleware of
the requests of a signed-in user: the blacklist of access tokens, which `Logout` writes, and the
user's status (`auth.middleware.ts:27-66`). An access token has the number of the refresh token
it was issued with; two tokens signed within one second are the same (`generateToken.ts:27-34`),
so `StoreToken` may repeat a number.

`ready` says whether the process found Redis when it started (`redis.ts:51-101`). In one that did not
nothing is read and nothing written, and no caller is told (`cache.service.ts:16,30,48`): every write
goes through `Write`. `Crash` ends the process and starts one that has Redis or has not. `Fault` is a
call that rejects; a rejected `exists` counts as "no", so that login goes on past the lock and a
blacklisted token is admitted (`cache.service.ts:60-72`). `Expire` may delete any key with a
time to live at any moment, which includes every real expiry. `SetStatus` is a ban or a
deletion. Client inputs are the ones that can matter: the current password or a wrong one,
the newest code or a wrong one, the refresh token given last. History: `endings` (the
answers that said that sessions have ended), `opened` (how many of them there were when the sign-in
behind the stored token was asked for: a refreshed token goes back to the sign-in of the one it
replaces), `spared` (an ending has not reached the stored token, since it was in flight, `raced`, or
the answer was given without Redis), `used` (the effects of a code or grant) and `cut` (the requests
that had the effect and were cut off before they deleted it).
Left out are keys that no request reads: the registration by email and the cached permissions.

### Family

`families[f]` is a row with the role of every user; a user is a row or not there yet, and its
email is its own. Requests check and write in the calls of `family.services.ts`,
`familyMember.service.ts` and `user.service.ts`: `Check` is a call that only decides whether
the request goes on. `addFamilyMember` creates the user and the membership in one
transaction, which the unique email refuses even for a deleted user. `OwnerOfMember`
is asked of any family, not of the one in the request, as in the code.

### Catalog

One module for the four services that own an image, because they share the shape (read,
check relations, check the name, upload, write, delete) and differ in its order: `Insert`,
`Update`, `UpdateProfile`, `SoftDelete`, `Drop` and `Rollback` say for each kind what comes after
which success or failure. Every database and S3 call that writes may be refused, and `Crash` may cut
off all requests anywhere. An image is a URL. A body may give any of them as a text
(`category.validation.ts:16,52`): one outside the bucket, or that of an upload of the same or
another row, still there or not; the old image then stays. `UpdateProfile` stands for `updateMyProfile`
and `updateUser` (`user.service.ts:180-345`), of which the second takes a text too. `mishaps`
(history) remembers what the properties except: a rejected S3 call (`s3`), a profile's or a
deletion's write that was refused or cut off after the image was dropped (`profile`, `delete`,
see `Torn`), a URL that replaces an uploaded image (`text`) or is that of an upload the row did not
have (`reused`), a refused insert of a category, a stop. Updates that touch neither image nor
relations change nothing here.

### AgeBands and Feeds

`AgeBands` translates the helpers of `event.helpers.ts:263-387`: `YearRange`, `MergeYearRanges` and
`InferBand` label an event with a band in memory, `BandWhere` is the condition by which the
database finds the events of a band. The rows are a set: a row stated twice widens nothing. The
ranges are sorted by their start alone (`Sorted`), so what starts together comes in any order, as
the comparison of the code leaves it. The loops are functions on the positions of the list
(`Merged`, `Scores`), not `RECURSIVE` operators, so that they can be reasoned about. `Feeds` has the events with their schedule (two dates) and
age rows, a clock of instants with days of `DayLength`, and a reader who opens one of the
six lists and turns its pages while events are published, hidden, shown, edited and deleted.
A page is two queries, `ReadData` and `ReadCount`, in any order (`Promise.all`);
`EndPage` is the answer, or the fallback of the personal feed on an empty page
(`event.service.ts:195`). Everything a list is narrowed to besides scope and band (programs,
places, types, prices, search terms, creators) is one `tag`. `missing` (history) is what the
list contained when the reader began and has not been shown. A reader whose list loses an
event, or changes between the two queries of a page, is no longer followed (`Watch`): offset
paging skips an event there, as everyone knows, and the question is about the rest. The
order is the default one, newest first; publication dates are taken to be different. A page is
the set of events with `Skip(page)` to `Skip(page) + PageSize - 1` newer ones in the list (`Place`).

## 3. What is checked

| Run | Instance | Question and answer |
|---|---|---|
| `connection_requests` | 3 users, 2 rows, 2 requests in flight | nobody is connected without consent and only participants change a row; until requests overlap, `ConnectionLifecycle` is implemented with one row per pair |
| `event_edits` | 2 requests in flight, 3 in all, three bodies, any known cover URL, one failing call | no write is logged, paid or announced twice; a live event's cover exists while nothing failed and no body named an image that was deleted or about to be; until requests overlap, the logs tell the history of all tracked fields but `isVerified`, and no image is left behind unless a URL replaced it |
| `invitation_requests` | 2 users, 2 requests in flight, 3 in all | invited means connected once, accepted means live since; until requests overlap, an acceptance is final and each opening is announced at most once |
| `application_races` | 2 users, 3 requests in flight, a restart | points and notice once per application, to an event that was open |
| `repeat_chain` | 3 failing calls, a restart, an edit, workers paused at any time | no occurrence is made twice, skipped, or earlier than the repeated runs explain; without edits the chain never lacks a job and ends by nothing but a job given up or workers that stop polling for good |
| `donation_payments` | 2 donors, 2 events, 2 requests in flight, one duplicate, one mishap | an acknowledged success has been announced; until requests overlap, one row that is verified exactly if a success was recorded |
| `donation_notifications` | 1 donor, 2 notifications, 2 tokens, 2 attempts, one mishap | pushed at most once and once more for a stop; when nothing failed a wrong badge is one whose count was read before and emitted after another; tokens kept unless refused or replaced |
| `account_sessions` | one session of each kind, 2 requests in flight, 4 in all, one mishap, with and without Redis | counters stay under their limit and expire; ended sessions stay ended, over every interleaving, but for tokens in flight at the ending and endings without Redis; until requests overlap, codes and grants serve once, and once more for a cut-off before their deletion |
| `family_requests` | 2 users, 2 families, 2 names, 2 requests in flight, 4 in all | until requests overlap, every family has an owner and its own name, independence is not taken back by an owner; with overlap too, members have accounts |
| `catalog_images` | 5 rows of four kinds, 2 requests in flight, 3 in all, refused calls, stops, any URL as a text | a live row's image exists; until requests overlap, no other image does, and a program's relations agree; each but for the mishaps it names |
| `catalog_rollback` (violated) | the same | the image of a refused category is not removed |
| `feeds_pages` | 3 events of 4 kinds, 5 instants, pages of one event | an event moves through the feeds in order, `hasNext` leads to every event that stays, a label's filter finds the event |

**Bounds.** A race needs two requests on one row; every race we know of in these
modules shows with two, and the runs use two or three. Three users let a
stranger take part. `MaxRequests` lets one request or two run to their end before two others
overlap: in `Account` that is enough to register or forget a password, use the code, and race;
in `Family` to create a family, give it a second member and promote it, and race.
`MaxFaults = 1` reaches every catch path from every call. `MaxCrashes = 1`
interrupts every combination of requests; what follows a restart starts from a
state the model reaches anyway. `MaxAttempts = 2` is the smallest limit above the attempt
that creates the counter. `MaxEvents = 2` lets a failure or refund precede or
follow a success, with `MaxDuplicates = 1` for a delivery that overlaps its own repetition.
Users, rows, workers, tokens, names and events are symmetric, except
where a cfg says otherwise; the runs with liveness use no symmetry. In `RepeatEvent` the names come round after `Period = 2` dates,
so that a copy meets the name of the event and of an earlier copy; `MaxNow = 2` lets
the chain go twice round with the early runs that failures cause; `MaxFailures = 3` is what
it takes to give up a job, and one more rerun comes from `MaxCrashes = 1`. `Horizon`
is above every date these can reach: the guard of `RunAdvance` never
holds a run back. In `Feeds` two instants per day are its first and its last, and the four kinds
have their dates on and between them, with age rows on both sides of every band's ends; the
filter and the label are proved for all rows. Deadlock is not checked: the bounded models stop when
their requests are used up, and nothing waits for anything in these handlers.

**Fairness.** Only `RepeatEvent` has a liveness property and assumes fairness. Time goes on
(`WF_vars(Tick)`), and the worker goes on (`WF_vars(Work \/ RunFail)`): a worker that polls takes
the jobs that are due, and an awaited call of a run returns or throws. Nothing makes a worker
poll: without `polling` the only enabled steps of `Work` are those that end the run in progress,
the pause may come at any moment, and no restart is forced. `ChainGoesOn` therefore excepts, among
others, that the workers stop polling for good (`[]~polling`). That a call succeeds is not assumed, only that at most
`MaxFailures` fail; a job whose three attempts fail is given up, and `ChainGoesOn` says so.
Nothing is assumed of the request that creates the event: it may be lost between its
transaction and its `enqueueRepeatEventJob`, and then there is no chain, which is
why `ChainGoesOn` starts from a queued job. Everything else is a safety property.

**Overlap against order.** Where a promise is limited by `~overlapped`, taking the limit away
makes TLC show the race within seconds: two rows for one pair, an edit log of an outdated
snapshot, an acceptance over a decline, two payments with one transaction id, a code accepted twice, a family without an owner, a takeover of an
account that has just become independent, an image that no row names. In the same way the other
exceptions are what the code does, not room left to the model: without `spared` a login overlapping
a password change outlives it, without `outrun` an old count is emitted last, without `cut` a reset
cut off after it has written the password leaves a grant that writes another, without `given` and
`"reused"` a row names an image that an earlier edit deletes.

### Finding

`catalog_rollback`: `createCategory` returns the promise of its insert from inside the `try`
without awaiting it (`category.service.ts:33`), so the catch block that is to remove the
uploaded image (line 39) never runs when the insert is refused.

Also seen while modelling, without a run of its own:

* an accept overwrites a row that was rejected or cancelled since it was read
  (`connection.service.ts:95`), and an invitation's accept a decline;
* two users who ask each other at the same time get a row each, although Step 6
  (`connection.service.ts:35`) is to handle the reverse request;
* an invitation is accepted although its event was closed between the check and the write
  (`eventInvitation.service.ts:142`);
* a user who withdrew an application and applies again is told that they already applied
  (`eventApplication.service.ts:48`), because the unique index counts the withdrawn row;
* an edit that restores a snapshot's value over another edit's change writes no log
  (`event.service.ts:413`), and an overlapping edit logs a version that another one created,
  although `event.prisma:166` calls it the one this edit created;
* an edit that overlaps another one is applied on top of it although `event.prisma:53`
  calls the version optimistic locking: no update compares it;
* a verification that races with the soft delete throws after the row was written, and the
  rollback removes the cover the deleted row names;
* two overlapping uploads leave one image behind; two overlapping sends notify twice;
* sending the repeat rule again with PATCH sets the stored date back; the pending job then
  queues its own id, which is ignored while it is active, and the chain ends. PATCH queues
  no job either, so an event that starts to repeat by PATCH never does, nor does one whose
  first date is past when it is created (`event.service.ts:79`);
* a run stores a date computed from the one it read over the date a PATCH stored meanwhile;
* the lookup by name is not limited to the copies of the event or to its date: once the names
  have come round within a year, a chain advances without generating (a daily event after
  a week), and an event of another creator with the same name stands for a copy too;
* a copy names the cover object of its source (`repeatEventClone.service.ts:128`), which a
  PATCH of either with a new cover deletes;
* a webhook that arrives before the POST is answered with 200 and forgotten: the payment stays
  pending; a late failure overwrites a success or a refund (`donation.service.ts:149`);
  a store event that speaks neither of failure nor of refund counts as a success;
* a valid token is cleared when it was saved while a push to its predecessor was in flight
  (`notification.processor.ts:57`);
* a process that started without Redis answers a logout or a password change although `set` and
  `del` did nothing (`cache.service.ts:30,48`): the old token is accepted again after a restart;
* a reset that fails after the password is written leaves its grant, which changes the password
  again (`auth.service.ts:513-515`); likewise a code whose grant was stored (`445-451`);
* the lock of an account and the blacklist of access tokens do not hold while `exists` rejects
  (`cache.service.ts:70`);
* an unread count is read before it is emitted, and a newer one may be emitted in between: the
  badge stays wrong until the next (`notification.service.ts:16-21`);
* `isVerified` is a tracked field whose change is never logged (`event.service.ts:332,413`);
* when Redis refuses a worker for its quota all workers are paused until the process is restarted
  (`jobs/index.ts:16-30`);
* a cover or image given as the URL of an upload may be deleted by an edit or a deletion of the row
  that has it (`event.validation.ts:279`, `category.validation.ts:16`); a deletion that is refused or
  cut off after it dropped the image leaves the live row naming it (`category.service.ts:157-166`);
* an email of a deleted user can neither register again nor be added to a family: the checks
  ignore the row, the unique index does not;
* a rejected deletion of the old image makes an update roll back the new one, which the row
  already names (`category.service.ts:135-144`); a profile's old picture is deleted before its
  row is written (`user.service.ts:231`), the shared default picture included;
* an image URL given as text orphans the uploaded image it replaces;
* pages sorted by a column that is not unique have no order among equals (`paginate.ts:35`).

## 4. What is proved

The proofs hold for every set of users, rows, events and workers, and for every value of
the bounds. They assume that `None` is neither a row nor a job (`NoneAssumption`; `Absent` and `Nothing` in
`RepeatEvent` and `Feeds`) and
that the bounds are natural numbers (`BoundAssumption`, or one assumption named after
the module, such as `FamilyAssumption`); `EventApplication` also
assumes that events and workers are finitely many (`FiniteAssumption`), because its score
property counts them. Every module follows the same argument: a property about rows is not
inductive by itself, since a write relies on a check made calls before; the strengthening
says, for each step of a request in flight, what its earlier checks still give there.

* **`ConnectionProofs`** proves `IInv` inductive and from it `TypeOK`, `Consent` and
  `OnlyParticipantsChange`. `IInv` adds to `Consent` what requests carry: a job has the
  shape its step needs (`JobOK`), the requester of a row has consented to the pair
  (`RowAsked`), and an update in flight has passed the check of its operation
  (`Checked`), which is a fact about the two users of the row and therefore still true
  when the row's status is not what was read. This is why `Consent` survives the races
  that `OneRowUntilOverlap` and `ImplementsLifecycle` except. Those two are proved from
  `SerialInv`: until requests overlap there is one in flight (`Alone`), and what it has
  read is still so when it writes (`CheckedNow`): no row between the two users at an
  insert, a reopenable status at a reopening, the status the operation asks for at an update.
  `Refinement` maps the table to `ConnectionLifecycle`, pair by pair: a write is a step of
  one pair (`StateOf`, `Rel`), the first overlap moves every pair to `Contested`, and
  everything else stutters.
* **`EventApplicationProofs`** proves typing, the three properties of `application_races` and that
  only its owner withdraws an application (`WithdrawnByOwner`). `InFlight` says that a request at its insert names an event that was open, that
  a row being rewarded or announced has had no notice and is in the hands of one
  request, and that a request about to withdraw is the owner's. Only the winner of the
  unique index gets past the insert, which makes both counts exact: an insert adds one row and
  one pending reward, a reward turns a pending one into points or a loss, and a
  restart turns all pending ones into losses (`NextScore`, with the library's
  cardinality facts).
* **`EventInvitationProofs`** proves `TypeOK`, `InvitedWasConnected`, `AcceptedWasLive`, that the
  time of the answer is set exactly on answered invitations (`RespondedWhenAnswered`) and that
  only the invitee answers (`AnsweredByInvitee`).
  `RequestOK` says that the invitees of a request past its check had been
  connected to the sender, that what its transaction creates is what it was asked
  for, that a request past its load is the invitee's, and that the event of an acceptance
  was live while the row existed. All of these are statements about the past, so closing the
  event or removing the connection in between does not undo them. `NotifiedOncePerOpening`
  and the life cycle of an invitation (`Lifecycle`) hold until requests overlap: `StillSo` says
  that what is read before the commit is so at the commit, that the invitations about to
  be announced have been opened since their last notice, and that an answer finds its
  invitation still open.
* **`EventProofs`** proves the five properties of `event_edits`. `TypeInv` gives the shape of `job` at
  every call (an edit past its snapshot has one, only an uploaded cover is deleted again),
  and every step is one of few shapes (`Goes`). The counts are each *backed*: a log,
  reward or notice written, plus those that requests in flight are still to write, stay
  below the version (`CountInv`, with the library's cardinality facts), so that overlaps and
  failures can lose one and never add one. `NoDanglingCover` is about images that several
  overlapping edits hold: `CoverInv` says that an image about to become the cover is in
  the bucket, is no other request's new image and is not the image another request is going
  to delete as the old one. A URL enters the argument
  only through `given`: one that is neither gone nor doomed is, when it is written, in the bucket
  and nobody's to delete. For `NoOrphanCover`, `OrphanInv` says what the bucket may hold
  at each call of the one request in flight. For `LogsTellHistory`, `HistoryInv` relates `past`
  to the row and to the snapshot of the request in flight: the snapshot is the last version
  until the row is written and the one before it from then on, and the log is
  written in between. The module also proves `FilterExact`: the condition by which the database
  finds a band selects a row of the groups exactly when the years the row admits meet the band,
  for every value, negative ones and those beyond the cap of 120 included. It rests on one
  lemma about two ranges of integers (`SharedYear`) and a case for each condition.
* **`EventProofs`** also proves what `AgeBands` computes, for every finite set of age rows.
  `ScoreExact`: the score of a band is the number of its years that some row admits.
  `InferBandExact`: the band inferred is the first of those that share most years with the rows.
  The ranges can be sorted (`SortExists`, by taking out one that starts last), and along the sorted
  ranges `MergeInv` says that the merged ones cover the same years, that they lie apart, and
  that the last one starts no later than the range just merged (`WidenKeepsInv`). Nothing in it asks
  that ranges are nonempty or in what order equal starts come. Spans that lie apart count each
  year once (`ScoreCounts`). That these recursive functions
  satisfy their equations, and the inductions along the ranges, rest on `SetInduction` and
  `Recursion`. Both come from `LeastNat`, the least element of a set of naturals, which the library's
  `WFMin` gives: it speaks of sets, where the induction theorems take an operator, which
  the provers cannot instantiate.
* **`EventProofs`** also proves, of `Feeds`, typing, `LabelFound`, `NothingSkipped` and `ScopesAdvance`.
  `LabelFound` joins `InferBandExact` and `FilterExact`: a band with a year in common has a
  row that meets it, and the filter finds that row.
  `ReaderOK` says that what is still missing is in the reader's list, on its page or after
  it, and that the answers it has are still those the queries would give. A list
  that grows gives nobody a smaller place (`PlaceGrows`), so nothing moves to a page already
  read. Every place below the number of events is taken (`PlaceTaken`, by the library's
  pigeonhole fact): a page that `hasNext` has promised is therefore not empty, so that a
  personal feed falls back only when it has no event at all, and it neither
  becomes nor stops being empty under a reader who misses something (`PersonalStays`).
  `ScopesAdvance` comes from the start and the end of a day never going back (`DayStep`). Events are
  finitely many, a schedule has two integer dates, and a kind of event has finitely many age
  rows (`FeedsAssumption`).
* **`EventProofs`** also proves, of `RepeatEvent`, typing, `OncePerName`, `NoGap` and that at most one copy comes
  after the deletion of the event (`EndsWithSource`). A run looks for a copy, makes it and advances the date in three
  calls; what is added says that the lookup's answer still holds at the copy (`CloneFree`,
  because one worker runs one job and the only other insert comes before any job, `Fresh`),
  that without edits the stored date is the one the run read and its copy is there when
  it is advanced (`OnTrack`), and that a run which has not made its copy saw the event
  live (`FirstLate`). Attempts never exceed their limit because a job that may still run has
  some left (`TriesLeft`). Here `NoneAssumption` says that `Absent` is no date, row or job.
  `EarlyByReruns` is about how far the chain can run ahead of the calendar. `Left` are the
  jobs whose run is still to move the stored date on; one is left, and one more for every
  failed call or stop (`FewLeft`), because only a run that is lost after it has moved the date
  leaves its job behind. `NotFarAhead` bounds, for every date to come, the stored date plus
  the number of runs left that are due by then: moving the date raises one and lowers the
  other. The run that makes a copy is itself left and due, which gives the bound on its
  date. The counting rests on the library's facts about finite sets (`Counting`).
  `ChainKept` is what can be proved here of the chain going on: until users intervene or a job
  is given up no step empties the queue, although the end of a run removes its job. `NextQueued`
  says that no job is for a later date than the stored one, so that the job a run has
  queued is not the one it is itself, and is there when the run ends. With the worker's
  fairness this job runs while the worker polls, and runs again after a failure; that it does is
  `ChainGoesOn`.
* **`FamilyProofs`** proves `TypeOK`, `FamiliesKept` and `IndependenceKept`. Every step starts a
  request (`Begins`), decides about one (`Decides`) or is its last and only write
  (`Writes`). `Named` says that what a request names has a row, which holds whatever
  overlaps because rows do not vanish; `Alone` that there is one request at a time
  until requests have overlapped; `Reads` that what the one request has read is then
  still so when it writes: the name is free, the remover owns the family and is not
  the one removed, the account is managed.
* **`DonationProofs`** proves typing, `PushedOnce` and `AckedSuccessIsAnnounced` of the composition of
  `Donation` and `Notification`. Only the request that has created a notification's row adds
  its job (`InRequest`, `NotesStay`), and no two requests have created the same row
  (`InFlightInv`), so a job that is over is never added again; until then
  its device has got at most one push per stop of the process (`Pushes`). The row a webhook
  notifies with is about the event being delivered and its job is there once the
  request counts, so the answer 200 comes after the announcement; an event known
  when it is delivered has a row to find because rows are not deleted. `LedgerConsistent`
  holds until requests overlap (`Alone`): a POST at its insert has found no row, and the
  verification date a webhook has read is the one it writes over (`StillSo`); a success is
  applied to a row that exists (`Ledger`). `TokenKept`: the token a runner is about to clear
  has been refused (`RefusedInv`), so either it is still the user's or the user has another one.
  `BadgeIsCurrent`: while nothing has failed, and unless somebody is about to read the count of a
  user (`Owes`), it is right where it was read last: with the one who has yet to emit it (`Carries`),
  or, when it was emitted, on the badge, if no earlier one was emitted after it (`InOrder`).
* **`AccountProofs`** proves all four properties of `account_sessions`. `Request` says that every
  call of a request is on the path of its operation (`OnPath`) and has what the path
  requires: whoever is about to get a token has found or created the user. A step
  either begins a request (`Begins`), moves it (`Moves`) with one of a few kinds of
  writes (`Data`), or belongs to the environment. `CountersSound` follows from `Counted`, which
  holds whatever overlaps: a counter at its limit has a request at the call that deletes
  it, and a counter without expiry one at the call that sets it. Every other
  call leaves a counter alone or deletes it (`CountersLeft`). `EndedSessionsStayEnded` holds over
  any interleaving too: a request in flight that no ending has met goes on with a sign-in
  asked for after the last one (`Current`), since an ending marks whatever is in flight.
  `CodesSpentOnce` holds until requests overlap, so that there is one request at a time
  (`Alone`): a code or grant that is still there and in nobody's hands was used only by requests
  that were cut off (`Spent`), and the one that the request in flight has found is such a one
  until it uses it (`Unspent`). Without Redis nothing is found, so nothing is used.
  `AccountAssumption` asks that more than one attempt is allowed: with
  one the counter would reach its limit in the call that sets its expiry.
* **`CatalogProofs`** proves typing, `ImagesConsistent` and `RelationsAgree`. The calls of the four
  services have seven shapes: a request begins, reads, ends, uploads, writes its row, removes
  an image or turns to undo what it did. `NextActs` shows that every step has one of them, and
  the invariants are shown for the shapes. `ImageInv` holds whatever overlaps: no two
  rows share an uploaded image (`Distinct`), an image about to be stored is in the bucket and
  is neither a row's nor about to be deleted by anybody (`Stored`, and `Undone` for the one that
  is about to be taken back), whoever has read an image to delete it has read it from the row it
  serves (`Owned`), an update deletes it after its row has another (`Replaced`), and a live row whose
  image is gone is about to be written by the request that has deleted it (`AllCovered`). All this
  until a body gives the URL of an upload the row did not have (`OwnImages`). A stop leaves the rows
  and the bucket; what it cuts off after its deletion is a mishap of its own (`Torn`).
  `SerialInv` holds until requests overlap: what the one request has read is still so
  (`Sound`), a program's subcategory exists (`Referred`) and agrees, and besides the images in
  use the bucket holds what the request's next call accounts for (`TidyAt`).
  `CatalogAssumption` says that the kinds of rows are disjoint sets.

Only model-checked: liveness (`ChainGoesOn`, out of the prover's reach). Every other property of a
passing run is stated by a theorem.

## 5. What is not modelled

* Queries that only read: lists of connections, invitations and applications, dashboards,
  contributions. The lists of events are modelled because their paging and scopes are
  promises of their own.
* Single-row modules without interaction: user settings, feedback, settings, welcome; the other
  columns of a user's profile, skills, and the admin's creation of users.
* The socket's rooms, rendering and sending of emails, formatting, validation messages, logging,
  rate limits, seeding scripts, configuration.
* A running process that loses Redis without a call being rejected (`isRedisReady` does not notice
  it), the cover of a failing `createEvent`, the calendar behind repeat intervals, URL forms of other S3 endpoints, which
  the code deletes under a wrong key.
* The order in which a graceful shutdown closes its parts: its deadline may cut it anywhere,
  which is what `Crash` says.
