---------------------------- MODULE Notification ----------------------------
(***************************************************************************)
(* Notifications: a row per notification, a BullMQ job per row that emits  *)
(* it to the recipient's socket and pushes it to the recipient's device,   *)
(* the device token kept with the user, and the unread badge.              *)
(*                                                                         *)
(* The calls of createNotification (row, job, unread count) and the emit   *)
(* that follows them are the operators InsertNote, Enqueue, Count and      *)
(* Emit: the module of a caller (Donation) takes them as steps of its      *)
(* requests.  A count is emitted in a later step than it is read in.  The  *)
(* worker's job is one action per call; BullMQ and the push service are    *)
(* external.                                                               *)
(***************************************************************************)
EXTENDS Naturals, Sequences, FiniteSets

CONSTANTS
  User,        \* user ids
  Reader,      \* bound: the users who use the app in a behaviour
  Token,       \* device tokens
  Runner,      \* jobs the worker runs at the same time
  Worker,      \* requests of the callers that are in flight at the same time
  Attempts,    \* attempts: how often a failing job is run
  MaxNotes,    \* bound: rows that are created
  MaxFaults,   \* bound: calls that fail, tokens that expire, stops of the process
  None         \* no token, no job, no request, nobody

VARIABLES
  notes,      \* the rows of `notifications` in order of creation
  jobs,       \* jobs[n]: the state of the job of row n
  tries,      \* tries[n]: failed attempts of that job
  run,        \* run[r]: what runner r is doing
  token,      \* token[u]: column fcmToken of user u
  dead,       \* tokens the push service no longer accepts
  mark,       \* mark[u]: the request of u's app, of which there is one at a time
  shown,      \* shown[u]: the unread count that was emitted to u last
  latest,     \* history: latest[u] has read u's unread count last and has yet to emit it
  outrun,     \* history: users whose last emitted count was read before another
  pushed,     \* history: pushed[n] is how often row n reached a device
  faults      \* mishaps so far: failed calls, expired tokens, stops of the process

queueVars == <<jobs, tries, run, pushed>>
badgeVars == <<shown, latest, outrun>>
noteVars == <<notes, jobs, tries, run, token, dead, mark, shown, latest, outrun, pushed,
              faults>>

Note == 1..MaxNotes

\* medium always contains InApp; `push` tells whether it contains Push.
NoteRow == [to : User, about : Nat, push : BOOLEAN, read : BOOLEAN]
Run == [note : Note, at : {"load", "badge", "token", "push", "clear", "complete"},
        token : Token \cup {None}, count : Nat]
Mark == [at : {"count", "badge"}, count : Nat]

\* Who reads and emits an unread count: the app's own request, the job worker, a caller.
Actor == ({"app"} \X User) \cup ({"runner"} \X Runner) \cup ({"request"} \X Worker)
JobState == {"none", "waiting", "active", "done", "failed"}

ASSUME NotificationAssumption ==
  /\ Attempts \in Nat \ {0} /\ MaxNotes \in Nat /\ MaxFaults \in Nat
  /\ Reader \subseteq User
  /\ None \notin Token /\ None \notin Run /\ None \notin Mark /\ None \notin Actor

NoteInit ==
  /\ notes = <<>>
  /\ jobs = [n \in Note |-> "none"]
  /\ tries = [n \in Note |-> 0]
  /\ run = [r \in Runner |-> None]
  /\ token = [u \in User |-> None]
  /\ dead = {}
  /\ mark = [u \in User |-> None]
  /\ shown = [u \in User |-> 0]
  /\ latest = [u \in User |-> None]
  /\ outrun = {}
  /\ pushed = [n \in Note |-> 0]
  /\ faults = 0

\* One of the mishaps, of which there are MaxFaults in a behaviour.
Fails == faults < MaxFaults /\ faults' = faults + 1

-----------------------------------------------------------------------------
(* createNotification, call by call.                                       *)

InsertNote(u, about, push) ==
  /\ Len(notes) < MaxNotes
  /\ notes' = Append(notes, [to |-> u, about |-> about, push |-> push, read |-> FALSE])

\* The job's id is the row's, so it is added once.
Enqueue(n) == jobs' = [jobs EXCEPT ![n] = "waiting"]

Unread(u) == Cardinality({n \in 1..Len(notes) : notes[n].to = u /\ ~notes[n].read})

\* emitUnreadCount: the count is read by `by`, which keeps it ...
Count(u, by) == latest' = [latest EXCEPT ![u] = by] /\ UNCHANGED <<shown, outrun>>

\* ... and emits it when the answer is there, whatever has been emitted since.
Emit(u, by, count) ==
  /\ shown' = [shown EXCEPT ![u] = count]
  /\ IF latest[u] = by
     THEN outrun' = outrun \ {u} /\ latest' = [latest EXCEPT ![u] = None]
     ELSE outrun' = outrun \cup {u} /\ UNCHANGED latest

-----------------------------------------------------------------------------
(* Requests of the recipient.                                              *)
unchangedByMark == <<queueVars, token, dead>>

\* The rows with u's marked as read.
AllMarked(u) ==
  [n \in 1..Len(notes) |->
     IF notes[n].to = u THEN [notes[n] EXCEPT !.read = TRUE] ELSE notes[n]]

\* Mutated form: the unread count is not emitted when all are marked.
MarkAllQuietly(u) ==
  /\ mark[u] = None
  /\ notes' = AllMarked(u)
  /\ UNCHANGED <<unchangedByMark, mark, badgeVars, faults>>

ThenCount(u) == mark' = [mark EXCEPT ![u] = [at |-> "count", count |-> 0]]

\* markAllRead, and getMyNotifications when it is asked to mark.
MarkAllRead(u) ==
  /\ mark[u] = None
  /\ notes' = AllMarked(u)
  /\ ThenCount(u)
  /\ UNCHANGED <<unchangedByMark, badgeVars, faults>>

\* markNotificationRead: the row must exist and be the reader's own.
MarkRead(u, n) ==
  /\ mark[u] = None
  /\ n \in 1..Len(notes) /\ notes[n].to = u
  /\ notes' = [notes EXCEPT ![n].read = TRUE]
  /\ ThenCount(u)
  /\ UNCHANGED <<unchangedByMark, badgeVars, faults>>

\* getMyNotifications without marking emits the count all the same.
GetMyNotifications(u) ==
  /\ mark[u] = None
  /\ ThenCount(u)
  /\ UNCHANGED <<unchangedByMark, notes, badgeVars, faults>>

MarkCount(u) ==
  /\ mark[u] # None /\ mark[u].at = "count"
  /\ mark' = [mark EXCEPT ![u] = [at |-> "badge", count |-> Unread(u)]]
  /\ Count(u, <<"app", u>>)
  /\ UNCHANGED <<unchangedByMark, notes, faults>>

MarkEmit(u) ==
  /\ mark[u] # None /\ mark[u].at = "badge"
  /\ Emit(u, <<"app", u>>, mark[u].count)
  /\ mark' = [mark EXCEPT ![u] = None]
  /\ UNCHANGED <<unchangedByMark, notes, faults>>

\* The count rejects: the request is answered with an error.
MarkFail(u) ==
  /\ mark[u] # None /\ mark[u].at = "count"
  /\ Fails
  /\ mark' = [mark EXCEPT ![u] = None]
  /\ UNCHANGED <<unchangedByMark, notes, badgeVars>>

\* saveMyFcmToken: the app sends the token its device has just been given.
SaveToken(u, t) ==
  /\ t \notin dead /\ token[u] # t
  /\ token' = [token EXCEPT ![u] = t]
  /\ UNCHANGED <<notes, queueVars, dead, mark, badgeVars, faults>>

ClearToken(u) ==
  /\ token[u] # None
  /\ token' = [token EXCEPT ![u] = None]
  /\ UNCHANGED <<notes, queueVars, dead, mark, badgeVars, faults>>

\* External: a device loses its token (uninstalled, expired, rotated).
TokenDies(t) ==
  /\ t \notin dead /\ Fails
  /\ dead' = dead \cup {t}
  /\ UNCHANGED <<notes, queueVars, token, mark, badgeVars>>

-----------------------------------------------------------------------------
(* processNotification in the BullMQ worker.                               *)

At(r, l) == run[r] # None /\ run[r].at = l
To(r) == notes[run[r].note].to
RunGoto(r, l) == run' = [run EXCEPT ![r] = [run[r] EXCEPT !.at = l]]

RunTake(r, n) ==
  /\ run[r] = None /\ jobs[n] = "waiting"
  /\ jobs' = [jobs EXCEPT ![n] = "active"]
  /\ run' = [run EXCEPT ![r] = [note |-> n, at |-> "load", token |-> None, count |-> 0]]
  /\ UNCHANGED <<notes, tries, token, dead, mark, badgeVars, pushed, faults>>

\* What the run does once the count is out: it pushes if the row says so.
AfterEmit(r) == IF notes[run[r].note].push THEN "token" ELSE "complete"

\* The row, which is never deleted, the notification's own emit, and the unread
\* count; when the count cannot be read the job goes on without it.
RunCount(r) ==
  /\ At(r, "load")
  /\ \/ /\ Count(To(r), <<"runner", r>>)
        /\ run' = [run EXCEPT ![r] = [run[r] EXCEPT !.at = "badge", !.count = Unread(To(r))]]
        /\ UNCHANGED faults
     \/ Fails /\ RunGoto(r, AfterEmit(r)) /\ UNCHANGED badgeVars
  /\ UNCHANGED <<notes, jobs, tries, token, dead, mark, pushed>>

RunEmit(r) ==
  /\ At(r, "badge")
  /\ Emit(To(r), <<"runner", r>>, run[r].count)
  /\ run' = [run EXCEPT ![r] = [run[r] EXCEPT !.at = AfterEmit(r), !.count = 0]]
  /\ UNCHANGED <<notes, jobs, tries, token, dead, mark, pushed, faults>>

RunToken(r) ==
  /\ At(r, "token")
  /\ LET t == token[To(r)]
     IN  run' = [run EXCEPT ![r] = [run[r] EXCEPT
                   !.at = IF t = None THEN "complete" ELSE "push", !.token = t]]
  /\ UNCHANGED <<notes, jobs, tries, token, dead, mark, badgeVars, pushed, faults>>

\* Mutated form: every token is cleared that could not be pushed to.
RunPushClears(r) ==
  /\ At(r, "push")
  /\ \/ run[r].token \notin dead /\ pushed' = [pushed EXCEPT ![run[r].note] = @ + 1]
        /\ RunGoto(r, "complete")
     \/ UNCHANGED pushed /\ RunGoto(r, "clear")
  /\ UNCHANGED <<notes, jobs, tries, token, dead, mark, badgeVars, faults>>

\* sendFcmPush: accepted; refused because the token is invalid; or refused
\* for any other reason, which the job only logs.
RunPush(r) ==
  /\ At(r, "push")
  /\ \/ run[r].token \notin dead /\ pushed' = [pushed EXCEPT ![run[r].note] = @ + 1]
        /\ RunGoto(r, "complete")
     \/ run[r].token \in dead /\ UNCHANGED pushed /\ RunGoto(r, "clear")
     \/ run[r].token \notin dead /\ UNCHANGED pushed /\ RunGoto(r, "complete")
  /\ UNCHANGED <<notes, jobs, tries, token, dead, mark, badgeVars, faults>>

\* The invalid token is cleared by user id, whatever the column holds now.
RunClear(r) ==
  /\ At(r, "clear")
  /\ token' = [token EXCEPT ![To(r)] = None]
  /\ RunGoto(r, "complete")
  /\ UNCHANGED <<notes, jobs, tries, dead, mark, badgeVars, pushed, faults>>

\* BullMQ removes the job.
RunComplete(r) ==
  /\ At(r, "complete")
  /\ jobs' = [jobs EXCEPT ![run[r].note] = "done"]
  /\ run' = [run EXCEPT ![r] = None]
  /\ UNCHANGED <<notes, tries, token, dead, mark, badgeVars, pushed, faults>>

\* Mutated form: the push is recorded in the database afterwards, a call that
\* may throw.
RunFailAfterPush(r) ==
  /\ At(r, "load") \/ At(r, "token") \/ At(r, "clear") \/ At(r, "complete")
  /\ Fails
  /\ LET n == run[r].note
     IN  /\ tries' = [tries EXCEPT ![n] = tries[n] + 1]
         /\ jobs' = [jobs EXCEPT ![n] = IF tries[n] + 1 = Attempts THEN "failed" ELSE "waiting"]
  /\ run' = [run EXCEPT ![r] = None]
  /\ UNCHANGED <<notes, token, dead, mark, badgeVars, pushed>>

\* A call throws: the job is run again unless its attempts are used up.
RunFail(r) ==
  /\ At(r, "load") \/ At(r, "token") \/ At(r, "clear")
  /\ Fails
  /\ LET n == run[r].note
     IN  /\ tries' = [tries EXCEPT ![n] = tries[n] + 1]
         /\ jobs' = [jobs EXCEPT ![n] = IF tries[n] + 1 = Attempts THEN "failed" ELSE "waiting"]
  /\ run' = [run EXCEPT ![r] = None]
  /\ UNCHANGED <<notes, token, dead, mark, badgeVars, pushed>>

\* The process stops: BullMQ finds the active jobs stalled and queues them again.
RunnersStop ==
  /\ run' = [r \in Runner |-> None]
  /\ jobs' = [n \in Note |-> IF jobs[n] = "active" THEN "waiting" ELSE jobs[n]]

Work ==
  \E r \in Runner :
    \/ \E n \in Note : RunTake(r, n)
    \/ RunCount(r)
    \/ RunEmit(r)
    \/ RunToken(r)
    \/ RunPush(r)
    \/ RunClear(r)
    \/ RunComplete(r)
    \/ RunFail(r)

NoteNext ==
  \/ Work
  \/ \E u \in Reader :
       \/ MarkAllRead(u)
       \/ \E n \in Note : MarkRead(u, n)
       \/ GetMyNotifications(u)
       \/ MarkCount(u)
       \/ MarkEmit(u)
       \/ MarkFail(u)
       \/ \E t \in Token : SaveToken(u, t)
       \/ ClearToken(u)
  \/ \E t \in Token : TokenDies(t)

-----------------------------------------------------------------------------
NoteTypeOK ==
  /\ notes \in Seq(NoteRow) /\ Len(notes) <= MaxNotes
  /\ jobs \in [Note -> JobState]
  /\ tries \in [Note -> 0..Attempts]
  /\ run \in [Runner -> Run \cup {None}]
  /\ token \in [User -> Token \cup {None}]
  /\ dead \subseteq Token
  /\ mark \in [User -> Mark \cup {None}]
  /\ shown \in [User -> Nat]
  /\ latest \in [User -> Actor \cup {None}] /\ outrun \subseteq User
  /\ pushed \in [Note -> Nat]
  /\ faults \in 0..MaxFaults
  /\ \A n \in Note : jobs[n] # "none" => n <= Len(notes)
  /\ \A r \in Runner : run[r] # None => jobs[run[r].note] = "active"
  /\ \A r, s \in Runner : r # s /\ run[r] # None /\ run[s] # None => run[r].note # run[s].note

=============================================================================
