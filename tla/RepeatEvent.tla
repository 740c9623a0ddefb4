---------------------------- MODULE RepeatEvent ----------------------------
(***************************************************************************)
(* A repeating event and the chain of delayed jobs that generates its      *)
(* occurrences.                                                            *)
(*                                                                         *)
(* createEvent stores the date of the first occurrence and queues a job    *)
(* for it.  Each job copies the event for the date that is stored then,    *)
(* stores the next one and queues the job for it: there is no schedule but *)
(* the chain.  A job that throws is tried again, a job whose process stops *)
(* is taken up again by the next worker, and both read the stored date     *)
(* anew.  The workers are paused for good when Redis refuses for its      *)
(* quota, and a server may start without them.  Meanwhile users edit and   *)
(* delete the event and its copies.                                        *)
(*                                                                         *)
(* Dates are numbers of repeat intervals.  What BullMQ does with a job is  *)
(* modelled from how the queue is configured and used.                     *)
(***************************************************************************)
EXTENDS Integers, FiniteSets

CONSTANTS
  Period,      \* the names of occurrences come round after so many dates
  MaxNow,      \* bound: the last date that comes
  Horizon,     \* bound: the last date that is stored or queued
  MaxFailures, \* bound: calls that fail
  MaxCrashes,  \* bound: how often the process stops and restarts
  MaxEdits,    \* bound: edits and deletions by users
  Absent       \* no job, no row, no date

VARIABLES
  now,      \* the current date
  source,   \* the event: "none", "live" or "deleted"
  start,    \* the start date of its repeat rule
  named,    \* its own name, that of its registration date
  config,   \* its repeat_configs row, or Absent
  clones,   \* clones[d]: live copies for date d
  jobs,     \* jobs[d]: the job repeat-event-<id>-<d> in the queue, or Absent
  creating, \* the next call of the createEvent request
  polling,  \* whether the workers take jobs
  worker,   \* the next call of the worker
  run,      \* the job it runs and the date it generates
  failures, crashes, edits,  \* how many of each there were
  late      \* history: copies made after the event was deleted

\* The event's row.
event == <<source, start, named>>

repeatVars == <<now, event, config, clones, jobs, creating, polling,
          worker, run, failures, crashes, edits, late>>

ASSUME BoundAssumption ==
  /\ MaxNow \in Nat /\ MaxFailures \in Nat /\ MaxCrashes \in Nat /\ MaxEdits \in Nat
  /\ Horizon \in Nat /\ MaxNow < Horizon
  /\ Period \in Nat \ {0}

-----------------------------------------------------------------------------
Date == 0..Horizon

\* `next` is nextAutoGenerateDate; a DontRepeat row has none.
Config ==
  [repeats : {TRUE}, next : Date] \cup [repeats : {FALSE}, next : Date \cup {Absent}]

\* attempts of defaultJobOptions; a job may stall once (BullMQ's default).
Attempts == 3
MaxStalls == 1

JobRow == [state : {"delayed", "active", "failed"}, tries : 0..Attempts, stalls : 0..MaxStalls]

ASSUME NoneAssumption == Absent \notin Date \cup Config \cup JobRow

Pending(d) == jobs[d] # Absent /\ jobs[d].state \in {"delayed", "active"}

\* The weekday, week, month or quarter of the date: it names the copy, within
\* a year, and comes round again.
Name(d) == d % Period

\* A live event of that name: the event itself or one of its copies.
Taken(n) ==
  \/ source = "live" /\ named = n
  \/ \E d \in Date : clones[d] > 0 /\ Name(d) = n

-----------------------------------------------------------------------------
RepeatInit ==
  /\ now = 0
  /\ source = "none"
  /\ start = 0
  /\ named = 0
  /\ config = Absent
  /\ clones = [d \in Date |-> 0]
  /\ jobs = [d \in Date |-> Absent]
  /\ creating = "insert"
  /\ polling \in BOOLEAN
  /\ worker = "idle"
  /\ run = [job |-> Absent, date |-> Absent]
  /\ failures = 0 /\ crashes = 0 /\ edits = 0
  /\ late = 0

Failure == failures < MaxFailures /\ failures' = failures + 1

\* enqueueRepeatEventJob: BullMQ ignores a job whose id is in the queue, be it
\* delayed, active or failed (failed jobs are kept).
Add(d) ==
  jobs' = IF jobs[d] = Absent
          THEN [jobs EXCEPT ![d] = [state |-> "delayed", tries |-> 0, stalls |-> 0]]
          ELSE jobs

(***************************************************************************)
(* POST /events: createEvent                                               *)
(***************************************************************************)

\* The transaction that stores the event, named n, and its repeat configuration.
CreateInsert(s, n) ==
  /\ creating = "insert"
  /\ source' = "live"
  /\ start' = s
  /\ named' = n
  /\ config' = [repeats |-> TRUE, next |-> s + 1]
  /\ creating' = "reward"
  /\ UNCHANGED <<now, clones, jobs, polling, worker, run, failures, crashes, edits,
                 late>>

\* The points of the creator, then the notifications of the admins.  When one
\* of these calls throws, the request ends, its event stored and not queued.
CreateFollowUp ==
  /\ \/ creating = "reward" /\ creating' = "notify" /\ UNCHANGED failures
     \/ creating = "notify" /\ creating' = "enqueue" /\ UNCHANGED failures
     \/ creating \in {"reward", "notify"} /\ creating' = "done" /\ Failure
  /\ UNCHANGED <<now, event, config, clones, jobs, polling, worker, run, crashes, edits,
                 late>>

\* The first occurrence is queued if its date is still to come; a failure of
\* the queue is swallowed.
CreateEnqueue ==
  /\ creating = "enqueue"
  /\ creating' = "done"
  /\ \/ start + 1 > now /\ Add(start + 1) /\ UNCHANGED failures
     \/ start + 1 <= now /\ UNCHANGED <<jobs, failures>>
     \/ start + 1 > now /\ UNCHANGED jobs /\ Failure
  /\ UNCHANGED <<now, event, config, clones, polling, worker, run, crashes, edits,
                 late>>

(***************************************************************************)
(* The worker: generateNextRepeatedEvent, one job at a time.               *)
(***************************************************************************)

\* Mutated form: the job is added without its delay.
DueAtOnce(d) == jobs[d] # Absent /\ jobs[d].state = "delayed"

\* A delayed job is taken when its date has come; so is one that waits to be
\* tried again.
Due(d) == jobs[d] # Absent /\ jobs[d].state = "delayed" /\ d <= now

\* Mutated form: the copy is made for the day the job runs.
AnchorNow(c) == now

\* The copy is made for the stored date, whatever the job was queued for.
Anchor(c) == c.next

\* A source that is gone, or no longer repeats, ends the chain.
Repeats == source = "live" /\ config # Absent /\ config.repeats

Active(j) == [state |-> "active", tries |-> j.tries, stalls |-> j.stalls]

\* The job becomes active and loads the event with its configuration.
RunLoad(d) ==
  /\ polling
  /\ worker = "idle"
  /\ Due(d)
  /\ jobs' = [jobs EXCEPT ![d] = Active(@)]
  /\ IF Repeats
     THEN worker' = "lookup" /\ run' = [job |-> d, date |-> Anchor(config)]
     ELSE worker' = "complete" /\ run' = [job |-> d, date |-> Absent]
  /\ UNCHANGED <<now, event, config, clones, creating, polling, failures, crashes,
                 edits, late>>

\* Mutated form: the copy is made without looking for one.
RunLookupNothing ==
  /\ worker = "lookup"
  /\ worker' = "clone"
  /\ UNCHANGED <<now, event, config, clones, jobs, creating, polling, run, failures,
                 crashes, edits, late>>

\* Mutated form: a run that finds its copy has nothing left to do.
RunLookupStops ==
  /\ worker = "lookup"
  /\ worker' = IF Taken(Name(run.date)) THEN "complete" ELSE "clone"
  /\ UNCHANGED <<now, event, config, clones, jobs, creating, polling, run, failures,
                 crashes, edits, late>>

\* A live event of the same name stands for the copy.
RunLookup ==
  /\ worker = "lookup"
  /\ worker' = IF Taken(Name(run.date)) THEN "advance" ELSE "clone"
  /\ UNCHANGED <<now, event, config, clones, jobs, creating, polling, run, failures,
                 crashes, edits, late>>

\* EventRepository.createEvent, one transaction; the copy does not repeat.
RunClone ==
  /\ worker = "clone"
  /\ clones' = [clones EXCEPT ![run.date] = @ + 1]
  /\ late' = IF source = "deleted" THEN late + 1 ELSE late
  /\ worker' = "advance"
  /\ UNCHANGED <<now, event, config, jobs, creating, polling, run, failures, crashes,
                 edits>>

\* The next date is computed from the one that was read and stored over what
\* is there now.
RunAdvance ==
  /\ worker = "advance"
  /\ config # Absent
  /\ run.date < Horizon
  /\ config' = [config EXCEPT !.next = run.date + 1]
  /\ worker' = "enqueue"
  /\ UNCHANGED <<now, event, clones, jobs, creating, polling, run, failures, crashes,
                 edits, late>>

\* Mutated form: the job is queued under the date that was just made.
RunEnqueueSame ==
  /\ worker = "enqueue"
  /\ Add(run.date)
  /\ worker' = "complete"
  /\ UNCHANGED <<now, event, config, clones, creating, polling, run, failures, crashes,
                 edits, late>>

RunEnqueue ==
  /\ worker = "enqueue"
  /\ Add(run.date + 1)
  /\ worker' = "complete"
  /\ UNCHANGED <<now, event, config, clones, creating, polling, run, failures, crashes,
                 edits, late>>

Rest == worker' = "idle" /\ run' = [job |-> Absent, date |-> Absent]

\* A completed job is removed from the queue.
RunComplete ==
  /\ worker = "complete"
  /\ jobs' = [jobs EXCEPT ![run.job] = Absent]
  /\ Rest
  /\ UNCHANGED <<now, event, config, clones, creating, polling, failures, crashes,
                 edits, late>>

\* A job that failed is tried again until its attempts are used up.
Retry(j) ==
  [state |-> IF j.tries + 1 < Attempts THEN "delayed" ELSE "failed",
   tries |-> j.tries + 1, stalls |-> j.stalls]

\* A call of the run throws: any call may fail, and the update of a
\* configuration that was removed does.  The queue may have added the next job
\* all the same.
RunFail ==
  /\ worker \in {"lookup", "clone", "advance", "enqueue"}
  /\ \/ Failure
     \/ worker = "advance" /\ config = Absent /\ UNCHANGED failures
  /\ \/ jobs' = [jobs EXCEPT ![run.job] = Retry(@)]
     \/ /\ worker = "enqueue"
        /\ jobs[run.date + 1] = Absent
        /\ jobs' = [jobs EXCEPT
                      ![run.job] = Retry(@),
                      ![run.date + 1] = [state |-> "delayed", tries |-> 0, stalls |-> 0]]
  /\ Rest
  /\ UNCHANGED <<now, event, config, clones, creating, polling, crashes, edits, late>>

\* A job found stalled is taken up again, once.
Stalled(j) ==
  [state |-> IF j.stalls < MaxStalls THEN "delayed" ELSE "failed",
   tries |-> j.tries, stalls |-> MaxStalls]

\* The process stops and restarts, with its workers or, when Redis is not there or
\* they are disabled, without: the request is lost, the active job stalls.
Crash ==
  /\ crashes < MaxCrashes
  /\ crashes' = crashes + 1
  /\ creating' = IF creating = "insert" THEN "insert" ELSE "done"
  /\ jobs' = IF worker = "idle" THEN jobs ELSE [jobs EXCEPT ![run.job] = Stalled(@)]
  /\ Rest
  /\ polling' \in BOOLEAN
  /\ UNCHANGED <<now, event, config, clones, failures, edits, late>>

\* Redis refuses a worker for its command quota: all workers are paused, the run
\* in progress goes on, and nothing in the process resumes them.
Pause ==
  /\ polling
  /\ polling' = FALSE
  /\ UNCHANGED <<now, event, config, clones, jobs, creating, worker, run, failures,
                 crashes, edits, late>>

(***************************************************************************)
(* Users and time.                                                         *)
(***************************************************************************)
Edit == edits < MaxEdits /\ edits' = edits + 1

\* PATCH /events/:id with a repeatConfig: a new rule with its first date, no
\* repetition, or null.  Nothing is queued and no queued job is removed.
PatchRule(c) ==
  /\ source = "live"
  /\ Edit
  /\ config' = c
  /\ UNCHANGED <<now, event, clones, jobs, creating, polling, worker, run, failures,
                 crashes, late>>

\* DELETE /events/:id of the event or of a copy; the jobs stay.
DeleteSource ==
  /\ source = "live"
  /\ Edit
  /\ source' = "deleted"
  /\ UNCHANGED <<now, start, named, config, clones, jobs, creating, polling, worker,
                 run, failures, crashes, late>>

DeleteClone(d) ==
  /\ clones[d] > 0
  /\ Edit
  /\ clones' = [clones EXCEPT ![d] = @ - 1]
  /\ UNCHANGED <<now, event, config, jobs, creating, polling, worker, run, failures,
                 crashes, late>>

Tick ==
  /\ now < MaxNow
  /\ now' = now + 1
  /\ UNCHANGED <<event, config, clones, jobs, creating, polling, worker, run, failures,
                 crashes, edits, late>>

-----------------------------------------------------------------------------
Patches ==
  {Absent, [repeats |-> FALSE, next |-> Absent]}
    \cup [repeats : {TRUE}, next : 1..(MaxNow + 1)]

Work ==
  \/ \E d \in Date : RunLoad(d)
  \/ RunLookup \/ RunClone \/ RunAdvance \/ RunEnqueue \/ RunComplete

RepeatNext ==
  \/ \E s \in 0..MaxNow, n \in 0..(Period - 1) : CreateInsert(s, n)
  \/ CreateFollowUp
  \/ CreateEnqueue
  \/ Work
  \/ RunFail
  \/ Crash
  \/ Pause
  \/ \E c \in Patches : PatchRule(c)
  \/ DeleteSource
  \/ \E d \in Date : DeleteClone(d)
  \/ Tick

\* A worker that polls takes the jobs that are due, and the calls of a run return
\* or throw; time goes on.  Nothing makes the workers poll, and a request may be
\* lost at any moment, so nothing is assumed of them.
RepeatSpec ==
  /\ RepeatInit /\ [][RepeatNext]_repeatVars
  /\ WF_repeatVars(Work \/ RunFail) /\ WF_repeatVars(Tick)

-----------------------------------------------------------------------------
(* What the chain promises.                                                *)

\* Nobody but the chain has touched the event.
Untouched == edits = 0

\* A job was given up after its attempts.
GivenUp == \E d \in Date : jobs[d] # Absent /\ jobs[d].state = "failed"

\* The variables keep their types; the worker runs an active job, and no other
\* job is active.
RepeatTypeOK ==
  /\ now \in 0..MaxNow /\ start \in 0..MaxNow /\ named \in 0..(Period - 1)
  /\ source \in {"none", "live", "deleted"}
  /\ config \in Config \cup {Absent}
  /\ clones \in [Date -> Nat]
  /\ jobs \in [Date -> JobRow \cup {Absent}]
  /\ creating \in {"insert", "reward", "notify", "enqueue", "done"}
  /\ polling \in BOOLEAN
  /\ worker \in {"idle", "lookup", "clone", "advance", "enqueue", "complete"}
  /\ run \in [job : Date \cup {Absent}, date : Date \cup {Absent}]
  /\ failures \in 0..MaxFailures /\ crashes \in 0..MaxCrashes /\ edits \in 0..MaxEdits
  /\ late \in Nat
  /\ \A d \in Date : jobs[d] # Absent /\ jobs[d].state = "active" <=> d = run.job
  /\ worker = "idle" <=> run.job = Absent
  /\ worker \in {"lookup", "clone", "advance", "enqueue"} => run.date \in Date
  /\ worker = "enqueue" => run.date < Horizon

\* No occurrence is generated twice: whatever fails, stalls, is tried again,
\* rewound by an edit or deleted in between, there is at most one live event
\* of each name.
OncePerName ==
  \A d \in Date :
    /\ clones[d] <= 1
    /\ clones[d] = 1 =>
         /\ \A c \in Date \ {d} : Name(c) = Name(d) => clones[c] = 0
         /\ source = "live" => named # Name(d)

\* No occurrence is skipped: the stored date passes a date only when there is
\* an event of its name.
NoGap ==
  Untouched /\ config # Absent =>
    \A d \in (start + 1)..(config.next - 1) : Taken(Name(d))

\* An occurrence is generated when its date comes, and earlier only by as many
\* intervals as there were runs that did not end well.
EarlyByReruns ==
  [][\A d \in Date :
       Untouched /\ clones'[d] > clones[d] => d <= now + failures + crashes]_repeatVars

\* The deletion of the event ends its repetition: at most the copy a run was
\* about to make comes after it.
EndsWithSource == late <= 1

\* The queue never runs dry: until users intervene or a job is given up, a step from a
\* state with a job in the queue leaves one there, for no later date than the stored one.
ChainKept ==
  [][Untouched' /\ (\E d \in Date : Pending(d)) =>
       GivenUp' \/ \E d \in Date : Pending(d)' /\ d <= config'.next]_repeatVars

\* Once its first job is queued the chain passes every date that comes, through
\* failed and stalled runs, unless a job is given up, users intervene or the workers
\* stop polling for good.
ChainGoesOn ==
  \A d \in 1..MaxNow :
    (creating = "done" /\ Pending(d)) ~>
      (~Untouched \/ GivenUp \/ (config # Absent /\ config.next > MaxNow) \/ []~polling)
=============================================================================
