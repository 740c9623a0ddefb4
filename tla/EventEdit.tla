------------------------------ MODULE EventEdit ------------------------------
(***************************************************************************)
(* One row of the `events` table under concurrent edits: PATCH /events/:id *)
(* (EventService.updateEvent) with its version counter, edit logs, cover   *)
(* image in S3, schedule and repeat rows, verification and rollback; the   *)
(* admin's enable/disable switch; and the soft delete.                     *)
(*                                                                         *)
(* A handler is a process; every database or S3 call is one action, and    *)
(* what the handler read stays in job[w] and is used later as it was read. *)
(* A call may fail: updateEvent's catch block then removes the new cover.  *)
(***************************************************************************)
EXTENDS Naturals, Sequences

CONSTANTS
  User, Creator, Admin,  \* who may delete: the creator or an admin
  Worker,                \* requests in flight at the same time
  Content,               \* contents of the tracked text columns, as one value
  Frequency, Window,     \* repeat frequencies; schedule (pricing) windows
  Patch,                 \* the PATCH bodies clients send
  MaxRequests,           \* bounds the requests of a behaviour
  MaxFaults,             \* bounds the database and S3 calls that fail
  Outside,               \* a cover image URL outside the bucket
  None                   \* an absent value

VARIABLES
  row,       \* the event's row
  repeat,    \* its repeat_configs row, or None
  window,    \* its event_schedules row
  logs,      \* its edit_logs rows in order of creation
  objects,   \* cover images in the bucket, numbered by upload
  uploads,   \* number of uploads so far: the next image's unique name
  rewards,   \* UPDATE contribution rewards granted for it
  notices,   \* "Event verified" notifications sent to its creator
  pc, job,   \* pc[w], job[w]: next call and local state of request w
  requests, faults,
  past,      \* history: past[v] are the patched columns of version v
  overlapped, \* history: some request has started while another was in flight
  given      \* history: what the cover URLs that PATCH bodies gave were (URLKinds)

vars == <<row, repeat, window, logs, objects, uploads, rewards, notices,
          pc, job, requests, faults, past, overlapped, given>>

-----------------------------------------------------------------------------
(* Data.                                                                   *)

\* Columns of `events` an edit log tracks (EDIT_LOG_SCALAR_FIELDS).
Column == {"content", "active", "cover", "verified"}

\* isVerified is tracked too, but updateEvent takes it out of the body; the
\* verification writes it, within a version.
Patched == Column \ {"verified"}

\* A PATCH body.  None and "absent" stand for a key that is not sent; "clear"
\* for repeatConfig: null; the cover is a file to upload or an image's URL.
PatchType ==
  [content : Content \cup {None}, active : BOOLEAN \cup {None}, cover : {"absent", "file", "url"},
   repeat : Frequency \cup {"absent", "clear"}, window : Window \cup {None},
   verify : BOOLEAN]

ASSUME EventEditAssumption ==
  /\ Creator \in User /\ Admin \subseteq User
  /\ Patch \subseteq PatchType
  /\ MaxRequests \in Nat /\ MaxFaults \in Nat
  /\ None \notin Content /\ None \notin Window /\ None \notin BOOLEAN /\ None \notin Nat
  /\ None \notin Frequency
  /\ Outside \notin Nat /\ Outside # None
  /\ Frequency \cap {"absent", "clear"} = {}

Tracked(r) == [f \in Patched |-> r[f]]

NewJob(op, u, p, flag) ==
  [op |-> op, user |-> u, patch |-> p, flag |-> flag, oldCover |-> None,
   before |-> None, newCover |-> None, created |-> None,
   url |-> Outside, effect |-> {}]

Goto(w, l) == pc' = [pc EXCEPT ![w] = l]
Respond(w) == Goto(w, "idle") /\ job' = [job EXCEPT ![w] = None]

-----------------------------------------------------------------------------
(* diffEventForEditLog, evaluated on the snapshot taken before the writes. *)

InPatch(j, f) ==
  f # "verified" /\ IF f = "cover" THEN j.patch.cover # "absent" ELSE j.patch[f] # None
NewValue(j, f) ==
  IF f # "cover" THEN j.patch[f]
  ELSE IF j.newCover # None THEN j.newCover ELSE j.url

\* The stored repeat row never equals the body's JSON (it has more keys), so
\* only null on null counts as unchanged; a schedule patch always counts.
ChangedFields(j) ==
  {f \in Column : InPatch(j, f) /\ NewValue(j, f) # j.before[f]}
  \cup {f \in {"repeat"} : /\ j.patch.repeat # "absent"
                           /\ ~(j.patch.repeat = "clear" /\ j.before.repeat = None)}
  \cup {f \in {"window"} : j.patch.window # None}

\* Mutated form: the new values are logged as the previous ones.
LogOfNewValues(j) ==
  [version |-> j.before.version + 1,
   previous |-> [f \in ChangedFields(j) |->
                   IF f \in Column THEN NewValue(j, f) ELSE j.before[f]]]

LogOf(j) ==
  [version |-> j.before.version + 1,
   previous |-> [f \in ChangedFields(j) |-> j.before[f]]]

-----------------------------------------------------------------------------
(* The order of updateEvent's calls after the row is written.              *)

FromLog(j)    == IF ChangedFields(j) # {} THEN "log" ELSE "reward"
\* Mutated form: the old cover is never deleted.
FromDropNever(j) == FromLog(j)
FromDrop(j)   == IF j.newCover # None THEN "dropOld" ELSE FromLog(j)
FromVerify(j) == IF j.patch.verify THEN "verify" ELSE FromDrop(j)
FromWindow(j) == IF j.patch.window # None THEN "window" ELSE FromVerify(j)
FromRepeat(j) == IF j.patch.repeat # "absent" THEN "repeat" ELSE FromWindow(j)

\* Program counters from which an exception reaches the catch block.
TryPC == {"update", "repeat", "window", "verify", "mark", "notify", "dropOld",
          "log", "reward"}
PC == TryPC \cup {"idle", "bare", "audit", "validate", "upload", "rollback",
                  "toggleFind", "toggleWrite", "deleteLoad", "deleteWrite"}

-----------------------------------------------------------------------------
Init ==
  /\ \E c \in Content, i \in {0, Outside}, f \in Frequency \cup {None}, s \in Window :
       /\ row = [version |-> 1, content |-> c, active |-> TRUE, cover |-> i,
                 verified |-> FALSE, disabled |-> FALSE, deleted |-> FALSE]
       /\ repeat = f
       /\ window = s
  /\ logs = <<>>
  /\ objects = {row.cover} \ {Outside}
  /\ uploads = 1
  /\ rewards = 0
  /\ notices = 0
  /\ pc = [w \in Worker |-> "idle"]
  /\ job = [w \in Worker |-> None]
  /\ requests = 0
  /\ faults = 0
  /\ past = <<Tracked(row)>>
  /\ overlapped = FALSE
  /\ given = {}

Start(w, l) ==
  /\ pc[w] = "idle"
  /\ requests < MaxRequests
  /\ requests' = requests + 1
  /\ overlapped' = (overlapped \/ \E v \in Worker \ {w} : pc[v] # "idle")
  /\ Goto(w, l)
  /\ UNCHANGED <<row, repeat, window, logs, objects, uploads, rewards, notices, faults, past, given>>

(***************************************************************************)
(* PATCH /events/:id                                                       *)
(***************************************************************************)

\* The body's coverImage is any URL: one outside the bucket, or that of an image
\* which the event shows or has shown.
Known == {Outside} \cup {past[v].cover : v \in 1..Len(past)}

PatchStart(w, p, i) ==
  /\ p.cover # "url" => i = Outside
  /\ Start(w, "bare")
  /\ job' = [job EXCEPT ![w] = [NewJob("patch", None, p, None) EXCEPT !.url = i]]

tables == <<row, repeat, window, logs, objects, uploads, rewards, notices>>

\* getEventBare: the cover to delete later is the one read here.
PatchLoad(w) ==
  /\ pc[w] = "bare"
  /\ \/ row.deleted /\ Respond(w)                                      \* 404
     \/ ~row.deleted /\ Goto(w, "audit") /\ job' = [job EXCEPT ![w].oldCover = row.cover]
  /\ UNCHANGED <<tables, requests, faults, past, overlapped, given>>

\* getEventAuditSnapshot: the values the edit log will call previous.
PatchSnapshot(w) ==
  /\ pc[w] = "audit"
  /\ \/ row.deleted /\ Respond(w)                                      \* 404
     \/ /\ ~row.deleted
        /\ Goto(w, "validate")
        /\ job' = [job EXCEPT ![w].before =
             [version |-> row.version, content |-> row.content, active |-> row.active,
              cover |-> row.cover, repeat |-> repeat, window |-> window]]
  /\ UNCHANGED <<tables, requests, faults, past, overlapped, given>>

\* The name is immutable, the program and session must exist: any of these
\* checks may refuse the body.
PatchValidate(w) ==
  /\ pc[w] = "validate"
  /\ \/ Respond(w)
     \/ Goto(w, IF job[w].patch.cover = "file" THEN "upload" ELSE "update") /\ UNCHANGED job
  /\ UNCHANGED <<tables, requests, faults, past, overlapped, given>>

PatchUpload(w) ==
  /\ pc[w] = "upload"
  /\ objects' = objects \cup {uploads}
  /\ uploads' = uploads + 1
  /\ job' = [job EXCEPT ![w].newCover = uploads]
  /\ Goto(w, "update")
  /\ UNCHANGED <<row, repeat, window, logs, rewards, notices, requests, faults, past, overlapped, given>>

\* What the URL that j is about to write is: another image than the row has; an
\* image that is deleted, or will be by an edit that has already replaced it.
Doomed(i) ==
  \E v \in Worker : /\ pc[v] \in {"repeat", "window", "verify", "mark", "notify", "dropOld"}
                     /\ job[v].newCover # None /\ job[v].oldCover = i
URLKinds(j) ==
  IF j.patch.cover # "url" THEN {}
  ELSE {k \in {"other"} : j.url # row.cover}
       \cup {k \in {"gone"} : j.url # Outside /\ (j.url \notin objects \/ Doomed(j.url))}

\* Mutated form: the new version is computed from the snapshot.
PatchUpdateFromSnapshot(w) ==
  /\ pc[w] = "update"
  /\ LET j == job[w]
         new == [row EXCEPT
                   !.version = j.before.version + 1,
                   !.content = IF InPatch(j, "content") THEN NewValue(j, "content") ELSE @,
                   !.active  = IF InPatch(j, "active") THEN NewValue(j, "active") ELSE @,
                   !.cover   = IF InPatch(j, "cover") THEN NewValue(j, "cover") ELSE @]
     IN  /\ row' = new
         /\ past' = Append(past, Tracked(new))
         /\ given' = given \cup URLKinds(j)
         /\ job' = [job EXCEPT ![w].created = new.version,
                               ![w].effect = {f \in Column : new[f] # row[f]}]
         /\ Goto(w, FromRepeat(j))
  /\ UNCHANGED <<repeat, window, logs, objects, uploads, rewards, notices, requests, faults, overlapped>>

\* updateEventById: columns of the body, version incremented by the database,
\* no condition on the version or on deletedAt.
PatchUpdate(w) ==
  /\ pc[w] = "update"
  /\ LET j == job[w]
         new == [row EXCEPT
                   !.version = @ + 1,
                   !.content = IF InPatch(j, "content") THEN NewValue(j, "content") ELSE @,
                   !.active  = IF InPatch(j, "active") THEN NewValue(j, "active") ELSE @,
                   !.cover   = IF InPatch(j, "cover") THEN NewValue(j, "cover") ELSE @]
     IN  /\ row' = new
         /\ past' = Append(past, Tracked(new))
         /\ given' = given \cup URLKinds(j)
         /\ job' = [job EXCEPT ![w].created = new.version,
                               ![w].effect = {f \in Column : new[f] # row[f]}]
         /\ Goto(w, FromRepeat(j))
  /\ UNCHANGED <<repeat, window, logs, objects, uploads, rewards, notices, requests, faults, overlapped>>

\* Mutated form: repeatConfig: null is stored instead of deleting the row.
PatchRepeatStoresNull(w) ==
  /\ pc[w] = "repeat"
  /\ repeat' = job[w].patch.repeat
  /\ Goto(w, FromWindow(job[w]))
  /\ UNCHANGED <<row, window, logs, objects, uploads, rewards, notices,
                 job, requests, faults, past, overlapped, given>>

\* deleteRepeatConfigByEventId or upsertRepeatConfig.
PatchRepeat(w) ==
  /\ pc[w] = "repeat"
  /\ repeat' = IF job[w].patch.repeat = "clear" THEN None ELSE job[w].patch.repeat
  /\ Goto(w, FromWindow(job[w]))
  /\ UNCHANGED <<row, window, logs, objects, uploads, rewards, notices,
                 job, requests, faults, past, overlapped, given>>

\* updateCurrentScheduleForEvent; every event has its schedule row.
PatchWindow(w) ==
  /\ pc[w] = "window"
  /\ window' = job[w].patch.window
  /\ Goto(w, FromVerify(job[w]))
  /\ UNCHANGED <<row, repeat, logs, objects, uploads, rewards, notices,
                 job, requests, faults, past, overlapped, given>>

\* markEventVerifiedForPatch reads, then writes; a deleted event makes
\* updateEvent throw inside its try block.
PatchVerify(w) ==
  /\ pc[w] = "verify"
  /\ \/ row.deleted /\ Goto(w, "rollback")
     \/ ~row.deleted /\ row.verified /\ Goto(w, "notify")
     \/ ~row.deleted /\ ~row.verified /\ Goto(w, "mark")
  /\ UNCHANGED <<tables, job, requests, faults, past, overlapped, given>>

PatchMark(w) ==
  /\ pc[w] = "mark"
  /\ row' = [row EXCEPT !.verified = TRUE]
  /\ job' = [job EXCEPT ![w].effect = @ \cup {"verified"}]
  /\ Goto(w, "notify")
  /\ UNCHANGED <<repeat, window, logs, objects, uploads, rewards, notices,
                 requests, faults, past, overlapped, given>>

PatchNotify(w) ==
  /\ pc[w] = "notify"
  /\ notices' = notices + 1
  /\ Goto(w, FromDrop(job[w]))
  /\ UNCHANGED <<row, repeat, window, logs, objects, uploads, rewards,
                 job, requests, faults, past, overlapped, given>>

\* Mutated form: the cover is read again from the row before it is deleted.
PatchDropCurrentCover(w) ==
  /\ pc[w] = "dropOld"
  /\ objects' = objects \ {row.cover}
  /\ Goto(w, FromLog(job[w]))
  /\ UNCHANGED <<row, repeat, window, logs, uploads, rewards, notices,
                 job, requests, faults, past, overlapped, given>>

PatchDropOldCover(w) ==
  /\ pc[w] = "dropOld"
  /\ objects' = objects \ {job[w].oldCover}
  /\ Goto(w, FromLog(job[w]))
  /\ UNCHANGED <<row, repeat, window, logs, uploads, rewards, notices,
                 job, requests, faults, past, overlapped, given>>

PatchLog(w) ==
  /\ pc[w] = "log"
  /\ logs' = Append(logs, LogOf(job[w]))
  /\ Goto(w, "reward")
  /\ UNCHANGED <<row, repeat, window, objects, uploads, rewards, notices,
                 job, requests, faults, past, overlapped, given>>

PatchReward(w) ==
  /\ pc[w] = "reward"
  /\ rewards' = rewards + 1
  /\ Respond(w)                                                        \* 200
  /\ UNCHANGED <<row, repeat, window, logs, objects, uploads, notices,
                 requests, faults, past, overlapped, given>>

\* The catch block deletes the cover this request uploaded, if any.
PatchRollback(w) ==
  /\ pc[w] = "rollback"
  /\ objects' = objects \ {job[w].newCover}
  /\ Respond(w)
  /\ UNCHANGED <<row, repeat, window, logs, uploads, rewards, notices,
                 requests, faults, past, overlapped, given>>

(***************************************************************************)
(* PATCH /events/:id/disabled (admin) and DELETE /events/:id.              *)
(***************************************************************************)

ToggleStart(w, u, b) ==
  /\ u \in Admin
  /\ Start(w, "toggleFind")
  /\ job' = [job EXCEPT ![w] = NewJob("toggle", None, None, b)]

ToggleFind(w) ==
  /\ pc[w] = "toggleFind"
  /\ \/ row.deleted /\ Respond(w)
     \/ ~row.deleted /\ Goto(w, "toggleWrite") /\ UNCHANGED job
  /\ UNCHANGED <<tables, requests, faults, past, overlapped, given>>

ToggleWrite(w) ==
  /\ pc[w] = "toggleWrite"
  /\ row' = [row EXCEPT !.disabled = job[w].flag, !.version = @ + 1]
  /\ past' = Append(past, Tracked(row))
  /\ Respond(w)
  /\ UNCHANGED <<repeat, window, logs, objects, uploads, rewards, notices, requests, faults,
                 overlapped, given>>

DeleteStart(w, u) ==
  /\ Start(w, "deleteLoad")
  /\ job' = [job EXCEPT ![w] = NewJob("delete", u, None, None)]

DeleteLoad(w) ==
  /\ pc[w] = "deleteLoad"
  /\ LET ok == ~row.deleted /\ job[w].user \in {Creator} \cup Admin
     IN  \/ ok /\ Goto(w, "deleteWrite") /\ UNCHANGED job
         \/ ~ok /\ Respond(w)
  /\ UNCHANGED <<tables, requests, faults, past, overlapped, given>>

DeleteWrite(w) ==
  /\ pc[w] = "deleteWrite"
  /\ row' = [row EXCEPT !.deleted = TRUE, !.active = FALSE]
  /\ Respond(w)
  /\ UNCHANGED <<repeat, window, logs, objects, uploads, rewards, notices,
                 requests, faults, past, overlapped, given>>

(***************************************************************************)
(* A database or S3 call rejects and has no effect.                        *)
(***************************************************************************)
Fault(w) ==
  /\ pc[w] # "idle"
  /\ faults < MaxFaults
  /\ faults' = faults + 1
  /\ IF pc[w] \in TryPC /\ job[w].newCover # None
     THEN Goto(w, "rollback") /\ UNCHANGED job
     ELSE Respond(w)
  /\ UNCHANGED <<tables, requests, past, overlapped, given>>

-----------------------------------------------------------------------------
Next ==
  \E w \in Worker :
    \/ \E p \in Patch, i \in Known : PatchStart(w, p, i)
    \/ PatchLoad(w)
    \/ PatchSnapshot(w)
    \/ PatchValidate(w)
    \/ PatchUpload(w)
    \/ PatchUpdate(w)
    \/ PatchRepeat(w)
    \/ PatchWindow(w)
    \/ PatchVerify(w)
    \/ PatchMark(w)
    \/ PatchNotify(w)
    \/ PatchDropOldCover(w)
    \/ PatchLog(w)
    \/ PatchReward(w)
    \/ PatchRollback(w)
    \/ \E u \in User, b \in BOOLEAN : ToggleStart(w, u, b)
    \/ ToggleFind(w)
    \/ ToggleWrite(w)
    \/ \E u \in User : DeleteStart(w, u)
    \/ DeleteLoad(w)
    \/ DeleteWrite(w)
    \/ Fault(w)

Spec == Init /\ [][Next]_vars

-----------------------------------------------------------------------------
(* Properties.                                                             *)

TypeOK ==
  /\ row \in [version : Nat, content : Content, active : BOOLEAN, cover : Nat \cup {Outside},
              verified : BOOLEAN, disabled : BOOLEAN, deleted : BOOLEAN]
  /\ repeat \in Frequency \cup {None}
  /\ window \in Window
  /\ objects \subseteq Nat
  /\ uploads \in Nat /\ rewards \in Nat /\ notices \in Nat
  /\ requests \in Nat /\ faults \in Nat /\ overlapped \in BOOLEAN
  /\ given \subseteq {"other", "gone"}
  /\ pc \in [Worker -> PC]
  /\ DOMAIN job = Worker

\* Every edit log, every UPDATE reward and every notice of a verification is backed
\* by an increment of the version of its own, and the notices by the verified flag:
\* overlapping and failing edits never log, pay or announce twice.
OneLogAndRewardPerWrite ==
  /\ Len(logs) < row.version /\ rewards < row.version
  /\ notices < row.version /\ (notices > 0 => row.verified)

\* As long as no call has failed, a live event's cover image is in the bucket,
\* although each edit deletes the cover that was current when it started: the one
\* exception is a body that gave the URL of an image already deleted or, by an
\* edit that has replaced it, about to be.  (A verification that finds the event
\* deleted throws after the row is written, and the rollback removes the new cover
\* of the deleted event.)
NoDanglingCover ==
  faults = 0 /\ ~row.deleted /\ "gone" \notin given => row.cover \in objects \cup {Outside}

\* With no failed call, no overlap and nothing in flight, no other image is left
\* behind, as long as covers are replaced by uploads: an edit that names the URL of
\* another image deletes none.  (Two overlapping uploads leave one behind.)
NoOrphanCover ==
  faults = 0 /\ ~overlapped /\ (\A w \in Worker : pc[w] = "idle") /\ "other" \notin given
    => objects \subseteq {row.cover}

\* An edit log's version has the new values and the version before it the
\* previous ones.
LogFaithful ==
  \A i \in 1..Len(logs) : \A f \in Patched \cap DOMAIN logs[i].previous :
    /\ past[logs[i].version - 1][f] = logs[i].previous[f]
    /\ past[logs[i].version][f] # logs[i].previous[f]

\* "One EditLog row per successful PATCH when at least one tracked field
\* actually changed": such a PATCH does not reach its 200 without one, unless the
\* field is isVerified, whose change is never logged.
ChangeIsLogged ==
  \A w \in Worker :
    pc[w] = "reward" /\ job[w].effect \ {"verified"} # {} => ChangedFields(job[w]) # {}

\* As long as edits have not overlapped, the history of the tracked fields except
\* isVerified can be read back from the edit logs: none is missing and none is
\* false, failed calls included.  (An overlapping edit logs what was true when it
\* started.)
LogsTellHistory == ~overlapped => LogFaithful /\ ChangeIsLogged

=============================================================================
