------------------------- MODULE EventApplication -------------------------
(***************************************************************************)
(* Applications to events: the rows of `event_applieds`, the two requests  *)
(* that write them, and the contribution points they earn.                 *)
(*                                                                         *)
(* createEventApplication inserts the row, adds the points and notifies    *)
(* the creator in three calls without a transaction; a failure or a stop   *)
(* of the process between them keeps what was already done.  Each call is  *)
(* one action of a Worker.                                                 *)
(***************************************************************************)
EXTENDS Integers, FiniteSets

CONSTANTS
  User,    \* user ids
  Event,   \* event ids
  Worker,  \* requests that can be in flight at the same time
  MaxCrashes,  \* bound: how often the process stops and restarts
  None     \* the job of an idle worker

VARIABLES
  row,      \* row[k]: "none", "applied" or "withdrawn" (deletedAt set)
  event,    \* event[e]: "open", "disabled" or "deleted"
  creator,  \* creator[e]: the user who created event e
  live,     \* users whose status is not DELETED
  score,    \* score[u]: the points of u's applications in contributionScore
  notices,  \* notices[k]: notifications of the creator about application k
  pc, job,  \* the next database call and the request of each worker
  crashes,  \* how often the process stopped
  lost,     \* history: applications of u whose points were never added
  wasOpen   \* history: events that have ever been open

vars == <<row, event, creator, live, score, notices, pc, job, crashes, lost, wasOpen>>

-----------------------------------------------------------------------------
\* @@unique([userId, eventId]) counts withdrawn rows too.
Key == User \X Event

Job == [op : {"apply", "withdraw"}, user : User, key : Key]

PC == {"idle", "event", "insert", "reward", "notify", "load", "withdraw"}

ASSUME NoneAssumption == None \notin Job
ASSUME BoundAssumption == MaxCrashes \in Nat
ASSUME FiniteAssumption == IsFiniteSet(Event) /\ IsFiniteSet(Worker)

\* EVENT_CONTRIBUTION_SCORE.APPLY
ApplyPoints == 3

RowsOf(u) == {e \in Event : row[<<u, e>>] # "none"}

Goto(w, l) == pc' = [pc EXCEPT ![w] = l]
Respond(w) == Goto(w, "idle") /\ job' = [job EXCEPT ![w] = None]

-----------------------------------------------------------------------------
Init ==
  /\ row = [k \in Key |-> "none"]
  /\ event \in [Event -> {"open", "disabled"}]
  /\ creator \in [Event -> User]
  /\ live = User
  /\ score = [u \in User |-> 0]
  /\ notices = [k \in Key |-> 0]
  /\ pc = [w \in Worker |-> "idle"]
  /\ job = [w \in Worker |-> None]
  /\ crashes = 0
  /\ lost = [u \in User |-> 0]
  /\ wasOpen = {e \in Event : event[e] = "open"}

(***************************************************************************)
(* POST /event-applications                                                *)
(***************************************************************************)
ApplyStart(w, u, e) ==
  /\ pc[w] = "idle"
  /\ u \in live
  /\ Goto(w, "event")
  /\ job' = [job EXCEPT ![w] = [op |-> "apply", user |-> u, key |-> <<u, e>>]]
  /\ UNCHANGED <<crashes, row, event, creator, live, score, notices, lost, wasOpen>>

\* Mutated form: a disabled event takes applications.
ApplyLoadAny(w) ==
  /\ pc[w] = "event"
  /\ IF event[job[w].key[2]] # "deleted"
     THEN Goto(w, "insert") /\ UNCHANGED job
     ELSE Respond(w)
  /\ UNCHANGED <<crashes, row, event, creator, live, score, notices, lost, wasOpen>>

\* getEventBare: a deleted event is 404, a disabled one 403.
ApplyLoadEvent(w) ==
  /\ pc[w] = "event"
  /\ IF event[job[w].key[2]] = "open"
     THEN Goto(w, "insert") /\ UNCHANGED job
     ELSE Respond(w)
  /\ UNCHANGED <<crashes, row, event, creator, live, score, notices, lost, wasOpen>>

\* Mutated form: a withdrawn row is revived, as an upsert would.
ApplyInsertRevives(w) ==
  /\ pc[w] = "insert"
  /\ IF row[job[w].key] # "applied"
     THEN /\ row' = [row EXCEPT ![job[w].key] = "applied"]
          /\ Goto(w, "reward")
          /\ UNCHANGED job
     ELSE Respond(w) /\ UNCHANGED row
  /\ UNCHANGED <<crashes, event, creator, live, score, notices, lost, wasOpen>>

\* The insert; the unique index refuses a second row, answered 409.
ApplyInsert(w) ==
  /\ pc[w] = "insert"
  /\ IF row[job[w].key] = "none"
     THEN /\ row' = [row EXCEPT ![job[w].key] = "applied"]
          /\ Goto(w, "reward")
          /\ UNCHANGED job
     ELSE Respond(w) /\ UNCHANGED row
  /\ UNCHANGED <<crashes, event, creator, live, score, notices, lost, wasOpen>>

\* Mutated form: the creator is told of its own application.
NotifiesAlways(k) == TRUE

\* Only the application of somebody else is announced to the creator.
Notifies(k) == creator[k[2]] # k[1]

\* incrementContributionScore is one atomic increment of a user who is not
\* deleted; for a deleted user the update throws and the request fails, its
\* row kept.
ApplyReward(w) ==
  /\ pc[w] = "reward"
  /\ LET k == job[w].key
         u == k[1]
     IN  \/ /\ u \in live
            /\ score' = [score EXCEPT ![u] = @ + ApplyPoints]
            /\ IF Notifies(k) THEN Goto(w, "notify") /\ UNCHANGED job ELSE Respond(w)
            /\ UNCHANGED lost
         \/ /\ u \notin live
            /\ lost' = [lost EXCEPT ![u] = @ + 1]
            /\ Respond(w)
            /\ UNCHANGED score
  /\ UNCHANGED <<crashes, row, event, creator, live, notices, wasOpen>>

\* createNotification; when it throws, the request fails with everything
\* before it done.
ApplyNotify(w) ==
  /\ pc[w] = "notify"
  /\ \/ notices' = [notices EXCEPT ![job[w].key] = @ + 1]
     \/ UNCHANGED notices
  /\ Respond(w)
  /\ UNCHANGED <<crashes, row, event, creator, live, score, lost, wasOpen>>

(***************************************************************************)
(* DELETE /event-applications/:appliedId                                   *)
(***************************************************************************)
WithdrawStart(w, u, k) ==
  /\ pc[w] = "idle"
  /\ u \in live
  /\ row[k] # "none"
  /\ Goto(w, "load")
  /\ job' = [job EXCEPT ![w] = [op |-> "withdraw", user |-> u, key |-> k]]
  /\ UNCHANGED <<crashes, row, event, creator, live, score, notices, lost, wasOpen>>

\* A withdrawn row is 404, the row of somebody else 403.
MayWithdraw(w) ==
  /\ row[job[w].key] = "applied"
  /\ job[w].key[1] = job[w].user

WithdrawLoad(w) ==
  /\ pc[w] = "load"
  /\ IF MayWithdraw(w) THEN Goto(w, "withdraw") /\ UNCHANGED job ELSE Respond(w)
  /\ UNCHANGED <<crashes, row, event, creator, live, score, notices, lost, wasOpen>>

\* The update sets deletedAt; the row, and with it the unique key, stays.
WithdrawWrite(w) ==
  /\ pc[w] = "withdraw"
  /\ row' = [row EXCEPT ![job[w].key] = "withdrawn"]
  /\ Respond(w)
  /\ UNCHANGED <<crashes, event, creator, live, score, notices, lost, wasOpen>>

(***************************************************************************)
(* The world around.                                                       *)
(***************************************************************************)

\* setEventDisabledByAdmin and deleteEvent.
SetEvent(e, s) ==
  /\ event[e] \notin {"deleted", s}
  /\ event' = [event EXCEPT ![e] = s]
  /\ wasOpen' = IF s = "open" THEN wasOpen \cup {e} ELSE wasOpen
  /\ UNCHANGED <<crashes, row, creator, live, score, notices, pc, job, lost>>

\* The soft delete of a user; its rows stay.
DeleteUser(u) ==
  /\ live' = live \ {u}
  /\ UNCHANGED <<crashes, row, event, creator, score, notices, pc, job, lost, wasOpen>>

Rewarding(u) == {w \in Worker : pc[w] = "reward" /\ job[w].key[1] = u}

\* The process stops and restarts: requests in flight are gone, and nothing
\* resumes them.
Crash ==
  /\ crashes < MaxCrashes
  /\ crashes' = crashes + 1
  /\ pc' = [w \in Worker |-> "idle"]
  /\ job' = [w \in Worker |-> None]
  /\ lost' = [u \in User |-> lost[u] + Cardinality(Rewarding(u))]
  /\ UNCHANGED <<row, event, creator, live, score, notices, wasOpen>>

-----------------------------------------------------------------------------
Next ==
  \/ \E w \in Worker :
       \/ \E u \in User, e \in Event : ApplyStart(w, u, e)
       \/ \E u \in User, k \in Key : WithdrawStart(w, u, k)
       \/ ApplyLoadEvent(w)
       \/ ApplyInsert(w)
       \/ ApplyReward(w)
       \/ ApplyNotify(w)
       \/ WithdrawLoad(w)
       \/ WithdrawWrite(w)
  \/ \E e \in Event, s \in {"open", "disabled", "deleted"} : SetEvent(e, s)
  \/ \E u \in User : DeleteUser(u)
  \/ Crash

Spec == Init /\ [][Next]_vars

-----------------------------------------------------------------------------
(* What the component promises.                                            *)

\* The variables keep their types, a worker holds the job its step needs, and
\* the row it rewards, announces or withdraws exists.
TypeOK ==
  /\ row \in [Key -> {"none", "applied", "withdrawn"}]
  /\ event \in [Event -> {"open", "disabled", "deleted"}]
  /\ creator \in [Event -> User]
  /\ crashes \in 0..MaxCrashes
  /\ live \subseteq User /\ wasOpen \subseteq Event
  /\ score \in [User -> Nat] /\ lost \in [User -> Nat] /\ notices \in [Key -> Nat]
  /\ pc \in [Worker -> PC]
  /\ job \in [Worker -> Job \cup {None}]
  /\ \A w \in Worker :
       /\ pc[w] = "idle" <=> job[w] = None
       /\ pc[w] \in {"reward", "notify", "withdraw"} => row[job[w].key] # "none"

\* What a request has checked or done before it is at a step still holds
\* there: the event it applies to was open, the row it rewards or announces
\* has had no notice and is in no other hands, the row it withdraws is its own.
InFlight ==
  /\ \A w \in Worker :
       /\ pc[w] = "insert" => job[w].key[2] \in wasOpen
       /\ pc[w] \in {"reward", "notify"} => notices[job[w].key] = 0
       /\ pc[w] = "notify" => Notifies(job[w].key)
       /\ pc[w] = "withdraw" => job[w].key[1] = job[w].user
  /\ \A v, w \in Worker :
       /\ v # w
       /\ pc[v] \in {"reward", "notify"}
       /\ pc[w] \in {"reward", "notify"}
       => job[v].key # job[w].key
  /\ \A e \in Event : event[e] = "open" => e \in wasOpen

\* Each application earns its points once and only once, whatever is
\* withdrawn, sent again, raced or lost on the way: the score, the points
\* still to be added by a request in flight and the points lost to a failure
\* add up to the rows of the user.
ScoreCountsApplications ==
  \A u \in User :
    score[u] + ApplyPoints * (Cardinality(Rewarding(u)) + lost[u])
      = ApplyPoints * Cardinality(RowsOf(u))

\* The creator is notified at most once of each application, never of its
\* own, and never of one that was not saved.
OneNoticePerApplication ==
  \A k \in Key :
    notices[k] <= IF creator[k[2]] # k[1] /\ row[k] # "none" THEN 1 ELSE 0

\* Whoever applied, applied to an event that was open once, even when the
\* admin's switch races with the insert.
AppliedWasOpen == \A k \in Key : row[k] # "none" => k[2] \in wasOpen

\* An application is withdrawn only by a request of the user who made it, and
\* a withdrawn one never comes back.
WithdrawnByOwner ==
  [][\A k \in Key :
       row'[k] # row[k] /\ row[k] # "none" =>
         /\ row[k] = "applied" /\ row'[k] = "withdrawn"
         /\ \E w \in Worker : /\ pc[w] = "withdraw"
                              /\ job[w].key = k /\ job[w].user = k[1]]_vars

=============================================================================
