-------------------------- MODULE EventInvitation --------------------------
(***************************************************************************)
(* Event invitations: the rows of `event_invitations`, the requests that   *)
(* create, reopen and answer them, and the two facts they are checked      *)
(* against: whether the event can be shared, and who is connected to whom  *)
(* (module Connection).                                                    *)
(*                                                                         *)
(* A request is a Worker.  Each database call of its handler is one        *)
(* action, so the event may be closed and the connection removed between   *)
(* the check and the write.  The transaction of createInvitations runs at  *)
(* READ COMMITTED: its first read and its writes are two actions, and the  *)
(* writes, made under row locks, appear together at the commit.            *)
(***************************************************************************)
EXTENDS Integers, FiniteSets

CONSTANTS
  User,        \* user ids
  Event,       \* event ids
  Worker,      \* requests that can be in flight at the same time
  MaxRequests, \* bound: requests to send invitations that are started
  None         \* a missing row, and the job of an idle worker

VARIABLES
  inv,        \* inv[k]: the row of key k, or None
  event,      \* event[e]: "live", "closed" (not shareable now) or "deleted"
  connected,  \* unordered pairs of users with an ACCEPTED connection
  pc,         \* pc[w]: the next database call of worker w
  job,        \* job[w]: the request worker w is serving
  requests,   \* how many sends were started
  met,        \* history: pairs that have ever been connected
  wasLive,    \* history: keys whose event was live while their row existed
  due,        \* history: openings of k minus notifications sent for k
  overlapped  \* history: some request has started while another was in flight

vars == <<inv, event, connected, pc, job, requests, met, wasLive, due, overlapped>>

-----------------------------------------------------------------------------
\* @@unique([eventId, inviterId, inviteeId]) makes the triple a key.
Key ==
  {k \in [event : Event, inviter : User, invitee : User] : k.inviter # k.invitee}

\* EXPIRED is in the enum and no code writes it.  `responded` tells whether
\* respondedAt is set.
Invitation ==
  [status : {"PENDING", "ACCEPTED", "DECLINED"}, responded : BOOLEAN]

Pair == {{u, v} : u \in User, v \in User}

KeysOf(e, u, invitees) ==
  {k \in Key : k.event = e /\ k.inviter = u /\ k.invitee \in invitees}

\* A request to send: `create` and `reopen` are what the transaction has
\* sorted the keys into, `notify` the rows it returned.
SendJob ==
  [op : {"send"}, user : User, event : Event, invitees : SUBSET User,
   create : SUBSET Key, reopen : SUBSET Key, notify : SUBSET Key]

\* A request to answer one invitation.
AnswerJob == [op : {"ACCEPTED", "DECLINED"}, user : User, key : Key]

PC == {"idle", "event", "connections", "existing", "commit", "notify",
       "load", "live", "answer"}

ASSUME NoneAssumption == None \notin Invitation \cup SendJob \cup AnswerJob
ASSUME BoundAssumption == MaxRequests \in Nat

Exists(k) == inv[k] # None

\* The event may be shared: not deleted, not disabled, active and published.
Live(e) == event[e] = "live"

Goto(w, l) == pc' = [pc EXCEPT ![w] = l]
Respond(w) == Goto(w, "idle") /\ job' = [job EXCEPT ![w] = None]

\* What `overlapped` becomes when w starts a request.
Overlaps(w) == overlapped \/ \E v \in Worker \ {w} : pc[v] # "idle"

-----------------------------------------------------------------------------
Init ==
  /\ inv = [k \in Key |-> None]
  /\ event = [e \in Event |-> "live"]
  /\ connected = {}
  /\ pc = [w \in Worker |-> "idle"]
  /\ job = [w \in Worker |-> None]
  /\ requests = 0
  /\ met = {}
  /\ wasLive = {}
  /\ due = [k \in Key |-> 0]
  /\ overlapped = FALSE

(***************************************************************************)
(* The world around: events open, close and are deleted, connections are   *)
(* accepted and removed.                                                   *)
(***************************************************************************)

\* A PATCH of isActive or isPublished, or the admin's isDisabled switch.
SetEvent(e, s) ==
  /\ event[e] \notin {"deleted", s}
  /\ event' = [event EXCEPT ![e] = s]
  /\ wasLive' =
       IF s = "live" THEN wasLive \cup {k \in Key : k.event = e /\ Exists(k)}
       ELSE wasLive
  /\ UNCHANGED <<inv, connected, pc, job, requests, met, due, overlapped>>

\* Connection's accept and remove, as far as this module can see them.
Connect(u, v) ==
  /\ u # v
  /\ connected' = connected \cup {{u, v}}
  /\ met' = met \cup {{u, v}}
  /\ UNCHANGED <<inv, event, pc, job, requests, wasLive, due, overlapped>>

Disconnect(u, v) ==
  /\ {u, v} \in connected
  /\ connected' = connected \ {{u, v}}
  /\ UNCHANGED <<inv, event, pc, job, requests, met, wasLive, due, overlapped>>

(***************************************************************************)
(* POST /event-invitations: sendInvitations                                *)
(***************************************************************************)
SendStart(w, u, e, invitees) ==
  /\ pc[w] = "idle"
  /\ invitees # {}
  /\ requests < MaxRequests
  /\ requests' = requests + 1
  /\ Goto(w, "event")
  /\ job' = [job EXCEPT ![w] =
       [op |-> "send", user |-> u, event |-> e, invitees |-> invitees,
        create |-> {}, reopen |-> {}, notify |-> {}]]
  /\ overlapped' = Overlaps(w)
  /\ UNCHANGED <<inv, event, connected, met, wasLive, due>>

\* assertEventShareable, then the request that names its own sender is
\* refused without another call.
SendCheckEvent(w) ==
  /\ pc[w] = "event"
  /\ IF Live(job[w].event) /\ job[w].user \notin job[w].invitees
     THEN Goto(w, "connections") /\ UNCHANGED job
     ELSE Respond(w)
  /\ UNCHANGED <<inv, event, connected, requests, met, wasLive, due, overlapped>>

\* Mutated form: the invitees are not looked up among the connections.
SendCheckNoConnections(w) ==
  /\ pc[w] = "connections"
  /\ Goto(w, "existing")
  /\ UNCHANGED <<inv, event, connected, job, requests, met, wasLive, due, overlapped>>

\* Every invitee must be connected to the sender; one who is not fails the
\* whole request.
SendCheckConnections(w) ==
  /\ pc[w] = "connections"
  /\ IF \A v \in job[w].invitees : {job[w].user, v} \in connected
     THEN Goto(w, "existing") /\ UNCHANGED job
     ELSE Respond(w)
  /\ UNCHANGED <<inv, event, connected, requests, met, wasLive, due, overlapped>>

\* Mutated form: an accepted invitation is reopened too.
ReopensAnswered(k) == Exists(k) /\ inv[k].status # "PENDING"

\* Mutated form: whatever is neither pending nor accepted is reopened, rows
\* that do not exist included.
ReopensMissing(k) == ~(Exists(k) /\ inv[k].status \in {"PENDING", "ACCEPTED"})

\* A declined invitation may be sent again; a pending or accepted one is
\* skipped.
Reopens(k) == Exists(k) /\ inv[k].status = "DECLINED"

\* createInvitations: the first read of the transaction.
SendReadExisting(w) ==
  /\ pc[w] = "existing"
  /\ LET keys == KeysOf(job[w].event, job[w].user, job[w].invitees)
     IN  job' = [job EXCEPT ![w].create = {k \in keys : ~Exists(k)},
                            ![w].reopen = {k \in keys : Reopens(k)}]
  /\ Goto(w, "commit")
  /\ UNCHANGED <<inv, event, connected, requests, met, wasLive, due, overlapped>>

\* updateMany of the rows to reopen: by id, whatever their status is now.
Reopened(k) == [inv[k] EXCEPT !.status = "PENDING", !.responded = FALSE]

\* Mutated form: the rows to notify are all the rows the request names.
ReturnedAll(w, rows) == KeysOf(job[w].event, job[w].user, job[w].invitees)

\* The last read: the rows created or reopened that are pending.
Returned(w, rows) ==
  {k \in job[w].create \cup job[w].reopen : rows[k].status = "PENDING"}

\* The writes and the last read of the transaction.  createMany skips the
\* keys another request has inserted in the meantime.
SendCommit(w) ==
  /\ pc[w] = "commit"
  /\ LET inserted == {k \in job[w].create : ~Exists(k)}
         opened   == inserted \cup {k \in job[w].reopen : inv[k].status # "PENDING"}
         rows     == [k \in Key |->
                        IF k \in inserted
                        THEN [status |-> "PENDING", responded |-> FALSE]
                        ELSE IF k \in job[w].reopen THEN Reopened(k) ELSE inv[k]]
         notify   == Returned(w, rows)
     IN  /\ inv' = rows
         /\ due' = [k \in Key |-> due[k] + IF k \in opened THEN 1 ELSE 0]
         /\ wasLive' = wasLive \cup {k \in inserted : Live(k.event)}
         /\ IF notify = {}
            THEN Respond(w)
            ELSE Goto(w, "notify") /\ job' = [job EXCEPT ![w].notify = notify]
  /\ UNCHANGED <<event, connected, requests, met, overlapped>>

\* Promise.allSettled over createNotification: any of them may fail, and
\* the request succeeds all the same.
SendNotify(w) ==
  /\ pc[w] = "notify"
  /\ \E sent \in SUBSET job[w].notify :
       due' = [k \in Key |-> due[k] - IF k \in sent THEN 1 ELSE 0]
  /\ Respond(w)
  /\ UNCHANGED <<inv, event, connected, requests, met, wasLive, overlapped>>

(***************************************************************************)
(* PATCH /event-invitations/:id/accept and /decline                        *)
(***************************************************************************)
AnswerStart(w, u, k, s) ==
  /\ pc[w] = "idle"
  /\ Exists(k)
  /\ Goto(w, "load")
  /\ job' = [job EXCEPT ![w] = [op |-> s, user |-> u, key |-> k]]
  /\ overlapped' = Overlaps(w)
  /\ UNCHANGED <<inv, event, connected, requests, met, wasLive, due>>

\* Only the invitee may answer, and only a pending invitation.
MayAnswer(w) ==
  /\ job[w].user = job[w].key.invitee
  /\ inv[job[w].key].status = "PENDING"

\* getInvitationById and the checks on the row; declining needs no more.
AnswerLoad(w) ==
  /\ pc[w] = "load"
  /\ IF MayAnswer(w)
     THEN Goto(w, IF job[w].op = "ACCEPTED" THEN "live" ELSE "answer") /\ UNCHANGED job
     ELSE Respond(w)
  /\ UNCHANGED <<inv, event, connected, requests, met, wasLive, due, overlapped>>

\* assertEventShareable of the invitation's event.
AcceptCheckEvent(w) ==
  /\ pc[w] = "live"
  /\ IF Live(job[w].key.event)
     THEN Goto(w, "answer") /\ UNCHANGED job
     ELSE Respond(w)
  /\ UNCHANGED <<inv, event, connected, requests, met, wasLive, due, overlapped>>

\* updateInvitationStatus: an update by id.  The notification of the inviter
\* that follows an acceptance is best-effort and changes nothing here.
AnswerWrite(w) ==
  /\ pc[w] = "answer"
  /\ inv' = [inv EXCEPT ![job[w].key] = [status |-> job[w].op, responded |-> TRUE]]
  /\ Respond(w)
  /\ UNCHANGED <<event, connected, requests, met, wasLive, due, overlapped>>

(***************************************************************************)
(* PATCH /event-invitations/accept-all and /decline-all                    *)
(***************************************************************************)

\* Mutated form: the event is not looked at when everything is accepted.
BulkAnyEvent(u, s) ==
  {k \in Key : Exists(k) /\ k.invitee = u /\ inv[k].status = "PENDING"}

\* Accepting is limited to live events, declining is not.
Bulk(u, s) ==
  {k \in Key : /\ Exists(k)
               /\ k.invitee = u
               /\ inv[k].status = "PENDING"
               /\ s = "ACCEPTED" => Live(k.event)}

\* bulkUpdateReceivedPending is one updateMany, the whole request.
AnswerAll(w, u, s) ==
  /\ pc[w] = "idle"
  /\ Bulk(u, s) # {}
  /\ inv' = [k \in Key |->
               IF k \in Bulk(u, s) THEN [status |-> s, responded |-> TRUE] ELSE inv[k]]
  /\ overlapped' = Overlaps(w)
  /\ UNCHANGED <<event, connected, pc, job, requests, met, wasLive, due>>

-----------------------------------------------------------------------------
Answers == {"ACCEPTED", "DECLINED"}

Next ==
  \/ \E e \in Event, s \in {"live", "closed", "deleted"} : SetEvent(e, s)
  \/ \E u, v \in User : Connect(u, v) \/ Disconnect(u, v)
  \/ \E w \in Worker :
       \/ \E u \in User, e \in Event, vs \in SUBSET User : SendStart(w, u, e, vs)
       \/ \E u \in User, k \in Key, s \in Answers : AnswerStart(w, u, k, s)
       \/ SendCheckEvent(w)
       \/ SendCheckConnections(w)
       \/ SendReadExisting(w)
       \/ SendCommit(w)
       \/ SendNotify(w)
       \/ AnswerLoad(w)
       \/ AcceptCheckEvent(w)
       \/ AnswerWrite(w)
       \/ \E u \in User, s \in Answers : AnswerAll(w, u, s)

Spec == Init /\ [][Next]_vars

-----------------------------------------------------------------------------
(* What the component promises.                                            *)

\* The variables keep their types, a worker holds the job its step needs, and
\* the rows it is about to update by id exist.
TypeOK ==
  /\ inv \in [Key -> Invitation \cup {None}]
  /\ event \in [Event -> {"live", "closed", "deleted"}]
  /\ connected \subseteq Pair /\ met \subseteq Pair /\ wasLive \subseteq Key
  /\ pc \in [Worker -> PC]
  /\ job \in [Worker -> SendJob \cup AnswerJob \cup {None}]
  /\ requests \in 0..MaxRequests
  /\ due \in [Key -> Int]
  /\ overlapped \in BOOLEAN
  /\ \A w \in Worker :
       /\ pc[w] = "idle" <=> job[w] = None
       /\ pc[w] \in {"load", "live", "answer"} <=> job[w] \in AnswerJob
       /\ pc[w] \in {"load", "live", "answer"} => Exists(job[w].key)
       /\ pc[w] = "commit" => \A k \in job[w].reopen : Exists(k)

\* Whoever was invited had been connected to the inviter: no interleaving of
\* a removal with sendInvitations lets a stranger in.
InvitedWasConnected ==
  \A k \in Key : Exists(k) => {k.inviter, k.invitee} \in met

\* An accepted invitation is to an event that was live at some moment after
\* the invitation was created: closing and deleting the event around
\* acceptInvitation and acceptAllInvitations never yields an acceptance of an
\* event nobody could join since.
AcceptedWasLive ==
  \A k \in Key : Exists(k) /\ inv[k].status = "ACCEPTED" => k \in wasLive

\* respondedAt is set exactly on answered invitations, through every
\* interleaving of answers and reopenings.
RespondedWhenAnswered ==
  \A k \in Key : Exists(k) => (inv[k].responded <=> inv[k].status # "PENDING")

\* An accept or decline request answers the invitation it names and no other,
\* and only when it comes from the invitee.
AnsweredByInvitee ==
  [][\A k \in Key, w \in Worker :
       pc[w] = "answer" /\ pc'[w] = "idle" /\ inv'[k] # inv[k] =>
         job[w].key = k /\ job[w].user = k.invitee]_vars

\* As long as requests have not overlapped, an invitation is sent, answered
\* once, and sent again only after it was declined: an acceptance is final.
\* (Two overlapping answers end in whichever is written last.)
Lifecycle ==
  [][\A k \in Key :
       ~overlapped' /\ inv'[k] # inv[k] =>
         \/ ~Exists(k) /\ inv'[k].status = "PENDING"
         \/ Exists(k) /\ <<inv[k].status, inv'[k].status>> \in
              {<<"PENDING", "ACCEPTED">>, <<"PENDING", "DECLINED">>,
               <<"DECLINED", "PENDING">>}]_vars

\* As long as requests have not overlapped, the invitee is notified at most once
\* each time the invitation is opened, and never for one that was skipped.
NotifiedOncePerOpening == ~overlapped => \A k \in Key : due[k] >= 0

=============================================================================
