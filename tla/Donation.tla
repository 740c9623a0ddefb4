------------------------------ MODULE Donation ------------------------------
(***************************************************************************)
(* One payment and its `donation_transactions` rows: the donor's POST that *)
(* records the transaction, and the provider's webhooks about it, which    *)
(* arrive at least once, in any order and possibly at the same time.  Both *)
(* notify through module Notification.                                     *)
(*                                                                         *)
(* The provider is external.  It delivers an event until it is answered    *)
(* with 200, and may deliver it again.                                     *)
(***************************************************************************)
EXTENDS Notification

CONSTANTS
  Donor,         \* users who claim the transaction
  Admin,         \* the active admin, or None
  MaxEvents,     \* bound: events of the provider about the payment
  MaxCreates,    \* bound: POST requests
  MaxDuplicates  \* bound: deliveries of an event that needs none

VARIABLES
  provider,    \* "Stripe" or "Store" (Apple and Google are handled alike)
  rows,        \* rows of the transaction in order of creation
  events,      \* what the provider has announced, in order
  acked,       \* the events answered with 200
  pc, job,     \* pc[w], job[w]: next call and local state of request w
  creates, duplicates, crashes,
  applied,     \* history: kinds of event that were written to the rows
  overlapped   \* history: some request has started while another was in flight

donationVars == <<provider, rows, events, acked, pc, job, creates, duplicates, crashes,
                  applied, overlapped>>
vars == <<noteVars, donationVars>>

Status == {"Pending", "Succeeded", "Failed", "Refunded"}
Row == [user : Donor, status : Status, verified : BOOLEAN]

\* "other" is any event about the transaction that none of the code's tests
\* recognises.  `known` tells whether the transaction had a row by then.
Kind == {"paid", "failed", "refunded", "other"}
Event == [kind : Kind, known : BOOLEAN]

\* A request: the POST of a donor, or the delivery of event number `event`.
\* `matched`, `verified` and `count` are what it read, `note` the row it notifies with.
Job == [op : {"create", "webhook"}, user : Donor \cup {None}, event : Nat, matched : Nat,
        verified : BOOLEAN, note : Nat, count : Nat]

PC == {"idle", "find", "insert", "match", "update", "row", "queue", "count", "emit"}

ASSUME DonationAssumption ==
  /\ Donor \subseteq User /\ Admin \in User \cup {None}
  /\ MaxEvents \in Nat /\ MaxCreates \in Nat /\ MaxDuplicates \in Nat
  /\ None \notin User /\ None \notin Job /\ None \notin Status

Goto(w, l) == pc' = [pc EXCEPT ![w] = l]
Respond(w) == Goto(w, "idle") /\ job' = [job EXCEPT ![w] = None]

Init ==
  /\ NoteInit
  /\ provider \in {"Stripe", "Store"}
  /\ rows = <<>> /\ events = <<>> /\ acked = {}
  /\ pc = [w \in Worker |-> "idle"] /\ job = [w \in Worker |-> None]
  /\ creates = 0 /\ duplicates = 0 /\ crashes = 0
  /\ applied = {}
  /\ overlapped = FALSE

\* What both kinds of request do when they start.
Start(w, l) ==
  /\ pc[w] = "idle"
  /\ Goto(w, l)
  /\ overlapped' = (overlapped \/ \E v \in Worker \ {w} : pc[v] # "idle")
  /\ UNCHANGED <<noteVars, provider, rows, events, acked, crashes, applied>>

unchanged == <<provider, events, creates, duplicates, crashes, overlapped>>

(***************************************************************************)
(* POST /donations: createDonation.  Its schema demands a transaction id.  *)
(***************************************************************************)
CreateStart(w, u) ==
  /\ creates < MaxCreates /\ creates' = creates + 1
  /\ Start(w, "find")
  /\ job' = [job EXCEPT ![w] = [op |-> "create", user |-> u, event |-> 0, matched |-> 0,
                                verified |-> FALSE, note |-> 0, count |-> 0]]
  /\ UNCHANGED duplicates

\* A row of another user is a 409, the user's own is the answer.
CreateFind(w) ==
  /\ pc[w] = "find"
  /\ IF rows # <<>> THEN Respond(w) ELSE Goto(w, "insert") /\ UNCHANGED job
  /\ UNCHANGED <<noteVars, unchanged, rows, acked, applied>>

\* No unique index covers the transaction id, so the insert never conflicts
\* and the branch for P2002 is never taken.  notifyAdmins follows.
CreateInsert(w) ==
  /\ pc[w] = "insert"
  /\ rows' = Append(rows, [user |-> job[w].user, status |-> "Pending", verified |-> FALSE])
  /\ IF Admin = None THEN Respond(w) ELSE Goto(w, "row") /\ UNCHANGED job
  /\ UNCHANGED <<noteVars, unchanged, acked, applied>>

(***************************************************************************)
(* The three webhooks.                                                     *)
(***************************************************************************)
InFlight(k) == \E v \in Worker : job[v] # None /\ job[v].op = "webhook" /\ job[v].event = k

\* Delivered until it is acknowledged, and up to MaxDuplicates times more.
WebhookStart(w, k) ==
  /\ k \in 1..Len(events)
  /\ IF k \in acked \/ InFlight(k)
     THEN duplicates < MaxDuplicates /\ duplicates' = duplicates + 1
     ELSE UNCHANGED duplicates
  /\ Start(w, "match")
  /\ job' = [job EXCEPT ![w] = [op |-> "webhook", user |-> None, event |-> k, matched |-> 0,
                                verified |-> FALSE, note |-> 0, count |-> 0]]
  /\ UNCHANGED creates

\* Stripe's other events are ignored; for a store everything that does not
\* speak of a failure or a refund counts as a success.
NextStatus(kind) ==
  IF kind = "failed" THEN "Failed"
  ELSE IF kind = "refunded" THEN "Refunded"
  ELSE IF kind = "paid" \/ provider = "Store" THEN "Succeeded"
  ELSE None

Answer200(w) == acked' = acked \cup {job[w].event} /\ Respond(w)

\* findFirst without an order: any row of the transaction.
WebhookMatch(w) ==
  /\ pc[w] = "match"
  /\ \/ /\ rows = <<>> \/ NextStatus(events[job[w].event].kind) = None
        /\ Answer200(w)
     \/ /\ NextStatus(events[job[w].event].kind) # None
        /\ \E i \in 1..Len(rows) :
             job' = [job EXCEPT ![w].matched = i, ![w].verified = rows[i].verified]
        /\ Goto(w, "update") /\ UNCHANGED acked
  /\ UNCHANGED <<noteVars, unchanged, rows, applied>>

\* Mutated form: the date is kept for a success only.
VerifiedAfterSuccessOnly(w, status) == status = "Succeeded"

\* verifiedAt is set by a success and otherwise what was read with the row.
Verified(w, status) == status = "Succeeded" \/ job[w].verified

\* updateByProviderAndTransactionId writes every row of the transaction.
WebhookUpdate(w) ==
  /\ pc[w] = "update"
  /\ LET status == NextStatus(events[job[w].event].kind)
     IN  /\ rows' = [i \in 1..Len(rows) |->
                       [user |-> rows[i].user, status |-> status, verified |-> Verified(w, status)]]
         /\ applied' = applied \cup {status}
         /\ IF status = "Succeeded"
            THEN Goto(w, "row") /\ UNCHANGED <<job, acked>>
            ELSE Answer200(w)
  /\ UNCHANGED <<noteVars, unchanged>>

(***************************************************************************)
(* createNotification, for the admin after a POST and for the donor after  *)
(* a success.                                                              *)
(***************************************************************************)
Recipient(w) == IF job[w].op = "create" THEN Admin ELSE rows[job[w].matched].user

NotifyRow(w) ==
  /\ pc[w] = "row"
  /\ InsertNote(Recipient(w), job[w].event, TRUE)
  /\ job' = [job EXCEPT ![w].note = Len(notes) + 1]
  /\ Goto(w, "queue")
  /\ UNCHANGED <<queueVars, token, dead, mark, badgeVars, faults, unchanged, rows, acked,
                 applied>>

NotifyQueue(w) ==
  /\ pc[w] = "queue"
  /\ Enqueue(job[w].note)
  /\ Goto(w, "count")
  /\ UNCHANGED <<notes, tries, run, pushed, token, dead, mark, badgeVars, faults, unchanged,
                 job, rows, acked, applied>>

NotifyCount(w) ==
  /\ pc[w] = "count"
  /\ LET u == notes[job[w].note].to
     IN  Count(u, <<"request", w>>) /\ job' = [job EXCEPT ![w].count = Unread(u)]
  /\ Goto(w, "emit")
  /\ UNCHANGED <<notes, queueVars, token, dead, mark, faults, unchanged, rows, acked,
                 applied>>

NotifyEmit(w) ==
  /\ pc[w] = "emit"
  /\ Emit(notes[job[w].note].to, <<"request", w>>, job[w].count)
  /\ IF job[w].op = "webhook" THEN Answer200(w) ELSE Respond(w) /\ UNCHANGED acked
  /\ UNCHANGED <<notes, queueVars, token, dead, mark, faults, unchanged, rows, applied>>

\* Mutated form: a notification that cannot be sent does not fail the webhook.
FaultForgiven(w) ==
  /\ pc[w] \notin {"idle", "emit"}
  /\ Fails
  /\ IF job[w].op = "webhook" /\ pc[w] \in {"row", "queue", "count"}
     THEN Answer200(w)
     ELSE Respond(w) /\ UNCHANGED acked
  /\ UNCHANGED <<notes, queueVars, token, dead, mark, badgeVars, unchanged, rows, applied>>

\* A call rejects: the request is answered with an error.  The emit is no call.
Fault(w) ==
  /\ pc[w] \notin {"idle", "emit"}
  /\ Fails
  /\ Respond(w)
  /\ UNCHANGED <<notes, queueVars, token, dead, mark, badgeVars, unchanged, rows, acked,
                 applied>>

(***************************************************************************)
(* The provider and the process.                                           *)
(***************************************************************************)

\* A payment may fail before it is made, and be refunded after.
Announce(kind) ==
  /\ Len(events) < MaxEvents
  /\ LET past == {events[k].kind : k \in 1..Len(events)}
     IN  CASE kind \in {"failed", "paid"} -> "paid" \notin past
           [] kind = "refunded" -> "paid" \in past /\ "refunded" \notin past
           [] OTHER -> TRUE
  /\ events' = Append(events, [kind |-> kind, known |-> rows # <<>>])
  /\ UNCHANGED <<noteVars, provider, rows, acked, pc, job, creates, duplicates, crashes,
                 applied, overlapped>>

Crash ==
  /\ Fails /\ crashes' = crashes + 1
  /\ RunnersStop
  /\ mark' = [u \in User |-> None]
  /\ pc' = [w \in Worker |-> "idle"] /\ job' = [w \in Worker |-> None]
  /\ UNCHANGED <<notes, tries, pushed, token, dead, badgeVars,
                 provider, rows, events, acked, creates, duplicates, applied, overlapped>>

Serve(w) ==
  \/ CreateFind(w)
  \/ CreateInsert(w)
  \/ WebhookMatch(w)
  \/ WebhookUpdate(w)
  \/ NotifyRow(w)
  \/ NotifyQueue(w)
  \/ NotifyCount(w)
  \/ NotifyEmit(w)
  \/ Fault(w)

Next ==
  \/ NoteNext /\ UNCHANGED donationVars
  \/ \E w \in Worker :
       \/ \E u \in Donor : CreateStart(w, u)
       \/ \E k \in 1..MaxEvents : WebhookStart(w, k)
       \/ Serve(w)
  \/ \E kind \in Kind : Announce(kind)
  \/ Crash

Spec == Init /\ [][Next]_vars

-----------------------------------------------------------------------------
TypeOK ==
  /\ NoteTypeOK
  /\ provider \in {"Stripe", "Store"}
  /\ rows \in Seq(Row) /\ events \in Seq(Event)
  /\ acked \subseteq 1..Len(events)
  /\ pc \in [Worker -> PC]
  /\ job \in [Worker -> Job \cup {None}]
  /\ creates \in 0..MaxCreates /\ duplicates \in 0..MaxDuplicates /\ crashes \in 0..MaxFaults
  /\ applied \subseteq Status
  /\ overlapped \in BOOLEAN
  /\ \A w \in Worker :
       /\ pc[w] = "idle" <=> job[w] = None
       /\ pc[w] = "update" => job[w].matched \in 1..Len(rows)
       /\ pc[w] \in {"queue", "count", "emit"} => job[w].note \in 1..Len(notes)

\* As long as requests have not overlapped, a transaction has one row, of one
\* user, and its verification date is there exactly if a success was recorded,
\* whatever was delivered again or late, failed or was interrupted.  (Two
\* overlapping POSTs make two rows; a webhook that overlaps a success writes
\* back the missing date it has read.)
LedgerConsistent ==
  ~overlapped =>
    /\ Len(rows) <= 1
    /\ \A i \in 1..Len(rows) : rows[i].verified <=> "Succeeded" \in applied

\* An event of a success that is acknowledged, so that the provider gives up on
\* it, has been announced to the donor by a notification whose job was queued,
\* if the transaction was recorded before: failing calls, stops of the process
\* and overlapping deliveries included.
AckedSuccessIsAnnounced ==
  \A k \in acked :
    events[k].kind = "paid" /\ events[k].known =>
      \E n \in 1..Len(notes) :
        notes[n].about = k /\ notes[n].to \in Donor /\ jobs[n] # "none"

\* A device gets a notification at most once, although its job is run up to
\* Attempts times: what can fail comes before the push.  Each stop of the process
\* between the push and the end of the job may cost one more.
PushedOnce == \A n \in Note : pushed[n] <= 1 + crashes

\* The worker takes a token from a user only if the push service refused it, or
\* if the user has saved another one since the worker read it.  (The second
\* case is a valid token lost: the column is cleared by user id.)
TokenKept ==
  [][\A r \in Runner : At(r, "clear") /\ run'[r] # run[r] /\ token' # token =>
       token[To(r)] \in dead \/ token[To(r)] # run[r].token]_vars

\* Nobody has a count to read or to emit.
NothingToEmit ==
  /\ \A w \in Worker : pc[w] = "idle"
  /\ \A u \in User : mark[u] = None
  /\ \A r \in Runner : ~At(r, "badge")

\* When nothing failed and nothing is going on, the unread count that every user was
\* shown last is right, unless it was read before another that was emitted earlier:
\* requests of the donor and of others and the job worker count and emit in any order.
\* (In the exception the badge stays wrong until the next count.)
BadgeIsCurrent ==
  faults = 0 /\ NothingToEmit
    => \A u \in User : shown[u] = Unread(u) \/ u \in outrun

=============================================================================
