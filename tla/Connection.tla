----------------------------- MODULE Connection -----------------------------
(***************************************************************************)
(* The connection ("friend request") component: the rows of the            *)
(* `connections` table and the five HTTP requests that change them.        *)
(*                                                                         *)
(* Every request runs as a Node.js async handler.  Between two `await`s of *)
(* one handler any step of another handler may run, so a request is a      *)
(* process (a Worker) and each database call is one action.  The checks a  *)
(* handler makes on the row it read belong to the action that reads; the   *)
(* write that follows is a plain update by id, and whatever the row has    *)
(* become in between is overwritten.                                       *)
(***************************************************************************)
EXTENDS Naturals

CONSTANTS
  User,    \* user ids
  Row,     \* ids of rows of `connections`; bounds how many rows can exist
  Worker,  \* requests that can be in flight at the same time
  None     \* a missing row, and the state of an idle worker

VARIABLES
  conn,       \* conn[r]: row r of the table, or None
  live,       \* users whose status is not DELETED
  pc,         \* pc[w]: the next database call of worker w
  job,        \* job[w]: the request worker w is serving
  consented,  \* history: <<u, v>> once u asked v or accepted a request of v
  overlapped  \* history: some request has started while another was in flight

vars == <<conn, live, pc, job, consented, overlapped>>

-----------------------------------------------------------------------------
(* Rows and requests.                                                      *)

Status == {"PENDING", "ACCEPTED", "REJECTED", "CANCELED"}

\* A user never sends a request to itself, so the two ends differ.
ConnRow ==
  {c \in [requester : User, receiver : User, status : Status] :
     c.requester # c.receiver}

\* The four requests that name an existing row, and what each one writes.
RowOp == {"accept", "reject", "cancel", "remove"}

NewStatus(op) ==
  CASE op = "accept" -> "ACCEPTED"
    [] op = "reject" -> "REJECTED"
    [] op \in {"cancel", "remove"} -> "CANCELED"

\* `other` is used by "create" alone; `row` is None until the row is known.
Job ==
  [op : RowOp \cup {"create"}, user : User, other : User, row : Row \cup {None}]

PC == {"idle", "receiver", "find", "insert", "load", "update"}

\* None is neither a row id, a row nor a request.
ASSUME NoneAssumption == None \notin Row \cup ConnRow \cup Job

Exists(r) == conn[r] # None
Ends(r)   == {conn[r].requester, conn[r].receiver}

\* @@unique([requesterId, receiverId]): the rows an ordered pair already has.
RowsFromTo(u, v) ==
  {r \in Row : Exists(r) /\ conn[r].requester = u /\ conn[r].receiver = v}

\* Mutated form: the reverse direction is forgotten.
RowsBetweenOneWay(u, v) == RowsFromTo(u, v)

RowsBetween(u, v) == RowsFromTo(u, v) \cup RowsFromTo(v, u)

Goto(w, l) == pc' = [pc EXCEPT ![w] = l]

\* The response, a success or an error, ends the request.
Respond(w) == Goto(w, "idle") /\ job' = [job EXCEPT ![w] = None]

\* What `overlapped` becomes when w starts a request.
Overlaps(w) == overlapped \/ \E v \in Worker \ {w} : pc[v] # "idle"

-----------------------------------------------------------------------------
Init ==
  /\ conn = [r \in Row |-> None]
  /\ live = User
  /\ pc = [w \in Worker |-> "idle"]
  /\ job = [w \in Worker |-> None]
  /\ consented = {}
  /\ overlapped = FALSE

(***************************************************************************)
(* POST /connections/requests/create                                       *)
(***************************************************************************)

\* Mutated form: Step 1 of createConnectionRequest is dropped.
CreateStartUnchecked(w, u, v) ==
  /\ pc[w] = "idle"
  /\ u \in live
  /\ Goto(w, "receiver")
  /\ job' = [job EXCEPT ![w] = [op |-> "create", user |-> u, other |-> v, row |-> None]]
  /\ UNCHANGED <<conn, live, consented>>
  /\ overlapped' = Overlaps(w)

\* The auth middleware admits live users only; a request to oneself is
\* answered 400 before any database call.
CreateStart(w, u, v) ==
  /\ pc[w] = "idle"
  /\ u \in live
  /\ u # v
  /\ Goto(w, "receiver")
  /\ job' = [job EXCEPT ![w] = [op |-> "create", user |-> u, other |-> v, row |-> None]]
  /\ UNCHANGED <<conn, live, consented>>
  /\ overlapped' = Overlaps(w)

\* getUserById: a deleted receiver is answered 404.
CreateCheckReceiver(w) ==
  /\ pc[w] = "receiver"
  /\ \/ /\ job[w].other \in live
        /\ Goto(w, "find")
        /\ UNCHANGED job
     \/ /\ job[w].other \notin live
        /\ Respond(w)
  /\ UNCHANGED <<conn, live, consented, overlapped>>

\* findConnectionBetweenUsers is a findFirst without an order: any row
\* between the two users may be the one it returns.
CreateFind(w) ==
  /\ pc[w] = "find"
  /\ \/ /\ RowsBetween(job[w].user, job[w].other) = {}
        /\ Goto(w, "insert")
        /\ UNCHANGED job
     \/ \E r \in RowsBetween(job[w].user, job[w].other) :
          \/ /\ conn[r].status \in {"ACCEPTED", "PENDING"}        \* 409
             /\ Respond(w)
          \/ /\ conn[r].status \in {"REJECTED", "CANCELED"}
             /\ Goto(w, "update")
             /\ job' = [job EXCEPT ![w].row = r]
  /\ UNCHANGED <<conn, live, consented, overlapped>>

\* createConnection; the unique index answers a second row of the same
\* ordered pair with P2002, which the client sees as an error.
CreateInsert(w) ==
  /\ pc[w] = "insert"
  /\ LET u == job[w].user
         v == job[w].other
     IN  \/ /\ RowsFromTo(u, v) = {}
            /\ \E r \in Row :
                 /\ ~Exists(r)
                 /\ conn' = [conn EXCEPT ![r] =
                       [requester |-> u, receiver |-> v, status |-> "PENDING"]]
            /\ consented' = consented \cup {<<u, v>>}
         \/ /\ RowsFromTo(u, v) # {}
            /\ UNCHANGED <<conn, consented>>
  /\ Respond(w)
  /\ UNCHANGED <<live, overlapped>>

\* updateConnection of a rejected or canceled row: the sender becomes the
\* requester, which the unique index may refuse.
CreateReopen(w) ==
  /\ pc[w] = "update"
  /\ job[w].op = "create"
  /\ LET u == job[w].user
         v == job[w].other
     IN  \/ /\ RowsFromTo(u, v) \subseteq {job[w].row}
            /\ conn' = [conn EXCEPT ![job[w].row] =
                  [requester |-> u, receiver |-> v, status |-> "PENDING"]]
            /\ consented' = consented \cup {<<u, v>>}
         \/ /\ ~(RowsFromTo(u, v) \subseteq {job[w].row})
            /\ UNCHANGED <<conn, consented>>
  /\ Respond(w)
  /\ UNCHANGED <<live, overlapped>>

(***************************************************************************)
(* PATCH .../accept/:id, PATCH .../reject/:id, DELETE .../cancel/:id and   *)
(* DELETE .../remove/:id have one shape: load the row, check it, update it.*)
(***************************************************************************)

RowOpStart(w, op, u, r) ==
  /\ pc[w] = "idle"
  /\ u \in live
  /\ Goto(w, "load")
  /\ job' = [job EXCEPT ![w] = [op |-> op, user |-> u, other |-> u, row |-> r]]
  /\ UNCHANGED <<conn, live, consented>>
  /\ overlapped' = Overlaps(w)

\* Mutated forms: one check of a handler is dropped.
MayAcceptByAnyEnd(c, u)   == c.status = "PENDING" /\ u \in {c.requester, c.receiver}
MayRejectAnyStatus(c, u)  == c.receiver = u
MayCancelByAnyone(c, u)   == c.status = "PENDING"

\* What each handler checks of the row it loaded (Steps 3 and 4 of each).
MayAccept(c, u) == c.status = "PENDING" /\ c.receiver = u
MayReject(c, u) == c.status = "PENDING" /\ c.receiver = u
MayCancel(c, u) == c.status = "PENDING" /\ c.requester = u
MayRemove(c, u) == c.status = "ACCEPTED" /\ u \in {c.requester, c.receiver}

Allowed(op, c, u) ==
  CASE op = "accept" -> MayAccept(c, u)
    [] op = "reject" -> MayReject(c, u)
    [] op = "cancel" -> MayCancel(c, u)
    [] op = "remove" -> MayRemove(c, u)

\* getConnectionById, then the checks: 404, 400 or 403 end the request.
RowOpLoad(w) ==
  /\ pc[w] = "load"
  /\ LET r  == job[w].row
         ok == Exists(r) /\ Allowed(job[w].op, conn[r], job[w].user)
     IN  \/ ok  /\ Goto(w, "update") /\ UNCHANGED job
         \/ ~ok /\ Respond(w)
  /\ UNCHANGED <<conn, live, consented, overlapped>>

\* updateConnection by id, with no condition on what the row is by now.
RowOpUpdate(w) ==
  /\ pc[w] = "update"
  /\ job[w].op \in RowOp
  /\ LET r == job[w].row
         u == job[w].user
     IN  /\ conn' = [conn EXCEPT ![r].status = NewStatus(job[w].op)]
         /\ consented' = IF job[w].op = "accept"
                         THEN consented \cup {<<u, v>> : v \in Ends(r) \ {u}}
                         ELSE consented
  /\ Respond(w)
  /\ UNCHANGED <<live, overlapped>>

\* DELETE of a user is a soft delete (user.repository deleteUserById); it
\* leaves the user's rows as they are.
DeleteUser(u) ==
  /\ u \in live
  /\ live' = live \ {u}
  /\ UNCHANGED <<conn, pc, job, consented, overlapped>>

-----------------------------------------------------------------------------
Next ==
  \/ \E w \in Worker, u, v \in User : CreateStart(w, u, v)
  \/ \E w \in Worker : CreateCheckReceiver(w)
  \/ \E w \in Worker : CreateFind(w)
  \/ \E w \in Worker : CreateInsert(w)
  \/ \E w \in Worker : CreateReopen(w)
  \/ \E w \in Worker, op \in RowOp, u \in User, r \in Row : RowOpStart(w, op, u, r)
  \/ \E w \in Worker : RowOpLoad(w)
  \/ \E w \in Worker : RowOpUpdate(w)
  \/ \E u \in User : DeleteUser(u)

Spec == Init /\ [][Next]_vars

-----------------------------------------------------------------------------
(* Properties.                                                             *)

\* Rows, requests and program counters keep their types; in particular no
\* row ever connects a user to itself, however creates and reopens overlap.
TypeOK ==
  /\ conn \in [Row -> ConnRow \cup {None}]
  /\ live \subseteq User
  /\ pc \in [Worker -> PC]
  /\ job \in [Worker -> Job \cup {None}]
  /\ consented \subseteq User \X User
  /\ overlapped \in BOOLEAN

\* A worker that is not idle serves a request of the kind its program counter
\* belongs to, and knows the row once it is about to read or update one.
JobOK ==
  \A w \in Worker :
    /\ pc[w] = "idle" <=> job[w] = None
    /\ pc[w] \in {"receiver", "find", "insert"} =>
         job[w].op = "create" /\ job[w].user # job[w].other
    /\ pc[w] = "load" => job[w].op \in RowOp
    /\ pc[w] \in {"load", "update"} => job[w].row \in Row
    /\ pc[w] = "update" /\ job[w].op = "create" => job[w].user # job[w].other

\* The user of every row's requester side has asked the receiver.
RowAsked ==
  \A r \in Row : Exists(r) => <<conn[r].requester, conn[r].receiver>> \in consented

\* What the checks established still holds of the row when it is written:
\* the two users of a row never change and consent is never forgotten.
Checked ==
  \A w \in Worker :
    pc[w] = "update" =>
      /\ Exists(job[w].row)
      /\ job[w].user \in Ends(job[w].row)
      /\ job[w].op = "create" => Ends(job[w].row) = {job[w].user, job[w].other}
      /\ job[w].op = "accept" =>
           \A v \in Ends(job[w].row) \ {job[w].user} : <<v, job[w].user>> \in consented

\* Two users are connected only if each of them asked for it or agreed to
\* it: the checks of acceptRequest are made on a row that may have been
\* canceled and reopened in the other direction before the accept is written.
Consent ==
  \A r \in Row :
    Exists(r) /\ conn[r].status = "ACCEPTED" =>
      /\ <<conn[r].requester, conn[r].receiver>> \in consented
      /\ <<conn[r].receiver, conn[r].requester>> \in consented

\* The inductive invariant behind Consent and OnlyParticipantsChange.
IInv == TypeOK /\ JobOK /\ RowAsked /\ Checked /\ Consent

\* A row is changed only by a request of one of its two users, who stay the
\* same two users for ever, although ownership was checked on an older row.
OnlyParticipantsChange ==
  [][\A r \in Row :
       Exists(r) /\ conn'[r] # conn[r] =>
         /\ conn'[r] # None
         /\ {conn'[r].requester, conn'[r].receiver} = Ends(r)
         /\ \E w \in Worker : job[w] # None /\ job'[w] = None /\ job[w].user \in Ends(r)]_vars

\* "Handle duplicate or reverse pending request case": two users never have
\* more than one row.  (Two users asking each other at the same time get two.)
OneRowPerPair ==
  \A r, s \in Row :
    Exists(r) /\ Exists(s) /\ Ends(r) = Ends(s) => r = s

-----------------------------------------------------------------------------
(* The life of one pair of users as the API describes it, and the mapping  *)
(* of the table to it.                                                     *)

Pair == {{u, v} : u \in User, v \in User} \ {{u} : u \in User}

PairState(p) ==
  IF \E r \in Row : Exists(r) /\ Ends(r) = p
  THEN LET r == CHOOSE r \in Row : Exists(r) /\ Ends(r) = p
       IN  [status |-> conn[r].status, requester |-> conn[r].requester]
  ELSE [status |-> "NONE", requester |-> None]

Contested == [status |-> "CONTESTED", requester |-> None]

\* Once requests have overlapped nothing more is promised of a pair.
Lifecycle == INSTANCE ConnectionLifecycle
               WITH rel <- [p \in Pair |-> IF overlapped THEN Contested ELSE PairState(p)]

\* Until requests overlap, the table implements the life cycle of a pair: one
\* row, asked for by one user, answered by the other ("Ensure only pending
\* request can be accepted"), ended by those who may.
ImplementsLifecycle == Lifecycle!Spec

\* Two users have one row, as long as requests have not overlapped.
OneRowUntilOverlap == ~overlapped => OneRowPerPair

=============================================================================
