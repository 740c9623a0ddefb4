--------------------------- MODULE AccountProofs ---------------------------
(***************************************************************************)
(* Proofs about Account for any sessions and concurrent requests, any      *)
(* limit of attempts and any number of failing calls and restarts.         *)
(*                                                                         *)
(* The argument: each call of a request is on the path of its operation    *)
(* and has found what that path requires (Request).  A counter at its      *)
(* limit or without an expiry is in the hands of a request that is about   *)
(* to delete it or to set its expiry (Counted), whatever overlaps.  A      *)
(* request that no ending has met goes on with a session opened after the  *)
(* last one (Current).  A code or grant that is still there was used only  *)
(* by requests that were cut off: until requests overlap, what the one in  *)
(* flight has read is still so (Unspent).                                  *)
(***************************************************************************)
EXTENDS Account, TLAPS

-----------------------------------------------------------------------------
(* What holds of a request in flight.                                      *)

OfSession == {"register", "resend", "verify", "forgot", "resendReset", "verifyReset"}
OfReset == {"forgot", "resendReset", "verifyReset"}
Counting == {"incr", "expire", "limit", "zero"}

\* The first call of an operation, and all its calls.
First(op, l) ==
  \/ op \in {"register", "forgot"} /\ l = "find"
  \/ op \in {"resend", "resendReset", "verify", "verifyReset", "refresh", "reset"} /\ l = "load"
  \/ op = "login" /\ l = "locked"
  \/ op \in {"change", "logout"} /\ l = "auth"

OnPath(op, l) ==
  \/ First(op, l)
  \/ op \in {"register", "resend", "forgot", "resendReset"} /\ l \in {"store", "mail", "cleanup"}
  \/ op \in {"login", "verify", "verifyReset"} /\ l \in Counting \cup {"forget"}
  \/ op = "resendReset" /\ l = "forget"
  \/ op \in {"verify", "login", "refresh"} /\ l \in {"find", "token"}
  \/ op = "logout" /\ l \in {"blacklist", "revoke"}
  \/ op = "change" /\ l = "find"
  \/ op = "verify" /\ l \in {"create", "welcome", "drop"}
  \/ op = "verifyReset" /\ l \in {"grant", "drop"}
  \/ op = "login" /\ l = "unlock"
  \/ op = "reset" /\ l \in {"find", "write", "spend", "drop"}
  \/ op \in {"reset", "change"} /\ l \in {"write", "revoke"}

Names(j) ==
  /\ j.op \in OfSession => j.s \in Session /\ (j.op \in OfReset <=> j.s \in ResetSession)
  /\ j.op = "verifyReset" => j.n \in Grant
  /\ j.op = "reset" => j.arg \in Grant
  /\ j.op = "refresh" => j.arg > 0

\* The request has found something in Redis, so Redis is ready.
HasRead(op, l) ==
  \/ op \in {"resend", "resendReset", "verify", "verifyReset", "refresh", "reset"} /\ l # "load"
  \/ l \in {"expire", "limit", "zero"}

\* The request has found or created the user.
HasUser(j, l) ==
  l \in {"token", "unlock"} \/ (j.op = "login" /\ l = "forget") \/ (j.op = "verify" /\ j.n = 1)

Request(w) ==
  pc[w] # "idle" =>
    /\ OnPath(job[w].op, pc[w]) /\ Names(job[w])
    /\ job[w].since <= endings
    /\ HasRead(job[w].op, pc[w]) => ready
    /\ HasUser(job[w], pc[w]) => user # None
    /\ pc[w] = "welcome" => job[w].n = 1

InFlight == \A w \in Worker : Request(w)

-----------------------------------------------------------------------------
(* The shapes of a step.                                                   *)

data == <<user, redis, ready, sent, known, issued, faults, endings, opened, spared, used, cut>>

\* A request starts.
Begins(w) ==
  /\ pc[w] = "idle" /\ requests < MaxRequests /\ requests' = requests + 1
  /\ overlapped' = (overlapped \/ \E v \in Worker \ {w} : pc[v] # "idle")
  /\ UNCHANGED data
  /\ \E j \in Job, l \in PC \ {"idle"} :
       /\ Goto(w, l) /\ job' = [job EXCEPT ![w] = j]
       /\ First(j.op, l) /\ Names(j) /\ j.since = endings
       /\ j.op = "verifyReset" => j.n = requests + 1
       /\ j.op = "verify" => j.n = 0
       /\ j.op \in {"register", "forgot"} => j.s \notin known
       /\ j.op \in OfSession \ {"register", "forgot"} => j.s \in known
       /\ j.op = "reset" => j.arg \in known

\* A request makes its next call.
Moves(w) ==
  /\ pc[w] # "idle" /\ (user # None => user' # None) /\ endings <= endings' /\ ready' = ready
  /\ \/ Respond(w)
     \/ EndSessions(w)
     \/ \E l \in PC \ {"idle"} :
          /\ Goto(w, l) /\ OnPath(job[w].op, l) /\ (HasRead(job[w].op, l) => ready)
          /\ \/ UNCHANGED job
             \/ job[w].op = "verify" /\ job' = [job EXCEPT ![w].n = 1]
             \/ /\ job[w].op = "refresh" /\ endings' = endings /\ redis.refresh > 0
                /\ job' = [job EXCEPT ![w].since = opened, ![w].raced = spared]
          /\ HasUser(job'[w], l) => user' # None
          /\ l = "welcome" => job'[w].n = 1

LEMMA StartsBegin ==
  ASSUME TypeOK, NEW w \in Worker, NEW op \in Op, NEW s \in Session \cup {None}, NEW arg \in Nat,
         NEW l \in PC \ {"idle"}, Start(w, op, s, arg, l),
         First(op, l), op \in OfSession => s \in Session /\ (op \in OfReset <=> s \in ResetSession),
         op = "reset" => arg \in Grant /\ arg \in known, op = "refresh" => arg > 0,
         op \in {"register", "forgot"} => s \notin known,
         op \in OfSession \ {"register", "forgot"} => s \in known
  PROVE  Begins(w)
<1> DEFINE n == CASE op = "verifyReset" -> requests + 1
                  [] op \in {"change", "logout"} -> issued
                  [] OTHER -> 0
           j == [op |-> op, s |-> s, arg |-> arg, since |-> endings, raced |-> FALSE, n |-> n]
<1>1. /\ n \in Nat /\ (op = "verifyReset" => n \in Grant /\ n = requests + 1)
      /\ (op = "verify" => n = 0)
  BY AccountAssumption DEF Start, TypeOK, Grant
<1>2. j \in Job
  BY <1>1 DEF TypeOK, Job
<1>3. job' = [job EXCEPT ![w] = j] /\ Goto(w, l)
  BY DEF Start
<1> HIDE DEF n
<1>4. /\ j.op = op /\ j.s = s /\ j.arg = arg /\ j.since = endings /\ j.n = n
  OBVIOUS
<1> HIDE DEF j
<1>5. Names(j)
  BY <1>1, <1>4 DEF Names
<1> QED
  BY <1>1, <1>2, <1>3, <1>4, <1>5 DEF Begins, Start, data

LEMMA RequestsBegin ==
  ASSUME TypeOK, NEW w \in Worker, Requests(w)
  PROVE  Begins(w)
<1> USE AccountAssumption DEF First, OfSession, OfReset, Op, PC, Session
<1>1. ASSUME NEW s \in RegSession, NEW code \in Nat,
             RegisterStart(w, s) \/ ResendStart(w, s) \/ VerifyStart(w, s, code)
      PROVE  Begins(w)
  BY <1>1, StartsBegin DEF RegisterStart, ResendStart, VerifyStart, Fresh
<1>2. ASSUME NEW p \in Nat, LoginStart(w, p) \/ ChangeStart(w, p)
      PROVE  Begins(w)
  BY <1>2, StartsBegin DEF LoginStart, ChangeStart
<1>3. ASSUME NEW t \in Nat, (t > 0 /\ RefreshStart(w, t)) \/ LogoutStart(w)
      PROVE  Begins(w)
  BY <1>3, StartsBegin DEF RefreshStart, LogoutStart
<1>4. ASSUME NEW s \in ResetSession, NEW code \in Nat,
             ForgotStart(w, s) \/ ResendResetStart(w, s) \/ VerifyResetStart(w, s, code)
      PROVE  Begins(w)
  BY <1>4, StartsBegin DEF ForgotStart, ResendResetStart, VerifyResetStart, Fresh
<1>5. ASSUME NEW g \in Grant, ResetStart(w, g)
      PROVE  Begins(w)
  BY <1>5, StartsBegin DEF ResetStart, Grant
<1>6. /\ \A s \in Session : sent[s] \in Nat
      /\ user # None => user.password \in Nat
      /\ issued \in Nat
  BY DEF TypeOK, User
<1> QED
  BY <1>1, <1>2, <1>3, <1>4, <1>5, <1>6 DEF Requests

\* Every call of a request is on its path.
LEMMA ServesMove ==
  ASSUME TypeOK, InFlight, NEW w \in Worker, Serve(w)
  PROVE  Moves(w)
<1> USE DEF Moves, OnPath, First, HasRead, HasUser, Counting, PC, At, Goto, Respond
<1>0. /\ pc[w] # "idle" => job[w] \in Job /\ Request(w)
      /\ pc[w] \in PC /\ endings \in Nat /\ user \in User \cup {None}
      /\ job \in [Worker -> Job \cup {None}] /\ MaxAttempts \in Nat /\ MaxAttempts > 1
  BY AccountAssumption DEF TypeOK, InFlight
<1> USE <1>0 DEF Request
<1>1. CASE CountAttempt(w)
  <2>1. CASE pc[w] = "incr"
    BY <1>1, <2>1 DEF CountAttempt, AfterCount, SetsExpiry, process, hist
  <2>2. CASE pc[w] # "incr"
    BY <1>1, <2>2 DEF CountAttempt, AfterCount, process, hist
  <2> QED
    BY <2>1, <2>2
<1>2. CASE MailCode(w) \/ CleanUp(w)
  BY <1>2 DEF MailCode, CleanUp, process, hist
<1>3. CASE Register(w) \/ Resend(w)
  BY <1>3 DEF Register, Resend, StoreCode, Challenge, process, hist
<1>4. CASE Verify(w)
  <2>1. CASE VerifyCreate(w)
    BY <2>1, AccountAssumption DEF VerifyCreate, process, hist, User
  <2> QED
    BY <1>4, <2>1 DEF Verify, Challenge, process, hist, Live
<1>5. CASE StoreToken(w)
  BY <1>5 DEF StoreToken
<1>6. CASE Login(w)
  BY <1>6 DEF Login, Live, Active, process, hist
<1>7. CASE Refresh(w)
  <2>1. CASE At(w, "refresh", "load")
    <3>1. /\ UNCHANGED <<user, endings, ready>>
          /\ \/ Respond(w)
             \/ /\ ready /\ redis.refresh > 0 /\ Goto(w, "find")
                /\ job' = [job EXCEPT ![w].since = opened, ![w].raced = spared]
      BY <1>7, <2>1 DEF Refresh, Names, process, hist
    <3> DEFINE k == [job[w] EXCEPT !.since = opened, !.raced = spared]
    <3>2. job' = [job EXCEPT ![w].since = opened, ![w].raced = spared] => job' = [job EXCEPT ![w] = k]
      OBVIOUS
    <3>3. k.op = "refresh"
      BY <2>1 DEF Job
    <3> HIDE DEF k
    <3>4. job' = [job EXCEPT ![w].since = opened, ![w].raced = spared] => job'[w].op = "refresh"
      BY <3>2, <3>3
    <3> QED
      BY <2>1, <3>1, <3>4
  <2>2. CASE At(w, "refresh", "find")
    BY <1>7, <2>2 DEF Refresh, Active, process, hist
  <2> QED
    BY <1>7, <2>1, <2>2 DEF Refresh
<1>8. CASE Revoke(w)
  BY <1>8 DEF Revoke, EndSessions, process
<1>9. CASE Forgot(w)
  BY <1>9 DEF Forgot, StoreCode, process, hist
<1>10. CASE ResendReset(w)
  BY <1>10 DEF ResendReset, StoreCode, Challenge, process, hist
<1>11. CASE VerifyReset(w)
  BY <1>11 DEF VerifyReset, Challenge, process, hist
<1>12. CASE Reset(w)
  BY <1>12, AccountAssumption DEF Reset, WritePassword, Live, Active, User, process, hist
<1>13. CASE Change(w)
  <2>1. CASE At(w, "change", "find")
    BY <1>13, <2>1 DEF Change, WritePassword, Active, process, hist
  <2>2. CASE pc[w] = "write"
    BY <1>13, <2>2, AccountAssumption DEF Change, WritePassword, Live, User, process
  <2> QED
    BY <1>13, <2>1, <2>2 DEF Change, WritePassword
<1>14. CASE Fault(w)
  BY <1>14 DEF Fault, Admit
<1>15. CASE Authenticate(w) \/ Logout(w)
  BY <1>15 DEF Authenticate, Admit, Logout, process, hist
<1> QED
  BY <1>1, <1>2, <1>3, <1>4, <1>5, <1>6, <1>7, <1>8, <1>9, <1>10, <1>11, <1>12, <1>13, <1>14, <1>15
     DEF Serve

-----------------------------------------------------------------------------
(* Types and what requests in flight carry.                                *)

FlowOK ==
  /\ pc \in [Worker -> PC] /\ job \in [Worker -> Job \cup {None}]
  /\ \A w \in Worker : pc[w] = "idle" <=> job[w] = None
  /\ InFlight

DataOK ==
  /\ user \in User \cup {None}
  /\ redis \in Redis
  /\ sent \in [Session -> Nat]
  /\ known \subseteq Session \cup Grant
  /\ ready \in BOOLEAN
  /\ issued \in Nat /\ requests \in 0..MaxRequests /\ faults \in 0..MaxFaults
  /\ overlapped \in BOOLEAN
  /\ endings \in Nat /\ opened \in 0..endings /\ spared \in BOOLEAN
  /\ used \in [Session \cup Grant -> Nat] /\ cut \in [Session \cup Grant -> Nat]
  /\ redis.refresh <= issued /\ (issued > 0 => user # None)
  /\ \A s \in Session : redis.challenge[s] <= sent[s]

LEMMA TypeParts == TypeOK /\ InFlight <=> DataOK /\ FlowOK
BY DEF TypeOK, DataOK, FlowOK

LEMMA BeginsFlow ==
  ASSUME TypeOK, InFlight, NEW w \in Worker, Begins(w)
  PROVE  FlowOK'
<1>1. PICK j \in Job, l \in PC \ {"idle"} :
        /\ Goto(w, l) /\ job' = [job EXCEPT ![w] = j]
        /\ First(j.op, l) /\ Names(j) /\ j.since = endings
        /\ j.op = "verify" => j.n = 0
  BY DEF Begins
<1>2. endings \in Nat /\ endings' = endings /\ user' = user /\ ready' = ready
  BY DEF Begins, data, TypeOK
<1>3. OnPath(j.op, l) /\ ~HasUser(j, l) /\ ~HasRead(j.op, l) /\ l # "welcome"
  BY <1>1 DEF OnPath, First, HasUser, HasRead
<1>4. pc' = [pc EXCEPT ![w] = l] /\ j # None
  BY <1>1, AccountAssumption DEF Goto
<1>5. /\ pc' \in [Worker -> PC] /\ job' \in [Worker -> Job \cup {None}]
      /\ \A v \in Worker : pc'[v] = "idle" <=> job'[v] = None
  BY <1>1, <1>4 DEF TypeOK
<1>6. ASSUME NEW v \in Worker
      PROVE  Request(v)'
  <2>1. CASE v = w
    <3>1. pc'[v] = l /\ job'[v] = j
      BY <1>1, <1>4, <2>1 DEF TypeOK
    <3> QED
      BY <3>1, <1>1, <1>2, <1>3 DEF Request, Names
  <2>2. CASE v # w
    <3>1. pc'[v] = pc[v] /\ job'[v] = job[v]
      BY <1>1, <1>4, <2>2 DEF TypeOK
    <3> QED
      BY <3>1, <1>2 DEF InFlight, Request
  <2> QED
    BY <2>1, <2>2
<1> QED
  BY <1>5, <1>6 DEF FlowOK, InFlight

LEMMA MovesFlow ==
  ASSUME TypeOK, InFlight, NEW w \in Worker, Moves(w), endings' \in Nat
  PROVE  FlowOK'
<1>0. /\ pc[w] # "idle" /\ (user # None => user' # None) /\ endings <= endings' /\ endings \in Nat
      /\ ready' = ready /\ opened \in Nat /\ opened <= endings /\ spared \in BOOLEAN
      /\ pc \in [Worker -> PC] /\ job \in [Worker -> Job \cup {None}]
      /\ \A v \in Worker : pc[v] = "idle" <=> job[v] = None
      /\ \A v \in Worker : Request(v) /\ (pc[v] # "idle" => job[v] \in Job /\ job[v].since \in Nat)
      /\ "idle" \in PC
  BY DEF Moves, TypeOK, Job, InFlight, PC
<1>1. ASSUME NEW v \in Worker, v # w, pc'[v] = pc[v], job'[v] = job[v]
      PROVE  Request(v)'
  BY <1>0, <1>1 DEF Request
<1>2. CASE Respond(w)
  <2>1. pc' = [pc EXCEPT ![w] = "idle"] /\ job' = [job EXCEPT ![w] = None]
    BY <1>2 DEF Respond, Goto
  <2>2. Request(w)'
    BY <2>1, <1>0 DEF Request
  <2> QED
    BY <1>0, <1>1, <2>1, <2>2 DEF FlowOK, InFlight
<1>3. CASE EndSessions(w)
  <2>1. /\ pc' = [pc EXCEPT ![w] = "idle"]
        /\ job' = [v \in Worker |-> IF v = w \/ job[v] = None THEN None
                                   ELSE [job[v] EXCEPT !.raced = TRUE]]
    BY <1>3 DEF EndSessions, Goto
  <2>2. ASSUME NEW v \in Worker, v # w, pc[v] # "idle"
        PROVE  /\ job'[v] \in Job /\ job'[v] # None /\ pc'[v] = pc[v]
               /\ job'[v].op = job[v].op /\ job'[v].s = job[v].s /\ job'[v].n = job[v].n
               /\ job'[v].arg = job[v].arg /\ job'[v].since = job[v].since
    <3>1. job'[v] = [job[v] EXCEPT !.raced = TRUE] /\ job[v] \in Job
      BY <1>0, <2>1, <2>2
    <3>2. job'[v] \in Job
      BY <3>1 DEF Job
    <3> QED
      BY <1>0, <2>1, <2>2, <3>1, <3>2, AccountAssumption DEF Job
  <2>3. \A v \in Worker : v = w \/ pc[v] = "idle" => job'[v] = None /\ pc'[v] = "idle"
    BY <1>0, <2>1
  <2>4. ASSUME NEW v \in Worker
        PROVE  Request(v)'
    <3>1. CASE v = w \/ pc[v] = "idle"
      BY <2>3, <3>1 DEF Request
    <3>2. CASE v # w /\ pc[v] # "idle"
      <4>1. Request(v) /\ job[v].since <= endings' /\ (user # None => user' # None)
        BY <1>0, <3>2 DEF Request
      <4> QED
        BY <1>0, <2>2, <3>2, <4>1 DEF Request, Names, HasUser
    <3> QED
      BY <3>1, <3>2
  <2>5. /\ pc' \in [Worker -> PC] /\ job' \in [Worker -> Job \cup {None}]
        /\ \A v \in Worker : pc'[v] = "idle" <=> job'[v] = None
    <3>1. \A v \in Worker : job'[v] \in Job \cup {None}
      BY <2>2, <2>3
    <3>2. job' = [v \in Worker |-> job'[v]]
      BY <2>1
    <3>3. \A v \in Worker : pc'[v] = "idle" <=> job'[v] = None
      BY <2>2, <2>3
    <3>4. pc' \in [Worker -> PC]
      BY <1>0, <2>1
    <3> QED
      BY <3>1, <3>2, <3>3, <3>4
  <2> QED
    BY <2>4, <2>5 DEF FlowOK, InFlight
<1>4. ASSUME NEW l \in PC \ {"idle"}, Goto(w, l), OnPath(job[w].op, l), HasRead(job[w].op, l) => ready,
             NEW j \in Job, job' = [job EXCEPT ![w] = j], j.op = job[w].op, Names(j),
             j.since <= endings', HasUser(j, l) => user' # None, l = "welcome" => j.n = 1
      PROVE  FlowOK'
  <2>1. pc' = [pc EXCEPT ![w] = l] /\ j # None
    BY <1>4, AccountAssumption DEF Goto
  <2>2. /\ job' \in [Worker -> Job \cup {None}] /\ job'[w] = j
        /\ \A v \in Worker \ {w} : job'[v] = job[v]
    BY <1>0, <1>4
  <2>3. pc' \in [Worker -> PC] /\ pc'[w] = l /\ \A v \in Worker \ {w} : pc'[v] = pc[v]
    BY <2>1, <1>0
  <2>4. Request(w)'
    BY <1>0, <1>4, <2>2, <2>3 DEF Request
  <2>5. \A v \in Worker : pc'[v] = "idle" <=> job'[v] = None
    BY <1>0, <1>4, <2>1, <2>2, <2>3
  <2> QED
    BY <1>1, <2>2, <2>3, <2>4, <2>5 DEF FlowOK, InFlight
<1>5. ASSUME NEW l \in PC \ {"idle"}, Goto(w, l), OnPath(job[w].op, l), HasRead(job[w].op, l) => ready,
             \/ UNCHANGED job
             \/ job[w].op = "verify" /\ job' = [job EXCEPT ![w].n = 1]
             \/ /\ job[w].op = "refresh" /\ endings' = endings
                /\ job' = [job EXCEPT ![w].since = opened, ![w].raced = spared],
             HasUser(job'[w], l) => user' # None, l = "welcome" => job'[w].n = 1
      PROVE  FlowOK'
  <2>1. /\ job[w] \in Job /\ Names(job[w]) /\ job[w].since <= endings /\ job[w].since \in Nat
    BY <1>0 DEF Request
  <2>2. CASE UNCHANGED job
    <3>1. job' = [job EXCEPT ![w] = job[w]] /\ job'[w] = job[w]
      BY <1>0, <2>2
    <3>2. job[w].since <= endings'
      BY <1>0, <2>1
    <3> QED
      BY <1>4, <1>5, <2>1, <3>1, <3>2
  <2>3. CASE job[w].op = "verify" /\ job' = [job EXCEPT ![w].n = 1]
    <3> DEFINE k == [job[w] EXCEPT !.n = 1]
    <3>1. k \in Job /\ k.op = "verify" /\ k.s = job[w].s /\ k.since = job[w].since
      BY <2>1, <2>3 DEF Job
    <3>2. Names(k)
      BY <2>1, <2>3, <3>1 DEF Names
    <3>3. job' = [job EXCEPT ![w] = k]
      BY <2>3
    <3> HIDE DEF k
    <3>4. job'[w] = k /\ k.since <= endings'
      BY <1>0, <2>1, <3>1, <3>3
    <3> QED
      BY <1>4, <1>5, <2>3, <3>1, <3>2, <3>3, <3>4
  <2>4. CASE /\ job[w].op = "refresh" /\ endings' = endings
             /\ job' = [job EXCEPT ![w].since = opened, ![w].raced = spared]
    <3> DEFINE k == [job[w] EXCEPT !.since = opened, !.raced = spared]
    <3>1. /\ k \in Job /\ k.op = "refresh" /\ k.s = job[w].s /\ k.since = opened
          /\ k.arg = job[w].arg
      BY <1>0, <2>1, <2>4 DEF Job
    <3>2. Names(k)
      BY <2>1, <2>4, <3>1 DEF Names, OfSession
    <3>3. job' = [job EXCEPT ![w] = k]
      BY <2>4
    <3> HIDE DEF k
    <3>4. job'[w] = k /\ k.since <= endings'
      BY <1>0, <2>4, <3>1, <3>3
    <3> QED
      BY <1>4, <1>5, <2>4, <3>1, <3>2, <3>3, <3>4
  <2> QED
    BY <1>5, <2>2, <2>3, <2>4
<1> QED
  BY <1>2, <1>3, <1>5 DEF Moves

\* A call that writes Redis and stores neither a code nor a token.
Edits ==
  \/ redis' = redis
  \/ \E s \in Session : redis' = [redis EXCEPT !.challenge = NoChallenge(s)]
  \/ \E k \in Counter, n \in Nat : redis' = [redis EXCEPT !.attempts[k] = n]
  \/ \E k \in Counter, b \in BOOLEAN : redis' = [redis EXCEPT !.expires[k] = b]
  \/ \E k \in Counter : redis' = [redis EXCEPT !.attempts = NoAttempts(k), !.expires = NoExpiry(k)]
  \/ \E b \in BOOLEAN : redis' = [redis EXCEPT !.locked = b]
  \/ \E G \in SUBSET Grant : redis' = [redis EXCEPT !.grants = G]
  \/ redis' = [redis EXCEPT !.refresh = 0]
  \/ \E B \in SUBSET Nat : redis' = [redis EXCEPT !.blacklist = B]

LEMMA EditsTyped ==
  ASSUME redis \in Redis, Edits
  PROVE  /\ redis' \in Redis /\ redis'.refresh \in {0, redis.refresh}
         /\ \A s \in Session : redis'.challenge[s] \in {0, redis.challenge[s]}
<1> USE DEF Redis
<1>1. ASSUME NEW s \in Session, redis' = [redis EXCEPT !.challenge = NoChallenge(s)]
      PROVE  /\ redis' \in Redis /\ redis'.refresh = redis.refresh
             /\ \A x \in Session : redis'.challenge[x] \in {0, redis.challenge[x]}
  <2>1. /\ NoChallenge(s) \in [Session -> Nat]
        /\ \A x \in Session : NoChallenge(s)[x] \in {0, redis.challenge[x]}
    BY DEF NoChallenge
  <2>2. redis'.challenge = NoChallenge(s)
    BY <1>1
  <2> QED
    BY <1>1, <2>1, <2>2
<1>2. ASSUME NEW k \in Counter, NEW n \in Nat, redis' = [redis EXCEPT !.attempts[k] = n]
      PROVE  redis' \in Redis /\ redis'.refresh = redis.refresh /\ redis'.challenge = redis.challenge
  BY <1>2
<1>3. ASSUME NEW k \in Counter, NEW b \in BOOLEAN, redis' = [redis EXCEPT !.expires[k] = b]
      PROVE  redis' \in Redis /\ redis'.refresh = redis.refresh /\ redis'.challenge = redis.challenge
  BY <1>3
<1>4. ASSUME NEW k \in Counter,
             redis' = [redis EXCEPT !.attempts = NoAttempts(k), !.expires = NoExpiry(k)]
      PROVE  redis' \in Redis /\ redis'.refresh = redis.refresh /\ redis'.challenge = redis.challenge
  BY <1>4 DEF NoAttempts, NoExpiry
<1>5. ASSUME NEW b \in BOOLEAN, redis' = [redis EXCEPT !.locked = b]
      PROVE  redis' \in Redis /\ redis'.refresh = redis.refresh /\ redis'.challenge = redis.challenge
  BY <1>5
<1>6. ASSUME NEW G \in SUBSET Grant, redis' = [redis EXCEPT !.grants = G]
      PROVE  redis' \in Redis /\ redis'.refresh = redis.refresh /\ redis'.challenge = redis.challenge
  BY <1>6
<1>7. ASSUME redis' = [redis EXCEPT !.refresh = 0]
      PROVE  redis' \in Redis /\ redis'.refresh = 0 /\ redis'.challenge = redis.challenge
  BY <1>7
<1>8. ASSUME NEW B \in SUBSET Nat, redis' = [redis EXCEPT !.blacklist = B]
      PROVE  redis' \in Redis /\ redis'.refresh = redis.refresh /\ redis'.challenge = redis.challenge
  BY <1>8
<1> HIDE DEF Redis
<1> QED
  BY <1>1, <1>2, <1>3, <1>4, <1>5, <1>6, <1>7, <1>8 DEF Edits

Counts == [Session \cup Grant -> Nat]

\* A step that neither stores a code or a token nor ends a session.
Plain ==
  /\ Edits
  /\ user' \in User \cup {None} /\ known' \subseteq Session \cup Grant
  /\ used' \in Counts /\ cut' \in Counts /\ faults' \in 0..MaxFaults
  /\ UNCHANGED <<sent, issued, requests, overlapped, endings, opened, spared>>

LEMMA PlainData ==
  ASSUME DataOK, Plain, user # None => user' # None, ready' \in BOOLEAN
  PROVE  DataOK'
<1>1. /\ redis' \in Redis /\ redis'.refresh \in {0, redis.refresh}
      /\ \A s \in Session : redis'.challenge[s] \in {0, redis.challenge[s]}
  BY EditsTyped DEF DataOK, Plain
<1> QED
  BY <1>1 DEF DataOK, Plain, Counts

\* The histories of codes and grants keep their type.
LEMMA UseTyped ==
  ASSUME used \in Counts, NEW x \in Session \cup Grant, Use(x)
  PROVE  used' \in Counts
BY DEF Use, Counts

LEMMA CutTyped ==
  ASSUME cut \in Counts, NEW W, CutOff(W)
  PROVE  cut' \in Counts
BY DEF CutOff, Counts

\* What a step writes besides the flow.
Data(w) ==
  \/ Plain
  \/ /\ StoreCode(w, job[w].s, "mail") \/ StoreCode(w, job[w].s, "forget")
     /\ job[w].s \in Session
  \/ StoreToken(w)
  \/ Revoke(w)

LEMMA ServesData ==
  ASSUME TypeOK, InFlight, NEW w \in Worker, Serve(w)
  PROVE  Data(w)
<1> USE DEF OnPath, First, Counting, At, OfSession, Data
<1>0. /\ pc[w] # "idle" => job[w] \in Job /\ Request(w) /\ OnPath(job[w].op, pc[w])
      /\ pc[w] \in PC /\ endings \in Nat /\ user \in User \cup {None}
      /\ job \in [Worker -> Job \cup {None}]
      /\ redis \in Redis /\ used \in Counts /\ cut \in Counts /\ faults \in 0..MaxFaults
      /\ known \subseteq Session \cup Grant
      /\ pc[w] # "idle" /\ job[w].op \in OfSession => job[w].s \in Session
      /\ pc[w] # "idle" /\ job[w].op = "verifyReset" => job[w].n \in Grant
      /\ pc[w] # "idle" /\ job[w].op = "reset" => job[w].arg \in Grant
  BY DEF TypeOK, InFlight, Request, Names, Counts
<1> DEFINE Rest == UNCHANGED <<sent, issued, requests, overlapped, endings, opened, spared>>
           Same == Rest /\ UNCHANGED <<user, known, used, cut, faults>>
<1>a. ASSUME Same, Edits
      PROVE  Plain
  BY <1>0, <1>a DEF Plain
<1>b. ASSUME Edits, Rest, UNCHANGED <<known, cut, faults>>, user' \in User \cup {None}, used' \in Counts
      PROVE  Plain
  BY <1>0, <1>b DEF Plain
<1>c. UNCHANGED <<user, sent, known, process, hist>> => Same
  BY DEF process, hist
<1>d. redis' = redis => Edits
  BY DEF Edits
<1> HIDE DEF Same
<1> USE <1>0
<1>1. CASE CountAttempt(w)
  <2> DEFINE k == CounterOf(w)
  <2>0. k \in Counter /\ redis.attempts[k] + 1 \in Nat /\ (redis.attempts[k] > 0) \in BOOLEAN
    BY DEF CounterOf, Counter, Redis
  <2>1. Same
    BY <1>1, <1>c DEF CountAttempt
  <2>2. CASE redis' = redis
    BY <1>a, <1>d, <2>1, <2>2
  <2>3. CASE ready
    <3> HIDE DEF k
    <3>1. ASSUME redis' = [redis EXCEPT !.attempts[k] = redis.attempts[k] + 1]
          PROVE  Edits
      BY <2>0, <3>1 DEF Edits
    <3>2. ASSUME redis' = [redis EXCEPT !.expires[k] = redis.attempts[k] > 0]
          PROVE  Edits
      BY <2>0, <3>2 DEF Edits
    <3>3. ASSUME redis' = [redis EXCEPT !.locked = TRUE]
          PROVE  Edits
      BY <3>3 DEF Edits
    <3>4. ASSUME pc[w] = "limit", CounterOf(w) # "login",
                 redis' = [redis EXCEPT !.challenge = NoChallenge(job[w].s)]
          PROVE  Edits
      BY <3>4 DEF Edits, CounterOf
    <3>5. ASSUME redis' = [redis EXCEPT !.attempts = NoAttempts(k), !.expires = NoExpiry(k)]
          PROVE  Edits
      BY <2>0, <3>5 DEF Edits
    <3>6. Edits
      BY <1>1, <2>3, <3>1, <3>2, <3>3, <3>4, <3>5 DEF CountAttempt, Write, k
    <3> QED
      BY <1>a, <2>1, <3>6
  <2>4. CASE ~ready
    <3>1. redis' = redis
      BY <1>1, <2>4 DEF CountAttempt, Write
    <3> QED
      BY <2>2, <3>1
  <2> QED
    BY <2>3, <2>4
<1>2. CASE MailCode(w)
  <2>1. Edits /\ known' \subseteq Session \cup Grant /\ Rest /\ UNCHANGED <<user, used, cut, faults>>
    BY <1>2, <1>d DEF MailCode, process, hist
  <2> QED
    BY <2>1 DEF Plain
<1>3. CASE CleanUp(w)
  <2>1. Edits /\ Same
    BY <1>3, <1>c DEF CleanUp, Edits, Write
  <2> QED
    BY <1>a, <2>1
<1>4. CASE Register(w)
  BY <1>4, <1>a, <1>c, <1>d DEF Register
<1>5. CASE Resend(w)
  BY <1>5, <1>a, <1>c, <1>d DEF Resend
<1>6. CASE Verify(w)
  <2>1. CASE VerifyCreate(w)
    <3>1. /\ redis' = redis /\ Rest /\ UNCHANGED <<known, cut, faults>>
          /\ Use(job[w].s) \/ UNCHANGED used
          /\ job[w].s \in Session
      BY <2>1 DEF VerifyCreate, process
    <3>2. user' \in User \cup {None}
      BY <2>1 DEF VerifyCreate, User
    <3>3. used' \in Counts
      BY <3>1, UseTyped
    <3> QED
      BY <1>b, <1>d, <3>1, <3>2, <3>3
  <2>2. CASE At(w, "verify", "drop")
    <3>1. Edits /\ Same
      BY <1>6, <1>c, <2>2 DEF Verify, VerifyCreate, Edits, Write
    <3> QED
      BY <1>a, <3>1
  <2>3. CASE At(w, "verify", "forget")
    <3>1. Edits /\ Same
      BY <1>6, <1>c, <2>3 DEF Verify, VerifyCreate, Edits, Write, Counter
    <3> QED
      BY <1>a, <3>1
  <2> QED
    BY <1>6, <1>a, <1>c, <1>d, <2>1, <2>2, <2>3 DEF Verify
<1>7. CASE Login(w)
  <2>1. CASE At(w, "login", "forget")
    <3>1. Edits /\ Same
      BY <1>7, <1>c, <2>1 DEF Login, Edits, Write, Counter
    <3> QED
      BY <1>a, <3>1
  <2>2. CASE At(w, "login", "unlock")
    <3>1. Edits /\ Same
      BY <1>7, <1>c, <2>2 DEF Login, Edits, Write
    <3> QED
      BY <1>a, <3>1
  <2> QED
    BY <1>7, <1>a, <1>c, <1>d, <2>1, <2>2 DEF Login
<1>8. CASE Refresh(w)
  BY <1>8, <1>a, <1>c, <1>d DEF Refresh
<1>9. CASE Forgot(w)
  <2>1. CASE pc[w] = "store"
    BY <1>9, <2>1 DEF Forgot
  <2>2. CASE pc[w] # "store"
    <3>1. Edits /\ known' \subseteq Session \cup Grant /\ Rest /\ UNCHANGED <<user, used, cut, faults>>
      BY <1>9, <1>d, <2>2 DEF Forgot, process, hist
    <3> QED
      BY <3>1 DEF Plain
  <2> QED
    BY <2>1, <2>2
<1>11. CASE ResendReset(w)
  <2>1. CASE At(w, "resendReset", "forget")
    <3>1. Edits /\ Same
      BY <1>11, <1>c, <2>1 DEF ResendReset, Edits, Write, Counter
    <3> QED
      BY <1>a, <3>1
  <2> QED
    BY <1>11, <1>a, <1>c, <1>d, <2>1 DEF ResendReset
<1>12. CASE VerifyReset(w)
  <2>1. CASE At(w, "verifyReset", "grant")
    <3>1. /\ Write([redis EXCEPT !.grants = redis.grants \cup {job[w].n}])
          /\ Use(job[w].s) /\ Rest /\ UNCHANGED <<user, known, cut, faults>>
      BY <1>12, <2>1 DEF VerifyReset, process
    <3>2. redis.grants \cup {job[w].n} \in SUBSET Grant
      BY <2>1 DEF Redis
    <3>3. Edits
      BY <3>1, <3>2 DEF Edits, Write
    <3>4. used' \in Counts
      BY <2>1, <3>1, UseTyped
    <3> QED
      BY <1>b, <3>1, <3>3, <3>4
  <2>2. CASE At(w, "verifyReset", "drop")
    <3>1. Edits /\ Same
      BY <1>12, <1>c, <2>2 DEF VerifyReset, VerifyResetDrop, Edits, Write
    <3> QED
      BY <1>a, <3>1
  <2>3. CASE At(w, "verifyReset", "forget")
    <3>1. Edits /\ known' = known \cup {job[w].n} /\ Rest /\ UNCHANGED <<user, used, cut, faults>>
      BY <1>12, <2>3 DEF VerifyReset, Edits, Write, Counter, process, hist
    <3> QED
      BY <2>3, <3>1 DEF Plain
  <2> QED
    BY <1>12, <1>a, <1>c, <1>d, <2>1, <2>2, <2>3 DEF VerifyReset
<1>b2. ASSUME NEW l \in {"spend", "revoke"}, WritePassword(w, l)
      PROVE  Plain
  <2>1. /\ redis' = redis /\ Rest /\ UNCHANGED <<known, cut, faults>>
        /\ UNCHANGED used \/ (job[w].op = "reset" /\ Use(job[w].arg))
        /\ pc[w] = "write"
    BY <1>b2 DEF WritePassword, process
  <2>2. user' \in User \cup {None}
    BY <1>b2 DEF WritePassword, Live, User
  <2>3. used' \in Counts
    BY <2>1, UseTyped
  <2> QED
    BY <1>b, <1>d, <2>1, <2>2, <2>3
<1>13. CASE Reset(w)
  <2>1. CASE At(w, "reset", "drop") \/ At(w, "reset", "spend")
    <3>1. /\ Write([redis EXCEPT !.grants = redis.grants \ {job[w].arg}]) /\ Same
      BY <1>13, <1>c, <2>1 DEF Reset, WritePassword
    <3>2. redis.grants \ {job[w].arg} \in SUBSET Grant
      BY DEF Redis
    <3>3. Edits
      BY <3>1, <3>2 DEF Edits, Write
    <3> QED
      BY <1>a, <3>1, <3>3
  <2> QED
    BY <1>13, <1>a, <1>c, <1>d, <1>b2, <2>1 DEF Reset
<1>14. CASE Change(w)
  BY <1>14, <1>a, <1>c, <1>d, <1>b2 DEF Change
<1>15. CASE Fault(w)
  <2>1. /\ redis' = redis /\ Rest /\ UNCHANGED <<user, known, used>> /\ CutOff({w})
        /\ faults' \in 0..MaxFaults
    BY <1>15, AccountAssumption DEF Fault
  <2>2. cut' \in Counts
    BY <2>1, CutTyped
  <2> QED
    BY <1>d, <2>1, <2>2 DEF Plain
<1>16. CASE Authenticate(w)
  BY <1>16, <1>a, <1>c, <1>d DEF Authenticate
<1>17. CASE Logout(w)
  <2>1. Write([redis EXCEPT !.blacklist = redis.blacklist \cup {job[w].n}]) /\ Same
    BY <1>17, <1>c DEF Logout
  <2>2. redis.blacklist \cup {job[w].n} \in SUBSET Nat
    BY <1>17 DEF Redis, Logout, Job
  <2>3. Edits
    BY <2>1, <2>2 DEF Edits, Write
  <2> QED
    BY <1>a, <2>1, <2>3
<1> QED
  BY <1>1, <1>2, <1>3, <1>4, <1>5, <1>6, <1>7, <1>8, <1>9, <1>11, <1>12, <1>13, <1>14, <1>15, <1>16,
     <1>17 DEF Serve

LEMMA DataTyped ==
  ASSUME DataOK, FlowOK, NEW w \in Worker, Data(w), Moves(w)
  PROVE  DataOK'
<1>0. /\ pc[w] # "idle" => job[w] \in Job /\ Request(w)
      /\ redis \in Redis /\ sent \in [Session -> Nat] /\ used \in [Session \cup Grant -> Nat]
      /\ issued \in Nat /\ endings \in Nat /\ opened \in 0..endings
  BY DEF DataOK, FlowOK, InFlight
<1>1. CASE Plain
  BY <1>1, PlainData DEF Moves, DataOK
<1>5. ASSUME NEW s \in Session, sent' = [sent EXCEPT ![s] = @ + 1],
             Write([redis EXCEPT !.challenge[s] = sent[s] + 1]),
             UNCHANGED <<user, known, process, hist>>
      PROVE  DataOK'
  <2> DEFINE c == [redis.challenge EXCEPT ![s] = sent[s] + 1]
  <2>1. redis' = [redis EXCEPT !.challenge = c] \/ redis' = redis
    BY <1>5 DEF Redis, Write
  <2>2. c \in [Session -> Nat] /\ \A x \in Session : x # s => c[x] = redis.challenge[x]
    BY <1>0 DEF Redis
  <2>3. c[s] = sent[s] + 1
    BY <1>0 DEF Redis
  <2> HIDE DEF c
  <2>4. /\ redis' \in Redis /\ redis'.refresh = redis.refresh
        /\ redis'.challenge = c \/ redis'.challenge = redis.challenge
    BY <1>0, <2>1, <2>2 DEF Redis
  <2>5. ASSUME NEW x \in Session
        PROVE  redis'.challenge[x] <= sent'[x]
    <3>1. redis.challenge[x] <= sent[x] /\ sent[x] \in Nat /\ redis.challenge[x] \in Nat
      BY <1>0 DEF DataOK, Redis
    <3>2. CASE x = s
      <4>1. sent'[x] = sent[s] + 1
        BY <1>0, <1>5, <3>2
      <4> QED
        BY <4>1, <3>1, <3>2, <2>3, <2>4, <1>0
    <3>3. CASE x # s
      <4>1. sent'[x] = sent[x]
        BY <1>0, <1>5, <3>3
      <4> QED
        BY <4>1, <3>1, <3>3, <2>2, <2>4
    <3> QED
      BY <3>2, <3>3
  <2>6. sent' \in [Session -> Nat]
    BY <1>0, <1>5
  <2> QED
    BY <1>5, <2>4, <2>5, <2>6 DEF DataOK, process, hist
<1>6. CASE StoreToken(w)
  <2>1. PICK n \in {issued, issued + 1} \ {0} : issued' = n /\ Write([redis EXCEPT !.refresh = n])
    BY <1>6 DEF StoreToken
  <2>2. /\ opened' = opened \/ opened' = job[w].since
        /\ spared' = spared \/ spared' = job[w].raced
        /\ UNCHANGED <<user, sent, known, ready, requests, faults, overlapped, endings, used, cut>>
        /\ pc[w] = "token"
    BY <1>6 DEF StoreToken
  <2>3. user # None /\ job[w].since \in 0..endings /\ job[w].raced \in BOOLEAN
    BY <1>0, <2>2 DEF Request, HasUser, Job
  <2>4. n \in Nat /\ issued <= n
    BY <1>0, <2>1
  <2>5. /\ redis' \in Redis /\ redis'.challenge = redis.challenge
        /\ redis'.refresh = n \/ redis'.refresh = redis.refresh
    <3>1. CASE redis' = [redis EXCEPT !.refresh = n]
      BY <1>0, <2>4, <3>1 DEF Redis
    <3> QED
      BY <1>0, <2>1, <3>1 DEF Write
  <2>6. redis'.refresh <= issued'
    BY <1>0, <2>1, <2>4, <2>5 DEF DataOK, Redis
  <2>7. opened' \in 0..endings' /\ spared' \in BOOLEAN /\ issued' \in Nat
    BY <1>0, <2>1, <2>2, <2>3, <2>4 DEF DataOK
  <2> QED
    BY <1>0, <2>2, <2>3, <2>5, <2>6, <2>7 DEF DataOK
<1>7. CASE Revoke(w)
  <2>1. /\ Write([redis EXCEPT !.refresh = 0]) /\ endings' = endings + 1 /\ spared' = ~ready
        /\ UNCHANGED <<user, sent, known, process, overlapped, opened, used, cut>>
    BY <1>7 DEF Revoke, EndSessions
  <2>2. /\ redis' \in Redis /\ redis'.challenge = redis.challenge
        /\ redis'.refresh = 0 \/ redis'.refresh = redis.refresh
    <3>1. CASE redis' = [redis EXCEPT !.refresh = 0]
      BY <1>0, <3>1 DEF Redis
    <3> QED
      BY <1>0, <2>1, <3>1 DEF Write
  <2>3. opened \in 0..endings' /\ spared' \in BOOLEAN
    BY <1>0, <2>1
  <2> QED
    BY <1>0, <2>1, <2>2, <2>3 DEF DataOK, process
<1> QED
  BY <1>1, <1>5, <1>6, <1>7 DEF Data, StoreCode

\* An admin or the user changes the row; a key expires.
LEMMA EnvironmentPlain ==
  ASSUME DataOK, Expire \/ \E status \in {"Active", "Banned", "Deleted"} : SetStatus(status)
  PROVE  /\ Plain /\ (user # None => user' # None)
         /\ UNCHANGED <<pc, job, process, hist, known>>
<1>0. redis \in Redis /\ user \in User \cup {None}
  BY DEF DataOK
<1>1. ASSUME NEW st \in {"Active", "Banned", "Deleted"}, SetStatus(st)
      PROVE  /\ user' \in User /\ Edits
             /\ UNCHANGED <<pc, job, sent, known, process, hist>>
  BY <1>0, <1>1 DEF SetStatus, Live, User, Edits
<1>2. ASSUME Expire
      PROVE  Edits /\ UNCHANGED <<user, pc, job, sent, known, process, hist>>
  <2>1. ASSUME NEW s \in Session, redis' = [redis EXCEPT !.challenge[s] = 0]
        PROVE  redis' = [redis EXCEPT !.challenge = NoChallenge(s)]
    BY <1>0, <2>1 DEF Redis, NoChallenge
  <2>2. ASSUME NEW k \in Counter, redis' = [redis EXCEPT !.attempts[k] = 0, !.expires[k] = FALSE]
        PROVE  redis' = [redis EXCEPT !.attempts = NoAttempts(k), !.expires = NoExpiry(k)]
    BY <1>0, <2>2 DEF Redis, NoAttempts, NoExpiry
  <2>3. redis.grants \subseteq Grant
    BY <1>0 DEF Redis
  <2> QED
    BY <1>2, <2>1, <2>2, <2>3 DEF Expire, Edits
<1>3. user' \in User \cup {None} /\ (user # None => user' # None) /\ Edits
      /\ UNCHANGED <<pc, job, sent, known, process, hist>>
  BY <1>0, <1>1, <1>2, AccountAssumption
<1> QED
  BY <1>3 DEF Plain, DataOK, Counts, process, hist

LEMMA InitTyped == Init => TypeOK /\ InFlight
<1> SUFFICES ASSUME Init PROVE TypeOK /\ InFlight
  OBVIOUS
<1>1. /\ pc = [w \in Worker |-> "idle"] /\ job = [w \in Worker |-> None] /\ "idle" \in PC
  BY DEF Init, PC
<1>2. InFlight
  BY <1>1 DEF InFlight, Request
<1>3. /\ redis \in Redis /\ redis.refresh = issued /\ \A s \in Session : redis.challenge[s] = 0
      /\ issued \in {0, 1} /\ (issued > 0 => user # None)
  <2>1. issued \in {0, 1} /\ (issued > 0 => user # None)
    BY AccountAssumption DEF Init, User
  <2> QED
    BY <2>1 DEF Init, Redis
<1>4. user \in User \cup {None}
  BY DEF Init, User
<1>5. pc \in [Worker -> PC] /\ job \in [Worker -> Job \cup {None}]
      /\ \A w \in Worker : pc[w] = "idle" <=> job[w] = None
  BY <1>1
<1>6. /\ sent = [s \in Session |-> 0] /\ known = {} /\ requests = 0 /\ faults = 0
      /\ overlapped = FALSE /\ endings = 0 /\ opened = 0 /\ spared = FALSE /\ ready \in BOOLEAN
      /\ used = [x \in Session \cup Grant |-> 0] /\ cut = [x \in Session \cup Grant |-> 0]
  BY DEF Init
<1>7. requests \in 0..MaxRequests /\ faults \in 0..MaxFaults
  BY <1>6, AccountAssumption
<1>8. /\ sent \in [Session -> Nat] /\ used \in [Session \cup Grant -> Nat]
      /\ cut \in [Session \cup Grant -> Nat] /\ known \subseteq Session \cup Grant
      /\ \A s \in Session : redis.challenge[s] <= sent[s]
  BY <1>3, <1>6
<1>9. /\ issued \in Nat /\ endings \in Nat
      /\ opened \in 0..endings /\ redis.refresh <= issued
  BY <1>3, <1>6
<1>10. overlapped \in BOOLEAN /\ spared \in BOOLEAN /\ ready \in BOOLEAN
  BY <1>6, Zenon
<1> QED
  BY <1>2, <1>3, <1>4, <1>5, <1>7, <1>8, <1>9, <1>10 DEF TypeOK

LEMMA BeginsData ==
  ASSUME DataOK, NEW w \in Worker, Begins(w)
  PROVE  DataOK'
BY AccountAssumption DEF DataOK, Begins, data

LEMMA StepTyped ==
  ASSUME TypeOK, InFlight, [Next]_vars
  PROVE  (TypeOK /\ InFlight)'
<1>0. DataOK /\ FlowOK
  BY TypeParts
<1>1. ASSUME NEW w \in Worker, Requests(w)
      PROVE  DataOK' /\ FlowOK'
  <2>1. Begins(w)
    BY <1>1, RequestsBegin
  <2> QED
    BY <1>0, <2>1, BeginsFlow, BeginsData
<1>2. ASSUME NEW w \in Worker, Serve(w)
      PROVE  DataOK' /\ FlowOK'
  <2>1. Moves(w) /\ Data(w)
    BY <1>2, ServesMove, ServesData
  <2>2. DataOK'
    BY <1>0, <2>1, DataTyped
  <2> QED
    BY <2>1, <2>2, MovesFlow DEF DataOK
<1>3. ASSUME DataOK', UNCHANGED <<pc, job, endings, ready>>, user # None => user' # None
      PROVE  FlowOK'
  BY <1>0, <1>3 DEF FlowOK, InFlight, Request
<1>4. ASSUME Expire \/ \E status \in {"Active", "Banned", "Deleted"} : SetStatus(status)
      PROVE  DataOK' /\ FlowOK'
  <2>1. /\ Plain /\ (user # None => user' # None)
        /\ UNCHANGED <<pc, job, process, hist>>
    BY <1>0, <1>4, EnvironmentPlain
  <2>2. DataOK'
    BY <1>0, <2>1, PlainData DEF process, DataOK
  <2> QED
    BY <1>3, <2>1, <2>2 DEF process, hist
<1>5. ASSUME Crash
      PROVE  DataOK' /\ FlowOK'
  <2>1. /\ pc' = [w \in Worker |-> "idle"] /\ job' = [w \in Worker |-> None] /\ "idle" \in PC
        /\ faults' \in 0..MaxFaults /\ ready' \in BOOLEAN /\ CutOff(Worker)
        /\ UNCHANGED <<user, redis, sent, known, issued, requests,
                        overlapped, endings, opened, spared, used>>
    BY <1>0, <1>5, AccountAssumption DEF Crash, PC, DataOK
  <2>2. FlowOK'
    BY <2>1 DEF FlowOK, InFlight, Request
  <2>3. cut' \in Counts
    BY <1>0, <2>1, CutTyped DEF DataOK, Counts
  <2>4. Plain
    BY <1>0, <2>1, <2>3 DEF Plain, Edits, DataOK, Counts
  <2> QED
    BY <1>0, <2>1, <2>2, <2>4, PlainData
<1>6. ASSUME UNCHANGED vars
      PROVE  DataOK' /\ FlowOK'
  <2>1. DataOK'
    BY <1>0, <1>6 DEF DataOK, vars, process, hist
  <2> QED
    BY <2>1, <1>6, <1>3 DEF vars, process, hist
<1>7. DataOK' /\ FlowOK'
  BY <1>1, <1>2, <1>4, <1>5, <1>6 DEF Next
<1> QED
  BY <1>7 DEF TypeOK, DataOK, FlowOK

\* No answer to a client, no key and no request in flight is ever ill-formed;
\* in particular no token is issued before the email has an account.
THEOREM TypeCorrect == Spec => []TypeOK
<1>1. Spec => [](TypeOK /\ InFlight)
  BY InitTyped, StepTyped, PTL DEF Spec
<1> QED
  BY <1>1, PTL

-----------------------------------------------------------------------------
(* Counters of wrong attempts.                                             *)

\* While nothing has failed, a counter at its limit is about to be deleted, and a
\* counter without a time to live about to be given one.
Counted ==
  faults = 0 =>
    \A k \in Counter :
      /\ redis.attempts[k] >= MaxAttempts =>
           \E w \in Worker : pc[w] \in {"limit", "zero"} /\ CounterOf(w) = k
      /\ redis.attempts[k] > 0 /\ ~redis.expires[k] =>
           \E w \in Worker : pc[w] = "expire" /\ CounterOf(w) = k

\* A counter is left alone or deleted.
Left(k) ==
  \/ redis'.attempts[k] = redis.attempts[k] /\ redis'.expires[k] = redis.expires[k]
  \/ redis'.attempts[k] = 0

CountersLeft == \A k \in Counter : Left(k)

LEMMA LeftByOthers ==
  ASSUME redis \in Redis,
         \/ redis'.attempts = redis.attempts /\ redis'.expires = redis.expires
         \/ \E k \in Counter :
              redis' = [redis EXCEPT !.attempts = NoAttempts(k), !.expires = NoExpiry(k)]
  PROVE  CountersLeft
<1>1. ASSUME NEW k \in Counter,
             redis' = [redis EXCEPT !.attempts = NoAttempts(k), !.expires = NoExpiry(k)]
      PROVE  CountersLeft
  <2>1. redis'.attempts = NoAttempts(k) /\ redis'.expires = NoExpiry(k)
    BY <1>1 DEF Redis
  <2> QED
    BY <2>1 DEF CountersLeft, Left, Redis, NoAttempts, NoExpiry
<1> QED
  BY <1>1 DEF CountersLeft, Left

LEMMA ServesLeave ==
  ASSUME TypeOK, NEW w \in Worker, Serve(w), pc[w] \notin Counting
  PROVE  CountersLeft
<1> DEFINE Same == redis'.attempts = redis.attempts /\ redis'.expires = redis.expires
           Deleted(k) == redis' = [redis EXCEPT !.attempts = NoAttempts(k), !.expires = NoExpiry(k)]
<1>0. redis \in Redis
  BY DEF TypeOK
<1>1. Same \/ \E k \in Counter : Deleted(k)
  <2> USE <1>0 DEF Redis, At
  <2>1. CASE MailCode(w) \/ CleanUp(w) \/ Register(w) \/ Resend(w) \/ StoreToken(w)
    BY <2>1 DEF MailCode, CleanUp, Register, Resend, StoreToken, StoreCode, Write
  <2>2. CASE Verify(w)
    BY <2>2 DEF Verify, VerifyCreate, Counter, Write
  <2>3. CASE Login(w) \/ Refresh(w) \/ Revoke(w) \/ Forgot(w)
    BY <2>3 DEF Login, Refresh, Revoke, Forgot, StoreCode, Counter, Write
  <2>4. CASE ResendReset(w) \/ VerifyReset(w)
    BY <2>4 DEF ResendReset, VerifyReset, VerifyResetDrop, StoreCode, Counter, Write
  <2>5. CASE Reset(w) \/ Change(w) \/ Fault(w)
    BY <2>5 DEF Reset, Change, WritePassword, Fault, Write
  <2>6. CASE Authenticate(w) \/ Logout(w)
    BY <2>6 DEF Authenticate, Logout, Write
  <2> QED
    BY <2>1, <2>2, <2>3, <2>4, <2>5, <2>6 DEF Serve, CountAttempt, Counting
<1> QED
  BY <1>0, <1>1, LeftByOthers

\* A step of a request that is not counting.
LEMMA QuietCounted ==
  ASSUME TypeOK, Counted, CountersLeft, faults' = faults,
         \A v \in Worker : pc[v] \in Counting => pc'[v] = pc[v] /\ job'[v].op = job[v].op
  PROVE  Counted'
<1> SUFFICES ASSUME faults = 0, NEW k \in Counter
             PROVE  /\ redis'.attempts[k] >= MaxAttempts =>
                         \E w \in Worker : pc'[w] \in {"limit", "zero"} /\ CounterOf(w)' = k
                    /\ redis'.attempts[k] > 0 /\ ~redis'.expires[k] =>
                         \E w \in Worker : pc'[w] = "expire" /\ CounterOf(w)' = k
  BY DEF Counted
<1>1. CASE redis'.attempts[k] = 0
  BY <1>1, AccountAssumption
<1>2. CASE redis'.attempts[k] = redis.attempts[k] /\ redis'.expires[k] = redis.expires[k]
  BY <1>2 DEF Counted, Counting, CounterOf
<1> QED
  BY <1>1, <1>2 DEF CountersLeft, Left

LEMMA CountAttemptCounted ==
  ASSUME TypeOK, InFlight, Counted, NEW w \in Worker, CountAttempt(w)
  PROVE  Counted'
<1> DEFINE c == CounterOf(w)
<1>0. /\ c \in Counter /\ redis \in Redis /\ faults' = faults
      /\ \A k \in Counter : redis.attempts[k] \in Nat /\ redis.expires[k] \in BOOLEAN
      /\ pc \in [Worker -> PC] /\ job \in [Worker -> Job \cup {None}]
      /\ MaxAttempts \in Nat /\ MaxAttempts > 1 /\ pc[w] # "idle"
      /\ pc[w] # "incr" => ready
  BY AccountAssumption DEF CounterOf, Counter, TypeOK, Redis, CountAttempt, process, InFlight, Request,
     HasRead
<1> SUFFICES ASSUME faults = 0, NEW k \in Counter
             PROVE  /\ redis'.attempts[k] >= MaxAttempts =>
                         \E v \in Worker : pc'[v] \in {"limit", "zero"} /\ CounterOf(v)' = k
                    /\ redis'.attempts[k] > 0 /\ ~redis'.expires[k] =>
                         \E v \in Worker : pc'[v] = "expire" /\ CounterOf(v)' = k
  BY <1>0 DEF Counted
<1>1. /\ redis.attempts[k] >= MaxAttempts =>
           \E v \in Worker : pc[v] \in {"limit", "zero"} /\ CounterOf(v) = k
      /\ redis.attempts[k] > 0 /\ ~redis.expires[k] =>
           \E v \in Worker : pc[v] = "expire" /\ CounterOf(v) = k
  BY DEF Counted
<1>2. \A v \in Worker \ {w} : pc'[v] = pc[v] /\ CounterOf(v)' = CounterOf(v)
  BY <1>0 DEF CountAttempt, AfterCount, Goto, Respond, CounterOf
<1>2a. CASE ~ready
  <2>1. redis' = redis /\ AfterCount(w, 0) /\ pc[w] = "incr"
    BY <1>0, <1>2a DEF CountAttempt, SetsExpiry, Write
  <2> QED
    BY <1>0, <1>1, <1>2, <2>1 DEF AfterCount
<1>3. CASE pc[w] = "incr" /\ ready
  <2> DEFINE n == redis.attempts[c] + 1
  <2>1. /\ redis' = [redis EXCEPT !.attempts[c] = n]
        /\ IF n = 1 THEN Goto(w, "expire") /\ UNCHANGED job ELSE AfterCount(w, n)
    BY <1>3 DEF CountAttempt, SetsExpiry, Write
  <2>2. /\ redis'.expires = redis.expires /\ redis'.attempts[c] = n
        /\ k # c => redis'.attempts[k] = redis.attempts[k]
    BY <1>0, <2>1 DEF Redis
  <2>3. n = 1 => pc'[w] = "expire" /\ CounterOf(w)' = c
    BY <1>0, <2>1 DEF Goto, CounterOf
  <2>4. n # 1 /\ n >= MaxAttempts => pc'[w] = "limit" /\ CounterOf(w)' = c
    BY <1>0, <2>1 DEF Goto, CounterOf, AfterCount
  <2>5. redis.attempts[c] \in Nat
    BY <1>0
  <2> HIDE DEF c
  <2> QED
    BY <1>0, <1>1, <1>2, <1>3, <2>2, <2>3, <2>4, <2>5
<1>4. CASE pc[w] = "expire"
  <2>1. redis' = [redis EXCEPT !.expires[c] = redis.attempts[c] > 0]
    BY <1>0, <1>4 DEF CountAttempt, Write
  <2>2. /\ redis'.attempts = redis.attempts /\ redis'.expires[c] = (redis.attempts[c] > 0)
        /\ k # c => redis'.expires[k] = redis.expires[k]
    BY <1>0, <2>1 DEF Redis
  <2> HIDE DEF c
  <2>3. CASE k = c
    BY <1>0, <1>1, <1>2, <1>4, <2>2, <2>3
  <2>4. CASE k # c
    <3>1. CounterOf(w) = c
      BY DEF c
    <3> QED
      BY <1>0, <1>1, <1>2, <1>4, <2>2, <2>4, <3>1
  <2> QED
    BY <2>3, <2>4
<1>5. CASE pc[w] = "limit"
  <2>1. redis'.attempts = redis.attempts /\ redis'.expires = redis.expires
    BY <1>0, <1>5 DEF CountAttempt, Redis, Write
  <2>2. pc'[w] = "zero" /\ CounterOf(w)' = CounterOf(w)
    BY <1>0, <1>5 DEF CountAttempt, Goto, CounterOf
  <2> HIDE DEF c
  <2> QED
    BY <1>1, <1>2, <1>5, <2>1, <2>2
<1>6. CASE pc[w] = "zero"
  <2>1. redis' = [redis EXCEPT !.attempts = NoAttempts(c), !.expires = NoExpiry(c)]
    BY <1>0, <1>6 DEF CountAttempt, Write
  <2>2. /\ redis'.attempts[c] = 0
        /\ k # c => redis'.attempts[k] = redis.attempts[k] /\ redis'.expires[k] = redis.expires[k]
    BY <1>0, <2>1 DEF Redis, NoAttempts, NoExpiry
  <2>3. CounterOf(w) = c
    OBVIOUS
  <2> HIDE DEF c
  <2> QED
    BY <1>0, <1>1, <1>2, <1>6, <2>2, <2>3
<1> QED
  BY <1>0, <1>2a, <1>3, <1>4, <1>5, <1>6 DEF CountAttempt

LEMMA StepCounted ==
  ASSUME TypeOK, InFlight, Counted, [Next]_vars
  PROVE  Counted'
<1>0. /\ redis \in Redis /\ pc \in [Worker -> PC] /\ job \in [Worker -> Job \cup {None}]
      /\ faults \in Nat
  BY DEF TypeOK
<1>1. ASSUME NEW w \in Worker, Requests(w)
      PROVE  Counted'
  <2>1. Begins(w)
    BY <1>1, RequestsBegin
  <2>2. CountersLeft /\ faults' = faults
    BY <1>0, <2>1, LeftByOthers DEF Begins, data
  <2>3. \A v \in Worker : pc[v] \in Counting => pc'[v] = pc[v] /\ job'[v].op = job[v].op
    BY <1>0, <2>1 DEF Begins, Goto, Counting
  <2> QED
    BY <2>2, <2>3, QuietCounted
<1>2. ASSUME NEW w \in Worker, Serve(w)
      PROVE  Counted'
  <2>1. CASE Fault(w)
    BY <2>1, <1>0 DEF Fault, Counted
  <2>2. CASE CountAttempt(w)
    BY <2>2, CountAttemptCounted
  <2>3. CASE ~Fault(w) /\ ~CountAttempt(w)
    <3>1. pc[w] \notin Counting
      BY <1>2, <2>3 DEF Serve, Counting, MailCode, CleanUp, Register, Resend, Verify, VerifyCreate,
           StoreToken, Login, Refresh, Authenticate, Logout, Revoke, Forgot, ResendReset,
           VerifyReset, Reset, Change, WritePassword, At
    <3>2. CountersLeft
      BY <1>2, <3>1, ServesLeave
    <3>3. Moves(w)
      BY <1>2, ServesMove
    <3>4. \A v \in Worker : pc[v] \in Counting => pc'[v] = pc[v] /\ job'[v].op = job[v].op
      <4>1. CASE EndSessions(w)
        <5>1. ASSUME NEW v \in Worker, pc[v] \in Counting
              PROVE  pc'[v] = pc[v] /\ job'[v] = [job[v] EXCEPT !.raced = TRUE] /\ job[v] \in Job
          BY <1>0, <3>1, <4>1, <5>1 DEF EndSessions, Goto, TypeOK, Counting
        <5> QED
          BY <5>1 DEF Job
      <4> QED
        BY <1>0, <3>1, <3>3, <4>1 DEF Moves, Respond, Goto
    <3>5. faults' = faults
      BY <1>2, <2>3 DEF Serve, MailCode, CleanUp, Register, Resend, Verify, VerifyCreate,
           StoreToken, Login, Refresh, Authenticate, Logout, Revoke, Forgot, ResendReset,
           VerifyReset, Reset, Change, WritePassword, StoreCode, process
    <3> QED
      BY <3>2, <3>4, <3>5, QuietCounted
  <2> QED
    BY <2>1, <2>2, <2>3
<1>3. CASE \E status \in {"Active", "Banned", "Deleted"} : SetStatus(status)
  <2>1. CountersLeft
    BY <1>0, <1>3, LeftByOthers DEF SetStatus
  <2> QED
    BY <1>3, <2>1, QuietCounted DEF SetStatus, process
<1>4. CASE Expire
  <2>1. ASSUME NEW k \in Counter, redis' = [redis EXCEPT !.attempts[k] = 0, !.expires[k] = FALSE]
        PROVE  CountersLeft
    BY <1>0, <2>1 DEF CountersLeft, Left, Redis
  <2>2. ASSUME redis'.attempts = redis.attempts, redis'.expires = redis.expires
        PROVE  CountersLeft
    BY <1>0, <2>2, LeftByOthers
  <2>3. CountersLeft
    BY <1>0, <1>4, <2>1, <2>2 DEF Expire, Redis
  <2> QED
    BY <1>4, <2>3, QuietCounted DEF Expire, process
<1>5. CASE Crash
  BY <1>0, <1>5 DEF Crash, Counted
<1>6. CASE UNCHANGED vars
  BY <1>6 DEF Counted, CounterOf, vars, process
<1> QED
  BY <1>1, <1>2, <1>3, <1>4, <1>5, <1>6 DEF Next

\* While nothing has failed, a counter of wrong attempts is below its limit and
\* expires whenever no request is in flight: however requests interleave, no
\* counter locks the account for good.
THEOREM CountersAreSound == Spec => []CountersSound
<1>1. Init => Counted
  BY AccountAssumption DEF Init, Counted
<1>2. TypeOK /\ InFlight /\ Counted /\ [Next]_vars => Counted'
  BY StepCounted
<1>3. TypeOK /\ Counted => CountersSound
  BY AccountAssumption DEF Counted, CountersSound, TypeOK, Redis
<1>4. Spec => []Counted
  BY <1>1, <1>2, InitTyped, StepTyped, PTL DEF Spec
<1> QED
  BY <1>3, <1>4, TypeCorrect, PTL

-----------------------------------------------------------------------------
(* Ended sessions.                                                         *)

\* A request in flight that no ending has met goes on with a session opened after
\* the last one.
Current ==
  /\ \A w \in Worker : pc[w] # "idle" /\ ~job[w].raced => job[w].since = endings
  /\ EndedSessionsStayEnded

\* A request in flight keeps what it has, or has found a token, or is met by an ending.
LEMMA MovesCurrent ==
  ASSUME TypeOK, InFlight, Current, NEW w \in Worker, Moves(w),
         endings' = endings \/ EndSessions(w)
  PROVE  \A v \in Worker : pc'[v] # "idle" /\ ~job'[v].raced => job'[v].since = endings'
<1>0. /\ pc \in [Worker -> PC] /\ job \in [Worker -> Job \cup {None}]
      /\ \A v \in Worker : pc[v] = "idle" <=> job[v] = None
      /\ opened \in Nat /\ spared \in BOOLEAN /\ pc[w] # "idle"
      /\ \A v \in Worker : pc[v] # "idle" => job[v] \in Job
      /\ \A v \in Worker : pc[v] # "idle" /\ ~job[v].raced => job[v].since = endings
  BY DEF TypeOK, Current, Moves
<1>1. CASE Respond(w) /\ endings' = endings
  BY <1>0, <1>1 DEF Respond, Goto
<1>2. CASE EndSessions(w)
  <2>1. /\ pc' = [pc EXCEPT ![w] = "idle"]
        /\ job' = [v \in Worker |-> IF v = w \/ job[v] = None THEN None
                                   ELSE [job[v] EXCEPT !.raced = TRUE]]
    BY <1>2 DEF EndSessions, Goto
  <2>2. ASSUME NEW v \in Worker, pc'[v] # "idle"
        PROVE  job'[v].raced
    <3>1. v # w /\ pc[v] # "idle" /\ job[v] # None /\ job[v] \in Job
      BY <1>0, <2>1, <2>2
    <3>2. job'[v] = [job[v] EXCEPT !.raced = TRUE]
      BY <2>1, <3>1
    <3> QED
      BY <3>1, <3>2 DEF Job
  <2> QED
    BY <2>2
<1>3. ASSUME NEW l \in PC \ {"idle"}, Goto(w, l), endings' = endings,
             NEW j \in Job, job' = [job EXCEPT ![w] = j], ~j.raced => j.since = endings
      PROVE  \A v \in Worker : pc'[v] # "idle" /\ ~job'[v].raced => job'[v].since = endings'
  <2>1. job'[w] = j /\ \A v \in Worker \ {w} : job'[v] = job[v] /\ pc'[v] = pc[v]
    BY <1>0, <1>3 DEF Goto
  <2> QED
    BY <1>0, <1>3, <2>1
<1>4. ASSUME NEW l \in PC \ {"idle"}, Goto(w, l), endings' = endings,
             \/ UNCHANGED job
             \/ job[w].op = "verify" /\ job' = [job EXCEPT ![w].n = 1]
             \/ /\ redis.refresh > 0
                /\ job' = [job EXCEPT ![w].since = opened, ![w].raced = spared]
      PROVE  \A v \in Worker : pc'[v] # "idle" /\ ~job'[v].raced => job'[v].since = endings'
  <2>0. job[w] \in Job /\ (~job[w].raced => job[w].since = endings)
    BY <1>0
  <2>1. CASE UNCHANGED job
    <3>1. job' = [job EXCEPT ![w] = job[w]]
      BY <1>0, <2>1
    <3> QED
      BY <1>3, <1>4, <2>0, <3>1
  <2>2. CASE job' = [job EXCEPT ![w].n = 1]
    <3> DEFINE k == [job[w] EXCEPT !.n = 1]
    <3>1. k \in Job /\ k.since = job[w].since /\ k.raced = job[w].raced
      BY <2>0 DEF Job
    <3>2. job' = [job EXCEPT ![w] = k]
      BY <2>2
    <3> HIDE DEF k
    <3> QED
      BY <1>3, <1>4, <2>0, <3>1, <3>2
  <2>3. CASE /\ redis.refresh > 0
             /\ job' = [job EXCEPT ![w].since = opened, ![w].raced = spared]
    <3> DEFINE k == [job[w] EXCEPT !.since = opened, !.raced = spared]
    <3>1. k \in Job /\ k.since = opened /\ k.raced = spared
      BY <1>0, <2>0 DEF Job
    <3>2. job' = [job EXCEPT ![w] = k]
      BY <2>3
    <3>3. ~spared => opened = endings
      BY <2>3 DEF Current, EndedSessionsStayEnded
    <3> HIDE DEF k
    <3> QED
      BY <1>3, <1>4, <3>1, <3>2, <3>3
  <2> QED
    BY <1>4, <2>1, <2>2, <2>3
<1>5. CASE endings' = endings /\ ~Respond(w) /\ ~EndSessions(w)
  <2>1. PICK l \in PC \ {"idle"} :
          /\ Goto(w, l)
          /\ \/ UNCHANGED job
             \/ job[w].op = "verify" /\ job' = [job EXCEPT ![w].n = 1]
             \/ /\ redis.refresh > 0
                /\ job' = [job EXCEPT ![w].since = opened, ![w].raced = spared]
    BY <1>5 DEF Moves
  <2> QED
    BY <1>4, <1>5, <2>1
<1> QED
  BY <1>1, <1>2, <1>5

LEMMA ServesCurrent ==
  ASSUME TypeOK, InFlight, Current, NEW w \in Worker, Serve(w)
  PROVE  Current'
<1> DEFINE Kept == redis'.refresh \in {0, redis.refresh} /\ UNCHANGED <<endings, opened, spared>>
<1>0. /\ Moves(w) /\ Data(w) /\ pc[w] # "idle" /\ job[w] \in Job
      /\ redis \in Redis /\ issued \in Nat /\ ready \in BOOLEAN
      /\ ~job[w].raced => job[w].since = endings
  BY ServesMove, ServesData DEF Moves, TypeOK, Current
<1>1. ASSUME endings' = endings \/ EndSessions(w), EndedSessionsStayEnded'
      PROVE  Current'
  BY <1>0, <1>1, MovesCurrent DEF Current
<1>2. CASE StoreToken(w)
  <2>1. /\ \/ ready /\ opened' = job[w].since /\ spared' = job[w].raced
           \/ redis' = redis /\ UNCHANGED <<opened, spared>>
        /\ endings' = endings
    BY <1>2 DEF StoreToken, Write
  <2>2. EndedSessionsStayEnded'
    BY <1>0, <2>1 DEF Current, EndedSessionsStayEnded
  <2> QED
    BY <1>1, <2>1, <2>2
<1>3. CASE Revoke(w)
  <2>1. Write([redis EXCEPT !.refresh = 0]) /\ EndSessions(w) /\ spared' = ~ready
    BY <1>3 DEF Revoke, EndSessions
  <2>2. ready => redis'.refresh = 0
    BY <1>0, <2>1 DEF Redis, Write
  <2>4. ~ready => spared'
    BY <2>1, Zenon
  <2>5. ~(0 > 0)
    OBVIOUS
  <2>3. EndedSessionsStayEnded'
    BY <1>0, <2>4, <2>5, <2>2, Zenon DEF EndedSessionsStayEnded
  <2> QED
    BY <1>1, <2>1, <2>3
<1>4. CASE Kept
  <2>1. EndedSessionsStayEnded'
    BY <1>4 DEF Current, EndedSessionsStayEnded
  <2> QED
    BY <1>1, <1>4, <2>1
<1>5. CASE Plain
  BY <1>0, <1>4, <1>5, EditsTyped DEF Plain
<1>6. ASSUME NEW l, StoreCode(w, job[w].s, l)
      PROVE  Current'
  <2>1. redis'.refresh = redis.refresh
    <3>1. CASE redis' = [redis EXCEPT !.challenge[job[w].s] = sent[job[w].s] + 1]
      BY <1>0, <3>1 DEF Redis
    <3> QED
      BY <1>6, <3>1 DEF StoreCode, Write
  <2> QED
    BY <1>4, <1>6, <2>1 DEF StoreCode, hist
<1> QED
  BY <1>0, <1>2, <1>3, <1>5, <1>6 DEF Data

LEMMA StepCurrent ==
  ASSUME TypeOK, InFlight, Current, [Next]_vars
  PROVE  Current'
<1>0. pc \in [Worker -> PC] /\ job \in [Worker -> Job \cup {None}] /\ redis \in Redis
  BY DEF TypeOK
<1>1. ASSUME NEW w \in Worker, Requests(w)
      PROVE  Current'
  <2>1. Begins(w)
    BY <1>1, RequestsBegin
  <2> QED
    BY <1>0, <2>1 DEF Begins, data, Goto, Current, EndedSessionsStayEnded
<1>2. ASSUME NEW w \in Worker, Serve(w)
      PROVE  Current'
  BY <1>2, ServesCurrent
<1>3. CASE Expire \/ \E status \in {"Active", "Banned", "Deleted"} : SetStatus(status)
  <2>1. UNCHANGED <<pc, job, hist>> /\ Edits
    BY <1>3, EnvironmentPlain, TypeParts DEF Plain
  <2>2. redis'.refresh \in {0, redis.refresh}
    BY <1>0, <2>1, EditsTyped
  <2> QED
    BY <2>1, <2>2 DEF Current, EndedSessionsStayEnded, hist
<1>4. CASE Crash
  BY <1>4 DEF Crash, Current, EndedSessionsStayEnded
<1>5. CASE UNCHANGED vars
  BY <1>5 DEF vars, hist, Current, EndedSessionsStayEnded
<1> QED
  BY <1>1, <1>2, <1>3, <1>4, <1>5 DEF Next

\* Over any requests that interleave, failing calls and restarts, the refresh token
\* that Redis accepts goes back to a sign-in asked for after the last logout, change
\* or reset of the password was answered, unless it was in flight at that answer or
\* Redis was not ready for it.
THEOREM EndedSessionsStay == Spec => []EndedSessionsStayEnded
<1>1. Init => Current
  BY DEF Init, Current, EndedSessionsStayEnded
<1>2. Spec => [](TypeOK /\ InFlight /\ Current)
  BY <1>1, InitTyped, StepTyped, StepCurrent, PTL DEF Spec
<1>3. Current => EndedSessionsStayEnded
  BY DEF Current
<1> QED
  BY <1>2, <1>3, PTL

-----------------------------------------------------------------------------
(* Codes and grants.                                                       *)

\* One request at a time.
Alone == ~overlapped => \A v, w \in Worker : pc[v] # "idle" /\ pc[w] # "idle" => v = w

LEMMA ServesQuietly ==
  ASSUME TypeOK, InFlight, NEW w \in Worker, Serve(w)
  PROVE  overlapped' = overlapped /\ requests' = requests
<1>1. Data(w)
  BY ServesData
<1> QED
  BY <1>1 DEF Data, Plain, StoreCode, StoreToken, Revoke, process, hist

LEMMA StepAlone ==
  ASSUME TypeOK, InFlight, Alone, [Next]_vars
  PROVE  Alone'
<1>0. pc \in [Worker -> PC] /\ \A v \in Worker : pc[v] = "idle" <=> job[v] = None
  BY DEF TypeOK
<1>1. ASSUME NEW w \in Worker, Requests(w)
      PROVE  Alone'
  <2>1. Begins(w)
    BY <1>1, RequestsBegin
  <2> QED
    BY <1>0, <2>1 DEF Begins, Goto, Alone
<1>2. ASSUME NEW w \in Worker, Serve(w)
      PROVE  Alone'
  <2>1. Moves(w) /\ overlapped' = overlapped
    BY <1>2, ServesMove, ServesQuietly
  <2>2. pc[w] # "idle" /\ \A v \in Worker \ {w} : pc'[v] = pc[v]
    BY <1>0, <2>1 DEF Moves, Respond, EndSessions, Goto
  <2> QED
    BY <1>0, <2>1, <2>2 DEF Alone
<1>3. CASE Expire \/ \E status \in {"Active", "Banned", "Deleted"} : SetStatus(status)
  BY <1>3 DEF Expire, SetStatus, Alone, hist
<1>4. CASE Crash
  BY <1>4 DEF Crash, Alone
<1>5. CASE UNCHANGED vars
  BY <1>5 DEF vars, hist, Alone
<1> QED
  BY <1>1, <1>2, <1>3, <1>4, <1>5 DEF Next

\* What is spent: the codes of a forgotten password, and grants.
Spendable == ResetSession \cup Grant

\* Redis accepts the codes of x, or grant x.
Open(x) == (x \in Session /\ redis.challenge[x] # 0) \/ x \in redis.grants

\* Every use of x was by a request that was cut off.
Fine(x) == used[x] <= cut[x]

\* What the request of w has read about the code or grant it sends.
Unspent(w) ==
  LET j == job[w]
  IN
  pc[w] # "idle" =>
    /\ j.op \in {"register", "forgot"} => j.s \notin known
    /\ j.op = "resendReset" /\ pc[w] = "store" => Fine(j.s)
    /\ j.op = "verifyReset" =>
         /\ j.s \in known /\ j.n \notin known /\ j.n <= requests
         /\ pc[w] = "grant" => Fine(j.s)
    /\ j.op = "reset" =>
         /\ j.arg \in known
         /\ pc[w] \in {"find", "write"} => Fine(j.arg)

\* The code or grant x: it has been used at most once more than requests were cut off
\* that used it, and not more often when it is open and in nobody's hands.
SpentOne(x, spending) ==
  /\ used[x] <= cut[x] + 1
  /\ used[x] # 0 => x \in known
  /\ Open(x) /\ ~spending => Fine(x)

\* The same where request w is the only one in flight.
SpentBut(w) ==
  /\ \A x \in Spendable : SpentOne(x, Spending(w, x))
  /\ \A g \in known \cap Grant : g <= requests

Spent ==
  /\ \A x \in Spendable : SpentOne(x, \E w \in Worker : Spending(w, x))
  /\ \A g \in known \cap Grant : g <= requests

SpentOnce == ~overlapped => Spent /\ \A w \in Worker : Unspent(w)

\* Redis accepts no code and no grant that it did not accept before.
Shrinks ==
  /\ \A s \in Session : redis'.challenge[s] \in {0, redis.challenge[s]}
  /\ redis'.grants \subseteq redis.grants

LEMMA ShrinksOpen ==
  ASSUME Shrinks, NEW x, Open(x)'
  PROVE  Open(x)
BY DEF Shrinks, Open

\* A request that is not spending answers or goes on.
LEMMA StaysSpent ==
  ASSUME TypeOK, NEW w \in Worker, SpentBut(w), \A x \in Spendable : ~Spending(w, x),
         Shrinks, UNCHANGED <<used, cut, requests>>, known \subseteq known',
         \A g \in known' \cap Grant : g <= requests
  PROVE  SpentBut(w)'
<1>1. ASSUME NEW x \in Spendable
      PROVE  SpentOne(x, Spending(w, x))'
  <2>1. SpentOne(x, Spending(w, x)) /\ ~Spending(w, x)
    BY DEF SpentBut
  <2>2. Open(x)' => Fine(x)'
    BY <2>1, ShrinksOpen DEF SpentOne, Fine
  <2> QED
    BY <2>1, <2>2 DEF SpentOne
<1> QED
  BY <1>1 DEF SpentBut

LEMMA RespondUnspent ==
  ASSUME TypeOK, NEW w \in Worker, pc' = [pc EXCEPT ![w] = "idle"]
  PROVE  Unspent(w)' /\ \A x \in Spendable : ~Spending(w, x)'
BY DEF TypeOK, Unspent, Spending, At

LEMMA ServesSpend ==
  ASSUME TypeOK, InFlight, NEW w \in Worker, Serve(w), SpentBut(w), Unspent(w)
  PROVE  SpentBut(w)' /\ Unspent(w)'
<1>0. /\ pc[w] # "idle" => job[w] \in Job /\ OnPath(job[w].op, pc[w]) /\ Names(job[w])
      /\ pc[w] # "idle" => (HasRead(job[w].op, pc[w]) => ready)
      /\ pc \in [Worker -> PC] /\ job \in [Worker -> Job \cup {None}]
      /\ redis \in Redis /\ used \in [Session \cup Grant -> Nat] /\ cut \in [Session \cup Grant -> Nat]
      /\ sent \in [Session -> Nat]
      /\ Session \cap Grant = {} /\ RegSession \cap ResetSession = {} /\ requests \in Nat
      /\ Moves(w) /\ pc[w] # "idle" /\ requests' = requests
  BY AccountAssumption, ServesMove, ServesQuietly DEF TypeOK, InFlight, Request, Moves
<1> DEFINE j == job[w]
           Same == UNCHANGED <<known, used, cut>>
           Quiet == \A x \in Spendable : ~Spending(w, x)
           Goes(l) == pc' = [pc EXCEPT ![w] = l] /\ job'[w] = job[w]
           Deleted(k) == redis' = [redis EXCEPT !.attempts = NoAttempts(k), !.expires = NoExpiry(k)]
           Goal == SpentBut(w)' /\ Unspent(w)'
<1>a. /\ \A l : Goto(w, l) /\ UNCHANGED job => Goes(l)
      /\ \A l : Goes(l) => pc'[w] = l
      /\ redis' = redis => Shrinks
      /\ Write([redis EXCEPT !.challenge = NoChallenge(j.s)]) /\ j.s \in Session => Shrinks
      /\ \A k \in Counter : Write([redis EXCEPT !.attempts = NoAttempts(k), !.expires = NoExpiry(k)]) =>
           Shrinks
  <2>1. ASSUME NEW l, Goto(w, l), UNCHANGED job
        PROVE  Goes(l)
    BY <1>0, <2>1 DEF Goto
  <2>2. ASSUME redis' = redis
        PROVE  Shrinks
    BY <1>0, <2>2 DEF Shrinks
  <2>3. ASSUME redis' = [redis EXCEPT !.challenge = NoChallenge(j.s)], j.s \in Session
        PROVE  Shrinks
    BY <1>0, <2>3 DEF Shrinks, Redis, NoChallenge
  <2>4. ASSUME NEW k \in Counter, Deleted(k)
        PROVE  Shrinks
    BY <1>0, <2>4 DEF Shrinks, Redis
  <2>5. ASSUME NEW l, Goes(l)
        PROVE  pc'[w] = l
    BY <1>0, <2>5
  <2> QED
    BY <2>1, <2>2, <2>3, <2>4, <2>5 DEF Write
\* The names of a session tell what its codes are for.
<1>n. /\ j.op \in OfSession => j.s \in Session /\ (j.op \in OfReset <=> j.s \in ResetSession)
      /\ j.op = "reset" => j.arg \in Grant /\ j.arg \in Spendable
      /\ j.op \in OfReset => j.s \in ResetSession /\ j.s \in Spendable
      /\ j.op = "verifyReset" => j.n \in Grant
  BY <1>0 DEF Names, OfSession, OfReset, Spendable
<1>q. pc[w] \notin {"drop", "spend"} \/ j.op = "verify" \/ (pc[w] = "drop" /\ j.op = "reset") => Quiet
  BY DEF Spending, At
\* The request answers and writes nothing but Redis.
<1>b. ASSUME Quiet, Shrinks, Same, Respond(w)
      PROVE  Goal
  <2>1. pc' = [pc EXCEPT ![w] = "idle"] /\ known \subseteq known'
        /\ \A g \in known' \cap Grant : g <= requests
    BY <1>b DEF Respond, Goto, SpentBut
  <2> QED
    BY <1>0, <1>b, <2>1, StaysSpent, RespondUnspent
\* It goes on with what it has read.
<1> DEFINE Learnt(l) ==
      /\ j.op = "resendReset" /\ l = "store" => Fine(j.s)
      /\ j.op = "verifyReset" /\ l = "grant" => Fine(j.s)
      /\ j.op = "reset" /\ l \in {"find", "write"} => Fine(j.arg)
<1>c. ASSUME Quiet, Shrinks, Same, NEW l, Goes(l), Learnt(l)
      PROVE  Goal
  <2>1. SpentBut(w)'
    BY <1>0, <1>c, StaysSpent DEF SpentBut
  <2>2. pc'[w] = l /\ job'[w] = j
    BY <1>a, <1>c
  <2>3. Unspent(w)'
    BY <1>0, <1>c, <2>2 DEF Unspent, Fine
  <2> QED
    BY <2>1, <2>3
<1>d. /\ \A s \in ResetSession : Quiet /\ redis.challenge[s] # 0 => Fine(s)
      /\ \A g \in Grant : Quiet /\ g \in redis.grants => Fine(g)
      /\ j.op = "verifyReset" /\ pc[w] = "grant" => Fine(j.s)
      /\ j.op = "reset" /\ pc[w] \in {"find", "write"} => Fine(j.arg)
  <2>1. \A x \in Spendable : Quiet /\ Open(x) => Fine(x)
    BY DEF SpentBut, SpentOne
  <2> QED
    BY <1>0, <2>1 DEF Unspent, Open, Spendable, Session
<1> HIDE DEF Goes, Learnt, Same, Quiet
<1>1. CASE CountAttempt(w)
  <2>1. Same /\ pc[w] \in Counting
    BY <1>1 DEF CountAttempt, Same, process, hist, Counting
  <2>2. Respond(w) \/ \E l \in {"expire", "limit", "zero"} : Goes(l)
    BY <1>1, <1>a DEF CountAttempt, AfterCount
  <2>3. \A l \in {"expire", "limit", "zero"} : Learnt(l)
    BY DEF Learnt
  <2>4. pc[w] = "limit" /\ CounterOf(w) # "login" => j.s \in Session
    BY <1>0, <1>n, <2>1 DEF CounterOf, OnPath, First, Counting, OfSession
  <2>5. Shrinks
    <3>1. CASE pc[w] \in {"incr", "expire"}
      <4>1. redis'.challenge = redis.challenge /\ redis'.grants = redis.grants
        BY <1>0, <1>1, <3>1 DEF CountAttempt, Redis, Write
      <4> QED
        BY <1>0, <4>1 DEF Shrinks
    <3>2. CASE pc[w] = "limit"
      <4>1. CASE CounterOf(w) = "login"
        <5>1. redis'.challenge = redis.challenge /\ redis'.grants = redis.grants
          BY <1>0, <1>1, <3>2, <4>1 DEF CountAttempt, Redis, Write
        <5> QED
          BY <1>0, <5>1 DEF Shrinks
      <4>2. CASE CounterOf(w) # "login"
        BY <1>1, <1>a, <2>4, <3>2, <4>2 DEF CountAttempt
      <4> QED
        BY <4>1, <4>2
    <3>3. CASE pc[w] = "zero"
      <4>1. /\ CounterOf(w) \in Counter
            /\ Write([redis EXCEPT !.attempts = NoAttempts(CounterOf(w)),
                                   !.expires = NoExpiry(CounterOf(w))])
        BY <1>1, <3>3 DEF CountAttempt, CounterOf, Counter
      <4> QED
        BY <4>1, <1>a
    <3> QED
      BY <2>1, <3>1, <3>2, <3>3 DEF Counting
  <2>6. Quiet
    BY <1>q, <2>1 DEF Counting
  <2> QED
    BY <1>b, <1>c, <2>1, <2>2, <2>3, <2>5, <2>6 DEF Counting
\* What the client is told.
<1>k. ASSUME Quiet, Shrinks, UNCHANGED <<used, cut>>, Respond(w), NEW x \in Session \cup Grant,
             x \in Grant => x <= requests, known' = known \cup {x}
      PROVE  Goal
  <2>1. pc' = [pc EXCEPT ![w] = "idle"] /\ \A g \in known' \cap Grant : g <= requests
    BY <1>k DEF Respond, Goto, SpentBut
  <2>2. SpentBut(w)'
    BY <1>0, <1>k, <2>1, StaysSpent DEF Quiet
  <2> QED
    BY <2>1, <2>2, RespondUnspent
<1>2. CASE MailCode(w)
  <2>1. /\ known' = known \cup {j.s} /\ UNCHANGED <<redis, used, cut>> /\ Respond(w)
        /\ j.s \in Session /\ pc[w] = "mail"
    BY <1>0, <1>2, <1>n DEF MailCode, process, hist, OnPath, First, Counting, OfSession
  <2> QED
    BY <1>0, <1>a, <1>k, <1>q, <2>1
<1>3. CASE CleanUp(w)
  <2>1. /\ Write([redis EXCEPT !.challenge = NoChallenge(j.s)]) /\ Same /\ Respond(w)
        /\ j.s \in Session /\ pc[w] = "cleanup"
    BY <1>0, <1>3, <1>n DEF CleanUp, Same, process, hist, OnPath, First, Counting, OfSession
  <2> QED
    BY <1>a, <1>b, <1>q, <2>1
<1>4. ASSUME NEW l \in {"mail", "forget"}, StoreCode(w, j.s, l), pc[w] = "store"
      PROVE  Goal
  <2>1. /\ Write([redis EXCEPT !.challenge[j.s] = sent[j.s] + 1]) /\ Same /\ Goes(l)
    BY <1>4, <1>a DEF StoreCode, Same, process, hist
  <2>2. j.op \in {"register", "resend", "forgot", "resendReset"} /\ j.s \in Session
    BY <1>0, <1>4, <1>n DEF OnPath, First, Counting, OfSession
  <2>3. /\ \A s \in Session : s # j.s => redis'.challenge[s] = redis.challenge[s]
        /\ redis'.grants = redis.grants
    <3>1. CASE redis' = [redis EXCEPT !.challenge[j.s] = sent[j.s] + 1]
      BY <1>0, <2>2, <3>1 DEF Redis
    <3> QED
      BY <2>1, <3>1 DEF Write
  <2>4. Quiet
    BY <1>4, <1>q
  <2>5. j.s \in Spendable => Fine(j.s)
    <3>1. CASE j.op = "resendReset"
      BY <1>4, <3>1 DEF Unspent
    <3>2. CASE j.op = "forgot"
      <4>1. j.s \notin known /\ j.s \in Spendable /\ cut[j.s] \in Nat
        BY <1>0, <1>n, <2>2, <3>2 DEF Unspent, OfReset
      <4>2. used[j.s] = 0
        BY <4>1 DEF SpentBut, SpentOne
      <4> QED
        BY <4>1, <4>2 DEF Fine
    <3> QED
      BY <1>0, <1>n, <2>2, <3>1, <3>2 DEF Spendable, OfReset, OfSession, Session
  <2>6. pc'[w] = l /\ job'[w] = j
    BY <1>a, <2>1 DEF Goes
  <2>7. ASSUME NEW x \in Spendable
        PROVE  SpentOne(x, Spending(w, x))'
    <3>1. SpentOne(x, Spending(w, x)) /\ ~Spending(w, x)
      BY <2>4 DEF SpentBut, Quiet
    <3>2. Open(x)' /\ x # j.s => Open(x)
      BY <2>3 DEF Open
    <3>3. Fine(x) => Fine(x)'
      BY <2>1 DEF Fine, Same
    <3> QED
      BY <2>1, <2>5, <3>1, <3>2, <3>3 DEF SpentOne, Same
  <2>8. SpentBut(w)'
    BY <1>0, <2>1, <2>7 DEF SpentBut, Same
  <2>9. Unspent(w)'
    BY <1>0, <1>4, <2>1, <2>2, <2>6 DEF Unspent, Same
  <2> QED
    BY <2>8, <2>9
\* A call that only reads.
<1>e. ASSUME UNCHANGED <<redis, known, process, hist>>, Quiet,
             Respond(w) \/ \E l : Goto(w, l) /\ UNCHANGED job /\ Learnt(l)
      PROVE  Goal
  <2>1. Shrinks /\ Same
    BY <1>e, <1>a DEF process, hist, Same
  <2> QED
    BY <1>e, <1>a, <1>b, <1>c, <2>1
<1>5. CASE Register(w) \/ Resend(w) \/ ResendReset(w)
  <2>1. CASE pc[w] = "store"
    BY <1>4, <1>5, <2>1 DEF Register, Resend, ResendReset, At
  <2>2. CASE pc[w] \in {"find", "load"}
    <3>1. /\ UNCHANGED <<redis, known, process, hist>>
          /\ \/ Respond(w)
             \/ Goto(w, "store") /\ UNCHANGED job /\ j.op # "resendReset"
             \/ Goto(w, "store") /\ UNCHANGED job /\ j.op = "resendReset" /\ redis.challenge[j.s] # 0
          /\ j.op \in {"register", "resend", "resendReset"}
      BY <1>5, <2>2 DEF Register, Resend, ResendReset, Challenge, At
    <3>2. Quiet
      BY <1>q, <2>2
    <3>3. Respond(w) \/ (Goto(w, "store") /\ UNCHANGED job /\ Learnt("store"))
      BY <3>1, <3>2, <1>d, <1>n DEF Learnt, OfReset
    <3> QED
      BY <1>e, <3>1, <3>2, <3>3
  <2>3. CASE At(w, "resendReset", "forget")
    <3>1. /\ Write([redis EXCEPT !.attempts = NoAttempts("reset"), !.expires = NoExpiry("reset")])
          /\ Same /\ Goes("mail")
      BY <1>5, <1>a, <2>3 DEF Register, Resend, ResendReset, At, process, hist, Same
    <3>2. Shrinks /\ Learnt("mail") /\ Quiet
      BY <1>a, <1>q, <2>3, <3>1 DEF Counter, Learnt, At
    <3> QED
      BY <1>c, <3>1, <3>2
  <2> QED
    BY <1>5, <2>1, <2>2, <2>3 DEF Register, Resend, ResendReset, At
<1>6. CASE Verify(w)
  <2>0. j.op = "verify" /\ j.s \in Session /\ j.s \notin Spendable /\ Quiet
    BY <1>0, <1>6, <1>n, <1>q DEF Verify, VerifyCreate, At, OfSession, OfReset, Spendable
  <2>l. \A l : Learnt(l)
    BY <2>0 DEF Learnt
  <2>1. CASE At(w, "verify", "load") \/ At(w, "verify", "find") \/ At(w, "verify", "welcome")
    <3>1. /\ UNCHANGED <<redis, known, process, hist>>
          /\ Respond(w) \/ \E l : Goto(w, l) /\ UNCHANGED job
      BY <1>6, <2>1 DEF Verify, VerifyCreate, At
    <3> QED
      BY <1>e, <2>0, <2>l, <3>1
  <2>2. CASE VerifyCreate(w)
    <3>1. /\ UNCHANGED <<redis, known, cut>> /\ (Use(j.s) \/ UNCHANGED used)
          /\ Respond(w) \/ (Goto(w, "drop") /\ job' = [job EXCEPT ![w].n = 1])
      BY <2>2 DEF VerifyCreate, At, process
    <3>2. \A x \in Spendable : used'[x] = used[x]
      <4>1. \A x \in Spendable : x # j.s /\ x \in Session \cup Grant
        BY <2>0 DEF Spendable, Session
      <4> QED
        BY <1>0, <3>1, <4>1 DEF Use
    <3>3. /\ Respond(w) => pc' = [pc EXCEPT ![w] = "idle"]
          /\ ~Respond(w) => pc'[w] = "drop" /\ job'[w].op = "verify"
      BY <1>0, <2>0, <3>1 DEF Goto, Job, Respond
    <3>4. \A x \in Spendable : ~Spending(w, x)'
      BY <3>3, RespondUnspent DEF Spending, At
    <3>5. ASSUME NEW x \in Spendable
          PROVE  SpentOne(x, Spending(w, x))'
      <4>1. SpentOne(x, Spending(w, x)) /\ ~Spending(w, x)
        BY <2>0 DEF SpentBut, Quiet
      <4> QED
        BY <3>1, <3>2, <3>4, <4>1 DEF SpentOne, Open, Fine
    <3>6. Unspent(w)'
      BY <3>3, RespondUnspent DEF Unspent
    <3> QED
      BY <1>0, <3>1, <3>5, <3>6 DEF SpentBut
  <2>3. CASE At(w, "verify", "drop")
    <3>1. /\ Write([redis EXCEPT !.challenge = NoChallenge(j.s)]) /\ Same /\ Goes("forget")
      BY <1>6, <1>a, <2>3 DEF Verify, VerifyCreate, At, process, hist, Same
    <3> QED
      BY <1>a, <1>c, <2>0, <2>l, <3>1
  <2>4. CASE At(w, "verify", "forget")
    <3>1. /\ Write([redis EXCEPT !.attempts = NoAttempts("registration"),
                                 !.expires = NoExpiry("registration")])
          /\ Same /\ (Respond(w) \/ Goes("welcome"))
      BY <1>6, <1>a, <2>4 DEF Verify, VerifyCreate, At, process, hist, Same
    <3>2. Shrinks
      BY <1>a, <3>1 DEF Counter
    <3> QED
      BY <1>b, <1>c, <2>0, <2>l, <3>1, <3>2
  <2> QED
    BY <1>6, <2>1, <2>2, <2>3, <2>4 DEF Verify
<1>7. CASE StoreToken(w)
  <2>1. PICK t : /\ Write([redis EXCEPT !.refresh = t]) /\ Respond(w) /\ pc[w] = "token"
                 /\ UNCHANGED <<known, used, cut>>
    BY <1>7 DEF StoreToken
  <2>2. redis'.challenge = redis.challenge /\ redis'.grants = redis.grants
    BY <1>0, <2>1 DEF Redis, Write
  <2>3. Shrinks /\ Quiet
    BY <1>0, <1>q, <2>1, <2>2 DEF Shrinks
  <2> QED
    BY <1>b, <2>1, <2>3 DEF Same
<1>8. CASE Login(w)
  <2>0. j.op = "login"
    BY <1>8 DEF Login, At
  <2>1. \A l : Learnt(l)
    BY <2>0 DEF Learnt
  <2>2. Shrinks
    <3>1. CASE At(w, "login", "forget")
      BY <1>8, <1>a, <3>1 DEF Login, At, Counter
    <3>2. CASE At(w, "login", "unlock")
      <4>1. Write([redis EXCEPT !.locked = FALSE])
        BY <1>8, <3>2 DEF Login, At
      <4>2. redis'.challenge = redis.challenge /\ redis'.grants = redis.grants
        BY <1>0, <4>1 DEF Redis, Write
      <4> QED
        BY <1>0, <4>2 DEF Shrinks
    <3>3. CASE pc[w] \notin {"forget", "unlock"}
      BY <1>8, <1>a, <3>3 DEF Login, At
    <3> QED
      BY <2>0, <3>1, <3>2, <3>3 DEF At
  <2>3. Same /\ (Respond(w) \/ \E l : Goes(l))
    BY <1>8, <1>a DEF Login, Same, process, hist
  <2>4. Quiet
    BY <2>0 DEF Quiet, Spending, At
  <2> QED
    BY <1>b, <1>c, <2>1, <2>2, <2>3, <2>4
<1>9. CASE Refresh(w) \/ Change(w) \/ Authenticate(w)
  <2>1. pc[w] \notin {"drop", "spend"} /\ UNCHANGED <<redis, known, used, cut>>
    BY <1>9 DEF Refresh, Change, Authenticate, At, WritePassword, process, hist
  <2>2. /\ j.op \in {"refresh", "change", "logout"}
        /\ Respond(w) \/ \E l : Goto(w, l) /\ (UNCHANGED job \/ j.op = "refresh")
    BY <1>0, <1>9 DEF Refresh, Change, Authenticate, Admit, At, WritePassword, OnPath, First, Counting
  <2>3. Quiet /\ Shrinks
    BY <1>a, <1>q, <2>1
  <2>4. CASE Respond(w)
    BY <1>b, <2>1, <2>3, <2>4 DEF Same
  <2>5. ASSUME NEW l, Goes(l)
        PROVE  Goal
    BY <1>c, <2>1, <2>2, <2>3, <2>5 DEF Same, Learnt
  <2>6. ASSUME NEW l, Goto(w, l), ~Respond(w), j.op = "refresh"
        PROVE  Goal
    <3>1. job'[w].op = "refresh"
      <4>1. CASE UNCHANGED job
        BY <2>6, <4>1
      <4>2. CASE job' = [job EXCEPT ![w].since = opened, ![w].raced = spared]
        <5> DEFINE k == [job[w] EXCEPT !.since = opened, !.raced = spared]
        <5>1. k.op = "refresh"
          BY <1>0, <2>6 DEF Job
        <5>2. job' = [job EXCEPT ![w] = k]
          BY <4>2
        <5> HIDE DEF k
        <5> QED
          BY <1>0, <5>1, <5>2
      <4> QED
        BY <1>9, <2>6, <4>1, <4>2 DEF Refresh, Change, Authenticate, Admit, At
    <3>2. SpentBut(w)'
      BY <1>0, <2>1, <2>3, StaysSpent DEF SpentBut, Quiet
    <3> QED
      BY <3>1, <3>2 DEF Unspent
  <2> QED
    BY <1>a, <2>2, <2>4, <2>5, <2>6
<1>10. CASE Logout(w)
  <2>1. /\ Write([redis EXCEPT !.blacklist = redis.blacklist \cup {j.n}]) /\ Same /\ Goes("revoke")
        /\ pc[w] = "blacklist" /\ j.op = "logout"
    BY <1>10, <1>a DEF Logout, At, process, hist, Same
  <2>2. redis'.challenge = redis.challenge /\ redis'.grants = redis.grants
    BY <1>0, <2>1 DEF Redis, Write
  <2>3. Shrinks /\ Quiet /\ Learnt("revoke")
    BY <1>0, <1>q, <2>1, <2>2 DEF Shrinks, Learnt
  <2> QED
    BY <1>c, <2>1, <2>3
<1>11. CASE Revoke(w)
  <2>1. /\ Write([redis EXCEPT !.refresh = 0]) /\ pc' = [pc EXCEPT ![w] = "idle"] /\ pc[w] = "revoke"
        /\ UNCHANGED <<known, used, cut>>
    BY <1>11 DEF Revoke, EndSessions, Goto, process
  <2>2. redis'.challenge = redis.challenge /\ redis'.grants = redis.grants
    BY <1>0, <2>1 DEF Redis, Write
  <2>3. Shrinks /\ Quiet
    BY <1>0, <1>q, <2>1, <2>2 DEF Shrinks
  <2>4. SpentBut(w)'
    BY <1>0, <2>1, <2>3, StaysSpent DEF SpentBut, Quiet
  <2> QED
    BY <2>1, <2>4, RespondUnspent
<1>12. CASE Forgot(w)
  <2>1. CASE pc[w] = "store"
    BY <1>4, <1>12, <2>1 DEF Forgot, At
  <2>2. CASE pc[w] # "store"
    <3>1. /\ UNCHANGED <<redis, used, cut>> /\ j.op = "forgot" /\ pc[w] = "find"
          /\ \/ UNCHANGED known /\ (Respond(w) \/ (Goto(w, "store") /\ UNCHANGED job))
             \/ known' = known \cup {j.s} /\ Respond(w)
      BY <1>12, <2>2 DEF Forgot, At, process, hist
    <3>2. /\ Learnt("store") /\ Shrinks /\ Quiet
          /\ j.s \in Session
      BY <1>a, <1>n, <1>q, <3>1 DEF Learnt, OfSession
    <3>3. CASE UNCHANGED known
      BY <1>a, <1>b, <1>c, <3>1, <3>2, <3>3 DEF Same
    <3>4. CASE known' = known \cup {j.s} /\ Respond(w)
      BY <1>0, <1>k, <3>1, <3>2, <3>4
    <3> QED
      BY <3>1, <3>3, <3>4
  <2> QED
    BY <2>1, <2>2
<1>13. CASE VerifyReset(w)
  <2>0. /\ j.op = "verifyReset" /\ j.s \in ResetSession /\ j.s \in Spendable /\ j.n \in Grant
        /\ j.n \in Spendable /\ j.s # j.n
        /\ j.n \notin known /\ j.n <= requests /\ j.s \in known
    BY <1>0, <1>13, <1>n DEF VerifyReset, At, OfReset, Unspent, Spendable, Session
  <2>1. CASE At(w, "verifyReset", "load")
    <3>1. /\ UNCHANGED <<redis, known, process, hist>>
          /\ \/ Respond(w)
             \/ Goto(w, "grant") /\ UNCHANGED job /\ redis.challenge[j.s] # 0
             \/ Goto(w, "incr") /\ UNCHANGED job
      BY <1>13, <2>1 DEF VerifyReset, Challenge, At
    <3>2. Quiet
      BY <1>q, <2>1 DEF At
    <3>3. Respond(w) \/ \E l : Goto(w, l) /\ UNCHANGED job /\ Learnt(l)
      BY <1>d, <2>0, <3>1, <3>2 DEF Learnt
    <3> QED
      BY <1>e, <3>1, <3>2, <3>3
  <2>2. CASE At(w, "verifyReset", "grant")
    <3>1. /\ redis' = [redis EXCEPT !.grants = redis.grants \cup {j.n}] /\ Use(j.s) /\ Goes("drop")
          /\ UNCHANGED <<known, cut>>
      BY <1>0, <1>13, <1>a, <2>2 DEF VerifyReset, At, process, Write, HasRead
    <3>2. redis'.challenge = redis.challenge /\ redis'.grants = redis.grants \cup {j.n}
      BY <1>0, <3>1 DEF Redis
    <3>3. pc'[w] = "drop" /\ job'[w] = j
      BY <1>a, <3>1 DEF Goes
    <3>4. /\ used'[j.s] = used[j.s] + 1 /\ used[j.s] <= cut[j.s]
          /\ \A x \in Spendable : x # j.s => used'[x] = used[x]
      <4>1. \A x \in Spendable : x \in Session \cup Grant
        BY DEF Spendable, Session
      <4>2. Fine(j.s)
        BY <1>d, <2>0, <2>2 DEF At
      <4> QED
        BY <1>0, <2>0, <3>1, <4>1, <4>2 DEF Use, Fine
    <3>5. used[j.n] = 0 /\ cut[j.n] \in Nat /\ cut[j.s] \in Nat /\ used[j.s] \in Nat
      BY <1>0, <2>0 DEF SpentBut, SpentOne, Session
    <3>6. \A x \in Spendable : ~Spending(w, x)
      BY <2>0, <2>2 DEF Spending, At
    <3>7. ASSUME NEW x \in Spendable
          PROVE  SpentOne(x, Spending(w, x))'
      <4>1. SpentOne(x, Spending(w, x)) /\ ~Spending(w, x)
        BY <3>6 DEF SpentBut
      <4>2. CASE x = j.s
        <5>1. Spending(w, x)'
          BY <2>0, <3>3, <4>2 DEF Spending, At
        <5> QED
          BY <2>0, <3>1, <3>4, <3>5, <4>2, <5>1 DEF SpentOne
      <4>3. CASE x = j.n
        BY <2>0, <3>1, <3>4, <3>5, <4>3 DEF SpentOne, Fine
      <4>4. CASE x # j.s /\ x # j.n
        BY <3>1, <3>2, <3>4, <4>1, <4>4 DEF SpentOne, Open, Fine
      <4> QED
        BY <4>2, <4>3, <4>4
    <3>8. SpentBut(w)'
      BY <1>0, <3>1, <3>7 DEF SpentBut
    <3>9. Unspent(w)'
      BY <1>0, <2>0, <3>1, <3>3 DEF Unspent
    <3> QED
      BY <3>8, <3>9
  <2>3. CASE At(w, "verifyReset", "drop")
    <3>1. /\ redis' = [redis EXCEPT !.challenge = NoChallenge(j.s)] /\ Same /\ Goes("forget")
      BY <1>0, <1>13, <1>a, <2>3 DEF VerifyReset, VerifyResetDrop, At, process, hist, Same, Write, HasRead
    <3>2. /\ redis'.challenge[j.s] = 0 /\ redis'.grants = redis.grants
          /\ \A s \in Session : s # j.s => redis'.challenge[s] = redis.challenge[s]
      BY <1>0, <2>0, <3>1 DEF Redis, NoChallenge, Session
    <3>3. pc'[w] = "forget" /\ job'[w] = j
      BY <1>a, <3>1 DEF Goes
    <3>4. \A x \in Spendable : x # j.s => ~Spending(w, x)
      BY <2>3 DEF Spending, At
    <3>5. ASSUME NEW x \in Spendable
          PROVE  SpentOne(x, Spending(w, x))'
      <4>1. SpentOne(x, Spending(w, x))
        BY DEF SpentBut
      <4>2. CASE x = j.s
        <5>1. ~Open(x)'
          BY <1>0, <2>0, <3>2, <4>2 DEF Open, Session, Redis
        <5> QED
          BY <3>1, <4>1, <5>1 DEF SpentOne, Same
      <4>3. CASE x # j.s
        <5>1. Open(x)' => Open(x)
          BY <3>2, <4>3 DEF Open
        <5> QED
          BY <3>1, <3>4, <4>1, <4>3, <5>1 DEF SpentOne, Same, Fine
      <4> QED
        BY <4>2, <4>3
    <3>6. SpentBut(w)'
      BY <1>0, <3>1, <3>5 DEF SpentBut, Same
    <3>7. Unspent(w)'
      BY <1>0, <2>0, <3>1, <3>3 DEF Unspent, Same
    <3> QED
      BY <3>6, <3>7
  <2>4. CASE At(w, "verifyReset", "forget")
    <3>1. /\ Write([redis EXCEPT !.attempts = NoAttempts("reset"), !.expires = NoExpiry("reset")])
          /\ known' = known \cup {j.n} /\ UNCHANGED <<used, cut>> /\ Respond(w)
      BY <1>13, <2>4 DEF VerifyReset, At, process, hist
    <3>2. Shrinks /\ Quiet
      BY <1>a, <1>q, <2>4, <3>1 DEF Counter, At
    <3> QED
      BY <1>k, <2>0, <3>1, <3>2
  <2> QED
    BY <1>13, <2>1, <2>2, <2>3, <2>4 DEF VerifyReset
<1>14. CASE Reset(w)
  <2>0. j.op = "reset" /\ j.arg \in Grant /\ j.arg \in Spendable /\ j.arg \notin Session
    BY <1>0, <1>n, <1>14 DEF Reset, At, WritePassword
  <2>1. CASE pc[w] \in {"load", "find"}
    <3>1. /\ UNCHANGED <<redis, known, process, hist>>
          /\ \/ Respond(w)
             \/ Goto(w, "find") /\ UNCHANGED job /\ j.arg \in redis.grants
             \/ Goto(w, "write") /\ UNCHANGED job /\ pc[w] = "find"
             \/ Goto(w, "drop") /\ UNCHANGED job
      BY <1>14, <2>1 DEF Reset, At, WritePassword
    <3>2. Quiet
      BY <1>q, <2>1
    <3>3. Respond(w) \/ \E l : Goto(w, l) /\ UNCHANGED job /\ Learnt(l)
      BY <1>d, <2>0, <3>1, <3>2 DEF Learnt
    <3> QED
      BY <1>e, <3>1, <3>2, <3>3
  <2>2. CASE pc[w] = "drop"
    <3>1. /\ Write([redis EXCEPT !.grants = redis.grants \ {j.arg}]) /\ Same /\ Respond(w)
      BY <1>14, <2>2 DEF Reset, At, WritePassword, process, hist, Same
    <3>2. redis'.challenge = redis.challenge /\ redis'.grants \subseteq redis.grants
      BY <1>0, <3>1 DEF Redis, Write
    <3>3. Shrinks /\ Quiet
      BY <1>0, <1>q, <2>0, <2>2, <3>2 DEF Shrinks
    <3> QED
      BY <1>b, <3>1, <3>3
  <2>3. CASE pc[w] = "write"
    <3>1. /\ UNCHANGED <<redis, known, cut>>
          /\ \/ Use(j.arg) /\ Goes("spend")
             \/ UNCHANGED used /\ Respond(w)
      BY <1>14, <1>a, <2>0, <2>3 DEF Reset, At, WritePassword, process
    <3>2. CASE UNCHANGED used /\ Respond(w)
      BY <1>a, <1>b, <1>q, <2>3, <3>1, <3>2 DEF Same
    <3>3. CASE Use(j.arg) /\ Goes("spend")
      <4>1. pc'[w] = "spend" /\ job'[w] = j
        BY <1>a, <3>3 DEF Goes
      <4>2. /\ used'[j.arg] = used[j.arg] + 1 /\ used[j.arg] <= cut[j.arg]
            /\ cut[j.arg] \in Nat /\ used[j.arg] \in Nat
            /\ \A x \in Spendable : x # j.arg => used'[x] = used[x]
        <5>1. \A x \in Spendable : x \in Session \cup Grant
          BY DEF Spendable, Session
        <5>2. Fine(j.arg)
          BY <1>d, <2>0, <2>3
        <5> QED
          BY <1>0, <2>0, <3>3, <5>1, <5>2 DEF Use, Fine
      <4>3. \A x \in Spendable : ~Spending(w, x)
        BY <2>0, <2>3 DEF Spending, At
      <4>4. j.arg \in known
        BY <1>0, <2>0 DEF Unspent
      <4>5. ASSUME NEW x \in Spendable
            PROVE  SpentOne(x, Spending(w, x))'
        <5>1. SpentOne(x, Spending(w, x)) /\ ~Spending(w, x)
          BY <4>3 DEF SpentBut
        <5>2. CASE x = j.arg
          <6>1. Spending(w, x)'
            BY <2>0, <4>1, <5>2 DEF Spending, At
          <6> QED
            BY <3>1, <4>2, <4>4, <5>2, <6>1 DEF SpentOne
        <5>3. CASE x # j.arg
          BY <3>1, <4>2, <5>1, <5>3 DEF SpentOne, Open, Fine
        <5> QED
          BY <5>2, <5>3
      <4>6. SpentBut(w)'
        BY <1>0, <3>1, <4>5 DEF SpentBut
      <4>7. Unspent(w)'
        BY <2>0, <3>1, <4>1, <4>4 DEF Unspent
      <4> QED
        BY <4>6, <4>7
    <3> QED
      BY <3>1, <3>2, <3>3
  <2>4. CASE pc[w] = "spend"
    <3>1. /\ redis' = [redis EXCEPT !.grants = redis.grants \ {j.arg}] /\ Same /\ Goes("revoke")
      BY <1>0, <1>14, <1>a, <2>0, <2>4 DEF Reset, At, WritePassword, process, hist, Same, Write, HasRead
    <3>2. redis'.challenge = redis.challenge /\ redis'.grants = redis.grants \ {j.arg}
      BY <1>0, <3>1 DEF Redis
    <3>3. pc'[w] = "revoke" /\ job'[w] = j
      BY <1>a, <3>1 DEF Goes
    <3>4. \A x \in Spendable : x # j.arg => ~Spending(w, x)
      BY <2>4 DEF Spending, At
    <3>5. ASSUME NEW x \in Spendable
          PROVE  SpentOne(x, Spending(w, x))'
      <4>1. SpentOne(x, Spending(w, x))
        BY DEF SpentBut
      <4>2. CASE x = j.arg
        <5>1. ~Open(x)'
          BY <2>0, <3>2, <4>2 DEF Open
        <5> QED
          BY <3>1, <4>1, <5>1 DEF SpentOne, Same
      <4>3. CASE x # j.arg
        <5>1. Open(x)' => Open(x)
          BY <3>2, <4>3 DEF Open
        <5> QED
          BY <3>1, <3>4, <4>1, <4>3, <5>1 DEF SpentOne, Same, Fine
      <4> QED
        BY <4>2, <4>3
    <3>6. SpentBut(w)'
      BY <1>0, <3>1, <3>5 DEF SpentBut, Same
    <3>7. Unspent(w)'
      BY <1>0, <2>0, <3>1, <3>3 DEF Unspent, Same
    <3> QED
      BY <3>6, <3>7
  <2> QED
    BY <1>14, <2>1, <2>2, <2>3, <2>4 DEF Reset, At, WritePassword
<1>15. CASE Fault(w)
  <2>1. /\ UNCHANGED <<redis, known, used>> /\ CutOff({w})
        /\ \/ Respond(w)
           \/ Goto(w, "cleanup") /\ UNCHANGED job
           \/ Goto(w, "find") /\ UNCHANGED job /\ j.op \in {"login", "change"}
           \/ Goto(w, "blacklist") /\ UNCHANGED job
    BY <1>0, <1>15 DEF Fault, Admit, OnPath, First, Counting
  <2>2. \A x \in Spendable :
          /\ cut'[x] = cut[x] + (IF Spending(w, x) THEN 1 ELSE 0)
          /\ cut[x] \in Nat /\ used[x] \in Nat
    <3>1. \A x \in Spendable : x \in Session \cup Grant
      BY DEF Spendable, Session
    <3> QED
      BY <1>0, <2>1, <3>1 DEF CutOff
  <2>3. /\ Respond(w) => pc' = [pc EXCEPT ![w] = "idle"]
        /\ ~Respond(w) => pc'[w] \in {"cleanup", "find", "blacklist"} /\ job'[w] = j
                          /\ (pc'[w] = "find" => j.op \in {"login", "change"})
    BY <1>0, <2>1 DEF Goto, Respond
  <2>4. \A x \in Spendable : ~Spending(w, x)'
    BY <2>3, RespondUnspent DEF Spending, At
  <2>5. ASSUME NEW x \in Spendable
        PROVE  SpentOne(x, Spending(w, x))'
    <3>1. SpentOne(x, Spending(w, x))
      BY DEF SpentBut
    <3>2. used'[x] = used[x] /\ known' = known /\ (Open(x)' => Open(x))
      BY <2>1 DEF Open
    <3>3. CASE Spending(w, x)
      <4>1. cut'[x] = cut[x] + 1
        BY <2>2, <3>3
      <4> QED
        BY <2>2, <2>4, <3>1, <3>2, <4>1 DEF SpentOne, Fine
    <3>4. CASE ~Spending(w, x)
      <4>1. cut'[x] = cut[x]
        BY <2>2, <3>4
      <4> QED
        BY <2>4, <3>1, <3>2, <3>4, <4>1 DEF SpentOne, Fine
    <3> QED
      BY <3>3, <3>4
  <2>6. SpentBut(w)'
    BY <1>0, <2>1, <2>5 DEF SpentBut
  <2>7. Unspent(w)'
    <3>1. CASE Respond(w)
      BY <2>3, <3>1, RespondUnspent
    <3>2. CASE ~Respond(w)
      BY <1>0, <2>1, <2>3, <3>2 DEF Unspent
    <3> QED
      BY <3>1, <3>2
  <2> QED
    BY <2>6, <2>7
<1> QED
  BY <1>1, <1>2, <1>3, <1>5, <1>6, <1>7, <1>8, <1>9, <1>10, <1>11, <1>12, <1>13, <1>14, <1>15 DEF Serve

LEMMA BeginsSpend ==
  ASSUME TypeOK, SpentOnce, NEW w \in Worker, Begins(w)
  PROVE  SpentOnce'
<1> SUFFICES ASSUME ~overlapped'
             PROVE  Spent' /\ \A v \in Worker : Unspent(v)'
  BY DEF SpentOnce
<1>1. /\ ~overlapped /\ pc[w] = "idle" /\ \A v \in Worker \ {w} : pc[v] = "idle"
      /\ UNCHANGED data /\ requests' = requests + 1
  BY DEF Begins
<1>2. PICK j \in Job, l \in PC \ {"idle"} :
        /\ Goto(w, l) /\ job' = [job EXCEPT ![w] = j]
        /\ First(j.op, l) /\ Names(j)
        /\ j.op = "verifyReset" => j.n = requests + 1
        /\ j.op \in {"register", "forgot"} => j.s \notin known
        /\ j.op \in OfSession \ {"register", "forgot"} => j.s \in known
        /\ j.op = "reset" => j.arg \in known
  BY DEF Begins
<1>3. Spent
  BY <1>1 DEF SpentOnce
<1>4. /\ pc'[w] = l /\ job'[w] = j /\ \A v \in Worker \ {w} : pc'[v] = "idle"
      /\ requests \in Nat
  BY <1>1, <1>2 DEF Goto, TypeOK
<1>5. ASSUME NEW x \in Spendable
      PROVE  SpentOne(x, \E v \in Worker : Spending(v, x))'
  <2>1. SpentOne(x, \E v \in Worker : Spending(v, x))
    BY <1>3 DEF Spent
  <2>2. \A v \in Worker : ~Spending(v, x)
    BY <1>1 DEF Spending, At
  <2> QED
    BY <1>1, <2>1, <2>2 DEF SpentOne, Open, Fine, data
<1>6. \A g \in known' \cap Grant : g <= requests'
  BY <1>1, <1>3, <1>4 DEF Spent, data, Grant
<1>7. Unspent(w)'
  <2>1. j.op = "verifyReset" => j.n \notin known /\ j.n <= requests'
    BY <1>1, <1>2, <1>3, <1>4 DEF Names, Spent
  <2> QED
    BY <1>1, <1>2, <1>4, <2>1 DEF Unspent, First, OfSession, data
<1> QED
  BY <1>4, <1>5, <1>6, <1>7 DEF Spent, Unspent

LEMMA StepSpend ==
  ASSUME TypeOK, InFlight, Alone, SpentOnce, [Next]_vars
  PROVE  SpentOnce'
<1>0. redis \in Redis /\ pc \in [Worker -> PC]
  BY DEF TypeOK
<1>1. ASSUME NEW w \in Worker, Requests(w)
      PROVE  SpentOnce'
  BY <1>1, RequestsBegin, BeginsSpend
<1>2. ASSUME NEW w \in Worker, Serve(w)
      PROVE  SpentOnce'
  <2>1. Moves(w) /\ overlapped' = overlapped
    BY <1>2, ServesMove, ServesQuietly
  <2>2. pc[w] # "idle" /\ \A v \in Worker \ {w} : pc'[v] = pc[v]
    BY <1>0, <2>1 DEF Moves, Respond, EndSessions, Goto
  <2> SUFFICES ASSUME ~overlapped
               PROVE  Spent' /\ \A v \in Worker : Unspent(v)'
    BY <2>1 DEF SpentOnce
  <2>3. \A v \in Worker \ {w} : pc[v] = "idle" /\ pc'[v] = "idle"
    BY <2>2 DEF Alone
  <2>4. \A v \in Worker \ {w} : Unspent(v)' /\ \A x : ~Spending(v, x) /\ ~Spending(v, x)'
    BY <2>3 DEF Unspent, Spending, At
  <2>5. /\ \A x : (\E v \in Worker : Spending(v, x)) <=> Spending(w, x)
        /\ \A x : (\E v \in Worker : Spending(v, x)') <=> Spending(w, x)'
    BY <2>4
  <2>6. SpentBut(w)
    BY <2>5 DEF SpentOnce, Spent, SpentBut, SpentOne
  <2>7. SpentBut(w)' /\ Unspent(w)'
    BY <1>2, <2>6, ServesSpend DEF SpentOnce
  <2>8. Spent'
    BY <2>5, <2>7 DEF Spent, SpentBut, SpentOne
  <2> QED
    BY <2>4, <2>7, <2>8
<1>3. ASSUME Shrinks, UNCHANGED <<pc, job, known, requests, used, cut, overlapped>>
      PROVE  SpentOnce'
  <2>1. \A w \in Worker : Unspent(w) => Unspent(w)'
    BY <1>3 DEF Unspent, Fine
  <2>2. ASSUME Spent, NEW x \in Spendable
        PROVE  SpentOne(x, \E w \in Worker : Spending(w, x))'
    <3>1. SpentOne(x, \E w \in Worker : Spending(w, x)) /\ (Open(x)' => Open(x))
      BY <1>3, <2>2, ShrinksOpen DEF Spent
    <3>2. \A w \in Worker : Spending(w, x)' <=> Spending(w, x)
      BY <1>3 DEF Spending, At
    <3> QED
      BY <1>3, <3>1, <3>2 DEF SpentOne, Fine
  <2> QED
    BY <1>3, <2>1, <2>2 DEF SpentOnce, Spent
<1>4. CASE Expire \/ \E status \in {"Active", "Banned", "Deleted"} : SetStatus(status)
  <2>1. UNCHANGED <<pc, job, known, requests, used, cut, overlapped>>
    BY <1>4 DEF Expire, SetStatus, process, hist
  <2>2. Shrinks
    BY <1>0, <1>4 DEF Expire, SetStatus, Shrinks, Redis
  <2> QED
    BY <1>3, <2>1, <2>2
<1>5. CASE Crash
  <2>1. /\ \A w \in Worker : pc'[w] = "idle"
        /\ UNCHANGED <<redis, known, requests, used, overlapped>> /\ CutOff(Worker)
    BY <1>5 DEF Crash
  <2>2. ASSUME Spent, NEW x \in Spendable
        PROVE  SpentOne(x, \E w \in Worker : Spending(w, x))'
    <3>1. SpentOne(x, \E w \in Worker : Spending(w, x)) /\ x \in Session \cup Grant
      BY <2>2 DEF Spent, Spendable, Session
    <3>2. /\ cut'[x] = cut[x] + (IF \E w \in Worker : Spending(w, x) THEN 1 ELSE 0)
          /\ used[x] \in Nat /\ cut[x] \in Nat
      BY <2>1, <3>1 DEF CutOff, TypeOK
    <3>3. CASE \E w \in Worker : Spending(w, x)
      <4>1. cut'[x] = cut[x] + 1
        BY <3>2, <3>3
      <4> QED
        BY <2>1, <3>1, <3>2, <4>1 DEF SpentOne, Fine
    <3>4. CASE ~\E w \in Worker : Spending(w, x)
      <4>1. cut'[x] = cut[x]
        BY <3>2, <3>4
      <4>2. Open(x)' => Open(x)
        BY <2>1 DEF Open
      <4> QED
        BY <2>1, <3>1, <3>2, <3>4, <4>1, <4>2 DEF SpentOne, Fine
    <3> QED
      BY <3>3, <3>4
  <2> QED
    BY <2>1, <2>2 DEF SpentOnce, Spent, Unspent
<1>6. CASE UNCHANGED vars
  <2>1. Shrinks
    BY <1>0, <1>6 DEF Shrinks, vars
  <2> QED
    BY <1>3, <1>6, <2>1 DEF vars, process, hist
<1> QED
  BY <1>1, <1>2, <1>4, <1>5, <1>6 DEF Next

\* The codes of a registration have made one account, and none while there is none.
Registered == \A s \in RegSession : used[s] <= 1 /\ (user = None => used[s] = 0)

\* Who uses a code or a grant.
Uses(w) ==
  \/ UNCHANGED used
  \/ Use(job[w].s) /\ job[w].s \in Session /\ user = None /\ user' # None
  \/ \E x \in Spendable : Use(x)

LEMMA ServesUse ==
  ASSUME TypeOK, InFlight, NEW w \in Worker, Serve(w)
  PROVE  Uses(w)
<1> USE DEF Uses
<1>0. /\ pc[w] # "idle" => Names(job[w])
      /\ None \notin User
  BY AccountAssumption DEF InFlight, Request
<1>1. CASE Verify(w)
  <2>1. CASE VerifyCreate(w)
    <3>1. At(w, "verify", "create") /\ job[w].s \in Session
      BY <1>0, <2>1 DEF VerifyCreate, At, Names, OfSession
    <3>2. UNCHANGED used
          \/ (user = None /\ user' = [status |-> "Active", password |-> 1] /\ Use(job[w].s))
      BY <2>1 DEF VerifyCreate
    <3>3. [status |-> "Active", password |-> 1] # None
      BY <1>0 DEF User
    <3> QED
      BY <3>1, <3>2, <3>3
  <2> QED
    BY <1>1, <2>1 DEF Verify, hist
<1>2. CASE VerifyReset(w)
  <2>1. At(w, "verifyReset", "grant") => job[w].s \in Spendable
    BY <1>0 DEF At, Names, OfSession, OfReset, Spendable
  <2> QED
    BY <1>2, <2>1 DEF VerifyReset, hist
<1>3. CASE Reset(w) \/ Change(w)
  <2>1. pc[w] = "write" /\ job[w].op = "reset" => job[w].arg \in Spendable
    BY <1>0 DEF Names, Spendable
  <2>2. UNCHANGED used \/ (pc[w] = "write" /\ job[w].op = "reset" /\ Use(job[w].arg))
    BY <1>3 DEF Reset, Change, WritePassword, hist
  <2> QED
    BY <2>1, <2>2
<1>4. CASE ~Verify(w) /\ ~VerifyReset(w) /\ ~Reset(w) /\ ~Change(w)
  <2>1. UNCHANGED used
    BY <1>4 DEF Serve, CountAttempt, MailCode, CleanUp, Register, Resend, StoreToken, Login, Refresh,
       Authenticate, Logout, Revoke, Forgot, ResendReset, Fault, StoreCode, hist
  <2> QED
    BY <2>1
<1> QED
  BY <1>1, <1>2, <1>3, <1>4

LEMMA StepRegistered ==
  ASSUME TypeOK, InFlight, Registered, [Next]_vars
  PROVE  Registered'
<1>0. /\ used \in [Session \cup Grant -> Nat] /\ Session \cap Grant = {}
      /\ RegSession \cap ResetSession = {} /\ Session = RegSession \cup ResetSession
  BY AccountAssumption DEF TypeOK, Session
<1>1. ASSUME UNCHANGED used, user # None => user' # None
      PROVE  Registered'
  BY <1>1 DEF Registered
<1>2. ASSUME NEW w \in Worker, Requests(w)
      PROVE  Registered'
  <2>1. Begins(w)
    BY <1>2, RequestsBegin
  <2> QED
    BY <1>1, <2>1 DEF Begins, data
<1>3. ASSUME NEW w \in Worker, Serve(w)
      PROVE  Registered'
  <2>1. Moves(w) /\ Uses(w)
    BY <1>3, ServesMove, ServesUse
  <2>2. user # None => user' # None
    BY <2>1 DEF Moves
  <2>3. CASE Use(job[w].s) /\ job[w].s \in Session /\ user = None /\ user' # None
    <3>1. \A s \in RegSession : used[s] = 0 /\ s \in Session \cup Grant
      BY <1>0, <2>3 DEF Registered
    <3>2. \A s \in RegSession : used'[s] \in {0, 1}
      BY <1>0, <2>3, <3>1 DEF Use
    <3> QED
      BY <2>3, <3>2 DEF Registered
  <2>4. ASSUME NEW x \in Spendable, Use(x)
        PROVE  Registered'
    <3>1. \A s \in RegSession : s # x /\ s \in Session \cup Grant
      BY <1>0, <2>4 DEF Spendable
    <3>2. \A s \in RegSession : used'[s] = used[s]
      BY <1>0, <2>4, <3>1 DEF Use
    <3> QED
      BY <2>2, <3>2 DEF Registered
  <2> QED
    BY <1>1, <2>1, <2>2, <2>3, <2>4 DEF Uses
<1>4. CASE Expire \/ \E status \in {"Active", "Banned", "Deleted"} : SetStatus(status)
  <2>1. user # None => user' # None
    BY <1>4, EnvironmentPlain, TypeParts
  <2>2. UNCHANGED used
    BY <1>4 DEF Expire, SetStatus, hist
  <2> QED
    BY <1>1, <2>1, <2>2
<1>5. CASE Crash
  BY <1>1, <1>5 DEF Crash
<1>6. CASE UNCHANGED vars
  BY <1>1, <1>6 DEF vars, hist
<1> QED
  BY <1>2, <1>3, <1>4, <1>5, <1>6 DEF Next

\* As long as requests have not overlapped, the codes of a registration make one
\* account, the codes of a forgotten password give one grant and a grant changes the
\* password once; and once more each time that a failing call or a stop of the process
\* comes between the use and the deletion of its key.
THEOREM CodesAreSpentOnce == Spec => []CodesSpentOnce
<1>1. Init => Alone /\ SpentOnce /\ Registered
  <2> SUFFICES ASSUME Init PROVE Alone /\ SpentOnce /\ Registered
    OBVIOUS
  <2>1. /\ \A w \in Worker : pc[w] = "idle"
        /\ \A x \in Session \cup Grant : used[x] = 0 /\ cut[x] = 0
        /\ known = {}
    BY DEF Init
  <2>2. Alone /\ Registered
    BY <2>1 DEF Alone, Registered, Session
  <2>3. \A x \in Spendable : used[x] = 0 /\ cut[x] = 0
    BY <2>1 DEF Spendable, Session
  <2>4. Spent
    BY <2>1, <2>3 DEF Spent, SpentOne, Fine
  <2> QED
    BY <2>1, <2>2, <2>4 DEF SpentOnce, Unspent
<1>2. Spec => [](TypeOK /\ InFlight /\ Alone /\ SpentOnce /\ Registered)
  BY <1>1, InitTyped, StepTyped, StepAlone, StepSpend, StepRegistered, PTL DEF Spec
<1>3. TypeOK /\ SpentOnce /\ Registered => CodesSpentOnce
  <2> SUFFICES ASSUME TypeOK, SpentOnce, Registered, ~overlapped, NEW x \in Session \cup Grant
               PROVE  used[x] <= 1 + cut[x]
    BY DEF CodesSpentOnce
  <2>1. used[x] \in Nat /\ cut[x] \in Nat
    BY DEF TypeOK
  <2>2. CASE x \in RegSession
    BY <2>1, <2>2 DEF Registered
  <2>3. CASE x \in Spendable
    BY <2>1, <2>3 DEF SpentOnce, Spent, SpentOne
  <2> QED
    BY <2>2, <2>3 DEF Session, Spendable
<1> QED
  BY <1>2, <1>3, PTL

=============================================================================
