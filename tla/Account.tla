------------------------------ MODULE Account ------------------------------
(***************************************************************************)
(* The account of one email address: its row in `users` and its keys in    *)
(* Redis (codes sent by mail, counters of wrong attempts, the lock, reset  *)
(* grants and the one refresh token), under the requests of module auth.   *)
(*                                                                         *)
(* Every request is a Worker that makes one database, Redis or mail call   *)
(* per step.  Codes, passwords and tokens are numbers in order of issue, a *)
(* reset grant has the number of the request that gives it.  An access     *)
(* token has the number of the refresh token it was issued with.           *)
(* A process that started without Redis reads nothing there and writes     *)
(* nothing, without telling anybody, until it is restarted.                *)
(* Keys that nothing reads (the registration by email, the cached          *)
(* permissions) are left out.                                              *)
(***************************************************************************)
EXTENDS Naturals

CONSTANTS
  RegSession,    \* session ids given to registrations
  ResetSession,  \* session ids given to forgotten passwords
  Worker,        \* requests in flight at the same time
  MaxAttempts,   \* maxLoginAttempts and otpMaxAttempts
  MaxCodes,      \* bound: codes sent per session before another may be asked for
  MaxRequests,   \* bound: requests
  MaxFaults,     \* bound: calls that reject, stops of the process
  None           \* no row, no request

VARIABLES
  user,        \* the row with this email, or None; a deleted one stays
  redis,       \* the keys of this account
  ready,       \* the process has found Redis when it started
  sent,        \* sent[s]: codes generated for session s
  known,       \* the sessions and grants that were answered to a client
  issued,      \* the number of the token issued last
  pc, job,     \* pc[w], job[w]: next call and local state of request w
  requests, faults,
  overlapped,  \* history: some request has started while another was in flight
  endings,     \* history: answers that said that the user's sessions have ended
  opened,      \* history: endings when the sign-in behind the stored token was asked for
  spared,      \* history: an ending could not reach the stored token
  used,        \* history: accounts created for the codes of a registration, grants given
               \* for those of a forgotten password, passwords written for a grant
  cut          \* history: requests that have used a code or grant and did not delete it

hist == <<overlapped, endings, opened, spared, used, cut>>
process == <<ready, issued, requests, faults>>
vars == <<user, redis, sent, known, pc, job, process, hist>>

Session == RegSession \cup ResetSession
Counter == {"login", "registration", "reset"}
Grant == 1..MaxRequests

User == [status : {"Active", "Banned", "Deleted"}, password : Nat]

\* challenge[s] is the number of the code that session s accepts, 0 when the key
\* is gone; a counter expires if its time to live was set; refresh 0 is no token.
Redis == [challenge : [Session -> Nat], attempts : [Counter -> Nat],
          expires : [Counter -> BOOLEAN], locked : BOOLEAN,
          grants : SUBSET Grant, refresh : Nat, blacklist : SUBSET Nat]

Op == {"register", "resend", "verify", "login", "refresh", "forgot", "resendReset",
       "verifyReset", "reset", "change", "logout"}

\* arg: the code, password, refresh token or grant the client sends.  n: for
\* verifyReset the grant it would give, for verify 1 when it has created the user,
\* for change and logout the access token.  since (history): endings when the
\* request started, or when the sign-in did that it refreshes; raced: sessions
\* have been ended since.
Job == [op : Op, s : Session \cup {None}, arg : Nat, n : Nat, since : Nat, raced : BOOLEAN]

PC == {"idle", "find", "store", "mail", "cleanup", "load", "incr", "expire", "limit", "zero",
       "create", "drop", "forget", "welcome", "token", "locked", "unlock", "grant",
       "write", "spend", "auth", "blacklist", "revoke"}

ASSUME AccountAssumption ==
  /\ MaxAttempts \in Nat \ {0, 1} /\ MaxCodes \in Nat \ {0}
  /\ MaxRequests \in Nat /\ MaxFaults \in Nat
  /\ RegSession \cap ResetSession = {}
  /\ Session \cap Grant = {}
  /\ None \notin User /\ None \notin Job /\ None \notin Session

Init ==
  /\ \/ user = None /\ issued = 0
     \/ user = [status |-> "Active", password |-> 1] /\ issued = 1
  /\ redis = [challenge |-> [s \in Session |-> 0], attempts |-> [k \in Counter |-> 0],
              expires |-> [k \in Counter |-> FALSE], locked |-> FALSE,
              grants |-> {}, refresh |-> issued, blacklist |-> {}]
  /\ ready \in BOOLEAN
  /\ sent = [s \in Session |-> 0]
  /\ known = {}
  /\ requests = 0 /\ faults = 0
  /\ pc = [w \in Worker |-> "idle"] /\ job = [w \in Worker |-> None]
  /\ overlapped = FALSE /\ endings = 0 /\ opened = 0 /\ spared = FALSE
  /\ used = [x \in Session \cup Grant |-> 0] /\ cut = [x \in Session \cup Grant |-> 0]

Live == user # None /\ user.status # "Deleted"
Active == user # None /\ user.status = "Active"

\* SET, DEL and INCR do nothing while Redis is not ready, and GET finds nothing.
Write(r) == redis' = IF ready THEN r ELSE redis
Challenge(s) == IF ready THEN redis.challenge[s] ELSE 0

At(w, op, l) == pc[w] = l /\ job[w].op = op
Goto(w, l) == pc' = [pc EXCEPT ![w] = l]
Respond(w) == Goto(w, "idle") /\ job' = [job EXCEPT ![w] = None]

\* The codes of session x, or grant x, have had their effect.
Use(x) == used' = [used EXCEPT ![x] = @ + 1]

\* The key of a session's code, and a counter of wrong attempts, after DEL.
NoChallenge(s) == [redis.challenge EXCEPT ![s] = 0]
NoAttempts(k) == [redis.attempts EXCEPT ![k] = 0]
NoExpiry(k) == [redis.expires EXCEPT ![k] = FALSE]

Start(w, op, s, arg, l) ==
  /\ pc[w] = "idle" /\ requests < MaxRequests
  /\ requests' = requests + 1
  /\ overlapped' = (overlapped \/ \E v \in Worker \ {w} : pc[v] # "idle")
  /\ job' = [job EXCEPT ![w] = [op |-> op, s |-> s, arg |-> arg, since |-> endings, raced |-> FALSE,
                                n |-> CASE op = "verifyReset" -> requests + 1
                                        [] op \in {"change", "logout"} -> issued
                                        [] OTHER -> 0]]
  /\ Goto(w, l)
  /\ UNCHANGED <<user, redis, ready, sent, known, issued, faults, endings, opened, spared,
                 used, cut>>

(***************************************************************************)
(* Wrong codes and passwords: failLoginAttempt, handleOtpAttempt and the   *)
(* same steps in verifyEmail.                                              *)
(***************************************************************************)
CounterOf(w) == CASE job[w].op = "login" -> "login"
                  [] job[w].op = "verify" -> "registration"
                  [] OTHER -> "reset"

AfterCount(w, n) == IF n >= MaxAttempts THEN Goto(w, "limit") /\ UNCHANGED job ELSE Respond(w)

\* Mutated form: the time to live is set by the attempt that reaches the limit.
ExpiresFrom(n) == n = MaxAttempts

\* The attempt that creates the counter sets its time to live.
SetsExpiry(n) == n = 1

CountAttempt(w) ==
  LET k == CounterOf(w)
      n == IF ready THEN redis.attempts[k] + 1 ELSE 0
  IN
  \/ /\ pc[w] = "incr"
     /\ Write([redis EXCEPT !.attempts[k] = n])
     /\ IF SetsExpiry(n) THEN Goto(w, "expire") /\ UNCHANGED job ELSE AfterCount(w, n)
     /\ UNCHANGED <<user, sent, known, process, hist>>
  \/ /\ pc[w] = "expire"   \* EXPIRE of a key deleted meanwhile does nothing
     /\ Write([redis EXCEPT !.expires[k] = redis.attempts[k] > 0])
     /\ AfterCount(w, 1)
     /\ UNCHANGED <<user, sent, known, process, hist>>
  \/ /\ pc[w] = "limit"
     /\ Write(IF k = "login" THEN [redis EXCEPT !.locked = TRUE]
              ELSE [redis EXCEPT !.challenge = NoChallenge(job[w].s)])
     /\ Goto(w, "zero")
     /\ UNCHANGED <<user, sent, known, job, process, hist>>
  \/ /\ pc[w] = "zero"
     /\ Write([redis EXCEPT !.attempts = NoAttempts(k), !.expires = NoExpiry(k)])
     /\ Respond(w)
     /\ UNCHANGED <<user, sent, known, process, hist>>

(***************************************************************************)
(* Registration.                                                           *)
(***************************************************************************)

\* Steps shared by everything that sends a code for session s: store it and
\* mail it.  `next` is the step between the two, if any.
StoreCode(w, s, next) ==
  /\ sent' = [sent EXCEPT ![s] = @ + 1]
  /\ Write([redis EXCEPT !.challenge[s] = sent[s] + 1])
  /\ Goto(w, next)
  /\ UNCHANGED <<user, known, job, process, hist>>

MailCode(w) ==
  /\ pc[w] = "mail"
  /\ known' = known \cup {job[w].s}
  /\ Respond(w)
  /\ UNCHANGED <<user, redis, sent, process, hist>>

\* The code could not be mailed: its key is deleted.
CleanUp(w) ==
  /\ pc[w] = "cleanup"
  /\ Write([redis EXCEPT !.challenge = NoChallenge(job[w].s)])
  /\ Respond(w)
  /\ UNCHANGED <<user, sent, known, process, hist>>

\* The id of a session is new.
Fresh(s) == s \notin known /\ \A v \in Worker : job[v] # None => job[v].s # s

RegisterStart(w, s) == Fresh(s) /\ Start(w, "register", s, 0, "find")

Register(w) ==
  \/ /\ At(w, "register", "find")
     /\ IF Live THEN Respond(w) ELSE Goto(w, "store") /\ UNCHANGED job
     /\ UNCHANGED <<user, redis, sent, known, process, hist>>
  \/ /\ At(w, "register", "store")
     /\ StoreCode(w, job[w].s, "mail")

ResendStart(w, s) == s \in known /\ sent[s] < MaxCodes /\ Start(w, "resend", s, 0, "load")

\* resendVerificationOtp; the code is stored whatever has happened to the session
\* since it was read.
Resend(w) ==
  \/ /\ At(w, "resend", "load")
     /\ IF Challenge(job[w].s) = 0 THEN Respond(w) ELSE Goto(w, "store") /\ UNCHANGED job
     /\ UNCHANGED <<user, redis, sent, known, process, hist>>
  \/ /\ At(w, "resend", "store")
     /\ StoreCode(w, job[w].s, "mail")

VerifyStart(w, s, code) == s \in known /\ Start(w, "verify", s, code, "load")

\* Mutated form: the refusal of the insert is not looked at.
VerifyCreateUnchecked(w) ==
  /\ At(w, "verify", "create")
  /\ \/ user = None /\ user' = [status |-> "Active", password |-> 1]
     \/ UNCHANGED user
  /\ job' = [job EXCEPT ![w].n = 1] /\ Goto(w, "drop") /\ Use(job[w].s)
  /\ UNCHANGED <<redis, sent, known, process, overlapped, endings, opened, spared, cut>>

\* The insert fails when the email's row exists, deleted or not, and when the
\* username was taken meanwhile; the session then stays.
VerifyCreate(w) ==
  /\ At(w, "verify", "create")
  /\ \/ user = None /\ user' = [status |-> "Active", password |-> 1]
        /\ job' = [job EXCEPT ![w].n = 1] /\ Goto(w, "drop") /\ Use(job[w].s)
     \/ UNCHANGED <<user, used>> /\ Respond(w)
  /\ UNCHANGED <<redis, sent, known, process, overlapped, endings, opened, spared, cut>>

\* A new refresh token replaces the stored one and is the answer; two tokens signed
\* in the same second are the same.
StoreToken(w) ==
  /\ pc[w] = "token"
  /\ \E t \in {issued, issued + 1} \ {0} :
       issued' = t /\ Write([redis EXCEPT !.refresh = t])
  /\ IF ready THEN opened' = job[w].since /\ spared' = job[w].raced ELSE UNCHANGED <<opened, spared>>
  /\ Respond(w)
  /\ UNCHANGED <<user, sent, known, ready, requests, faults, overlapped, endings, used, cut>>

\* verifyEmail
Verify(w) ==
  \/ /\ At(w, "verify", "load")
     /\ LET c == Challenge(job[w].s)
        IN  IF c = 0 THEN Respond(w)
            ELSE Goto(w, IF c = job[w].arg THEN "find" ELSE "incr") /\ UNCHANGED job
     /\ UNCHANGED <<user, redis, sent, known, process, hist>>
  \/ /\ At(w, "verify", "find")
     /\ Goto(w, IF Live THEN "drop" ELSE "create")
     /\ UNCHANGED <<user, redis, sent, known, job, process, hist>>
  \/ VerifyCreate(w)
  \/ /\ At(w, "verify", "drop")
     /\ Write([redis EXCEPT !.challenge = NoChallenge(job[w].s)])
     /\ Goto(w, "forget")
     /\ UNCHANGED <<user, sent, known, job, process, hist>>
  \/ /\ At(w, "verify", "forget")
     /\ Write([redis EXCEPT !.attempts = NoAttempts("registration"),
                            !.expires = NoExpiry("registration")])
     /\ IF job[w].n = 1 THEN Goto(w, "welcome") /\ UNCHANGED job ELSE Respond(w)
     /\ UNCHANGED <<user, sent, known, process, hist>>
  \/ /\ At(w, "verify", "welcome")
     /\ Goto(w, "token")
     /\ UNCHANGED <<user, redis, sent, known, job, process, hist>>

(***************************************************************************)
(* Sessions.                                                               *)
(***************************************************************************)
LoginStart(w, password) == Start(w, "login", None, password, "locked")

Login(w) ==
  \/ /\ At(w, "login", "locked")
     /\ IF ready /\ redis.locked THEN Respond(w) ELSE Goto(w, "find") /\ UNCHANGED job
     /\ UNCHANGED <<user, redis, sent, known, process, hist>>
  \/ /\ At(w, "login", "find")
     /\ \/ ~Live /\ Goto(w, "incr") /\ UNCHANGED job
        \/ Live /\ user.status = "Banned" /\ Respond(w)
        \/ Active /\ UNCHANGED job
           /\ Goto(w, IF job[w].arg = user.password THEN "forget" ELSE "incr")
     /\ UNCHANGED <<user, redis, sent, known, process, hist>>
  \/ /\ At(w, "login", "forget")
     /\ Write([redis EXCEPT !.attempts = NoAttempts("login"), !.expires = NoExpiry("login")])
     /\ Goto(w, "unlock")
     /\ UNCHANGED <<user, sent, known, job, process, hist>>
  \/ /\ At(w, "login", "unlock")
     /\ Write([redis EXCEPT !.locked = FALSE])
     /\ Goto(w, "token")
     /\ UNCHANGED <<user, sent, known, job, process, hist>>

RefreshStart(w, token) == Start(w, "refresh", None, token, "load")

\* The new token goes on with the session of the old one.
Refresh(w) ==
  \/ /\ At(w, "refresh", "load")
     /\ IF ready /\ redis.refresh = job[w].arg
        THEN Goto(w, "find") /\ job' = [job EXCEPT ![w].since = opened, ![w].raced = spared]
        ELSE Respond(w)
     /\ UNCHANGED <<user, redis, sent, known, process, hist>>
  \/ /\ At(w, "refresh", "find")
     /\ IF Active THEN Goto(w, "token") /\ UNCHANGED job ELSE Respond(w)
     /\ UNCHANGED <<user, redis, sent, known, process, hist>>

\* The middleware of the requests of a signed-in user.
Admit(w) == Goto(w, IF job[w].op = "change" THEN "find" ELSE "blacklist") /\ UNCHANGED job

Authenticate(w) ==
  /\ pc[w] = "auth"
  /\ IF Active /\ ~(ready /\ job[w].n \in redis.blacklist) THEN Admit(w) ELSE Respond(w)
  /\ UNCHANGED <<user, redis, sent, known, process, hist>>

LogoutStart(w) == issued > 0 /\ Start(w, "logout", None, 0, "auth")

Logout(w) ==
  /\ At(w, "logout", "blacklist")
  /\ Write([redis EXCEPT !.blacklist = @ \cup {job[w].n}])
  /\ Goto(w, "revoke")
  /\ UNCHANGED <<user, sent, known, job, process, hist>>

\* The answer that sessions have ended; it does not reach what is in flight.
EndSessions(w) ==
  /\ endings' = endings + 1 /\ spared' = ~ready
  /\ Goto(w, "idle")
  /\ job' = [v \in Worker |-> IF v = w \/ job[v] = None THEN None ELSE [job[v] EXCEPT !.raced = TRUE]]

\* Mutated form: the password is changed and the session goes on.
RevokeNothing(w) ==
  /\ pc[w] = "revoke"
  /\ Write(IF job[w].op = "change" THEN redis ELSE [redis EXCEPT !.refresh = 0])
  /\ EndSessions(w)
  /\ UNCHANGED <<user, sent, known, process, overlapped, opened, used, cut>>

\* The last call of logout, changePassword and resetPassword.
Revoke(w) ==
  /\ pc[w] = "revoke"
  /\ Write([redis EXCEPT !.refresh = 0])
  /\ EndSessions(w)
  /\ UNCHANGED <<user, sent, known, process, overlapped, opened, used, cut>>

(***************************************************************************)
(* Passwords.                                                              *)
(***************************************************************************)
ForgotStart(w, s) == Fresh(s) /\ Start(w, "forgot", s, 0, "find")

\* An unknown email is answered like a known one.
Forgot(w) ==
  \/ /\ At(w, "forgot", "find")
     /\ \/ Active /\ Goto(w, "store") /\ UNCHANGED <<job, known>>
        \/ Live /\ user.status = "Banned" /\ Respond(w) /\ UNCHANGED known
        \/ ~Live /\ Respond(w) /\ known' = known \cup {job[w].s}
     /\ UNCHANGED <<user, redis, sent, process, hist>>
  \/ /\ At(w, "forgot", "store")
     /\ StoreCode(w, job[w].s, "mail")

ResendResetStart(w, s) == s \in known /\ sent[s] < MaxCodes /\ Start(w, "resendReset", s, 0, "load")

ResendReset(w) ==
  \/ /\ At(w, "resendReset", "load")
     /\ IF Challenge(job[w].s) = 0 THEN Respond(w) ELSE Goto(w, "store") /\ UNCHANGED job
     /\ UNCHANGED <<user, redis, sent, known, process, hist>>
  \/ /\ At(w, "resendReset", "store")
     /\ StoreCode(w, job[w].s, "forget")
  \/ /\ At(w, "resendReset", "forget")
     /\ Write([redis EXCEPT !.attempts = NoAttempts("reset"), !.expires = NoExpiry("reset")])
     /\ Goto(w, "mail")
     /\ UNCHANGED <<user, sent, known, job, process, hist>>

VerifyResetStart(w, s, code) == s \in known /\ Start(w, "verifyReset", s, code, "load")

\* Mutated form: the session survives its code, which may be sent again.
VerifyResetDropNothing(w) == redis' = redis

VerifyResetDrop(w) == Write([redis EXCEPT !.challenge = NoChallenge(job[w].s)])

\* verifyForgotPasswordOtp: a grant for the code.
VerifyReset(w) ==
  \/ /\ At(w, "verifyReset", "load")
     /\ LET c == Challenge(job[w].s)
        IN  IF c = 0 THEN Respond(w)
            ELSE Goto(w, IF c = job[w].arg THEN "grant" ELSE "incr") /\ UNCHANGED job
     /\ UNCHANGED <<user, redis, sent, known, process, hist>>
  \/ /\ At(w, "verifyReset", "grant")
     /\ Write([redis EXCEPT !.grants = @ \cup {job[w].n}])
     /\ Use(job[w].s)
     /\ Goto(w, "drop")
     /\ UNCHANGED <<user, sent, known, job, process, overlapped, endings, opened, spared, cut>>
  \/ /\ At(w, "verifyReset", "drop")
     /\ VerifyResetDrop(w)
     /\ Goto(w, "forget")
     /\ UNCHANGED <<user, sent, known, job, process, hist>>
  \/ /\ At(w, "verifyReset", "forget")
     /\ Write([redis EXCEPT !.attempts = NoAttempts("reset"), !.expires = NoExpiry("reset")])
     /\ known' = known \cup {job[w].n}
     /\ Respond(w)
     /\ UNCHANGED <<user, sent, process, hist>>

\* The update is by id and refused for a deleted row.
WritePassword(w, next) ==
  /\ pc[w] = "write"
  /\ \/ /\ Live /\ user' = [user EXCEPT !.password = @ + 1] /\ Goto(w, next) /\ UNCHANGED job
        /\ IF job[w].op = "reset" THEN Use(job[w].arg) ELSE UNCHANGED used
     \/ ~Live /\ UNCHANGED <<user, used>> /\ Respond(w)
  /\ UNCHANGED <<redis, sent, known, process, overlapped, endings, opened, spared, cut>>

ResetStart(w, g) == g \in known /\ Start(w, "reset", None, g, "load")

\* resetPassword; a grant whose user is gone is deleted (step "drop").
Reset(w) ==
  \/ /\ At(w, "reset", "load")
     /\ IF ready /\ job[w].arg \in redis.grants THEN Goto(w, "find") /\ UNCHANGED job ELSE Respond(w)
     /\ UNCHANGED <<user, redis, sent, known, process, hist>>
  \/ /\ At(w, "reset", "find")
     /\ \/ Active /\ Goto(w, "write") /\ UNCHANGED job
        \/ Live /\ user.status = "Banned" /\ Respond(w)
        \/ ~Live /\ Goto(w, "drop") /\ UNCHANGED job
     /\ UNCHANGED <<user, redis, sent, known, process, hist>>
  \/ /\ At(w, "reset", "drop")
     /\ Write([redis EXCEPT !.grants = @ \ {job[w].arg}])
     /\ Respond(w)
     /\ UNCHANGED <<user, sent, known, process, hist>>
  \/ job[w] # None /\ job[w].op = "reset" /\ WritePassword(w, "spend")
  \/ /\ At(w, "reset", "spend")
     /\ Write([redis EXCEPT !.grants = @ \ {job[w].arg}])
     /\ Goto(w, "revoke")
     /\ UNCHANGED <<user, sent, known, job, process, hist>>

ChangeStart(w, password) == issued > 0 /\ Start(w, "change", None, password, "auth")

\* changePassword
Change(w) ==
  \/ /\ At(w, "change", "find")
     /\ IF Active /\ job[w].arg = user.password
        THEN Goto(w, "write") /\ UNCHANGED job
        ELSE Respond(w)
     /\ UNCHANGED <<user, redis, sent, known, process, hist>>
  \/ job[w] # None /\ job[w].op = "change" /\ WritePassword(w, "revoke")

(***************************************************************************)
(* The environment.                                                        *)
(***************************************************************************)

\* An admin bans or reinstates the user; the user or an admin deletes the row,
\* which is never made live again.
SetStatus(status) ==
  /\ Live /\ user' = [user EXCEPT !.status = status]
  /\ UNCHANGED <<redis, sent, known, pc, job, process, hist>>

\* A key whose time is up disappears.
Expire ==
  /\ \/ \E s \in Session : redis.challenge[s] > 0 /\ redis' = [redis EXCEPT !.challenge[s] = 0]
     \/ \E k \in Counter :
          redis.expires[k] /\ redis' = [redis EXCEPT !.attempts[k] = 0, !.expires[k] = FALSE]
     \/ redis.locked /\ redis' = [redis EXCEPT !.locked = FALSE]
     \/ \E g \in redis.grants : redis' = [redis EXCEPT !.grants = @ \ {g}]
     \/ redis.refresh > 0 /\ redis' = [redis EXCEPT !.refresh = 0]
  /\ UNCHANGED <<user, sent, known, pc, job, process, hist>>

\* Request w has used x and not yet deleted it.
Spending(w, x) ==
  \/ At(w, "verifyReset", "drop") /\ x = job[w].s
  \/ At(w, "reset", "spend") /\ x = job[w].arg

CutOff(W) ==
  cut' = [x \in Session \cup Grant |-> cut[x] + IF \E w \in W : Spending(w, x) THEN 1 ELSE 0]

\* A call rejects.  A rejected EXISTS counts as "no": login goes on past the lock, and
\* a blacklisted access token is admitted.
Fault(w) ==
  /\ pc[w] # "idle" /\ faults < MaxFaults
  /\ faults' = faults + 1
  /\ \/ pc[w] = "mail" /\ Goto(w, "cleanup") /\ UNCHANGED job
     \/ pc[w] = "locked" /\ Goto(w, "find") /\ UNCHANGED job
     \/ pc[w] = "auth" /\ Active /\ Admit(w)
     \/ pc[w] \notin {"mail", "locked"} /\ Respond(w)
  /\ CutOff({w})
  /\ UNCHANGED <<user, redis, ready, sent, known, issued, requests,
                 overlapped, endings, opened, spared, used>>

\* The process stops and starts again, with or without Redis.
Crash ==
  /\ faults < MaxFaults /\ faults' = faults + 1
  /\ pc' = [w \in Worker |-> "idle"] /\ job' = [w \in Worker |-> None]
  /\ ready' \in BOOLEAN
  /\ CutOff(Worker)
  /\ UNCHANGED <<user, redis, sent, known, issued, requests,
                 overlapped, endings, opened, spared, used>>

\* Clients send the current password or a wrong one, the code generated last for
\* a session or a wrong one, and the token they were given last.
Requests(w) ==
  \/ \E s \in RegSession :
       \/ RegisterStart(w, s)
       \/ ResendStart(w, s)
       \/ \E code \in {0, sent[s]} : VerifyStart(w, s, code)
  \/ \E password \in {0} \cup (IF user = None THEN {} ELSE {user.password}) :
       LoginStart(w, password) \/ ChangeStart(w, password)
  \/ issued > 0 /\ RefreshStart(w, issued)
  \/ LogoutStart(w)
  \/ \E s \in ResetSession :
       \/ ForgotStart(w, s)
       \/ ResendResetStart(w, s)
       \/ \E code \in {0, sent[s]} : VerifyResetStart(w, s, code)
  \/ \E g \in Grant : ResetStart(w, g)

Serve(w) ==
  \/ CountAttempt(w)
  \/ MailCode(w)
  \/ CleanUp(w)
  \/ Register(w)
  \/ Resend(w)
  \/ Verify(w)
  \/ StoreToken(w)
  \/ Login(w)
  \/ Refresh(w)
  \/ Authenticate(w)
  \/ Logout(w)
  \/ Revoke(w)
  \/ Forgot(w)
  \/ ResendReset(w)
  \/ VerifyReset(w)
  \/ Reset(w)
  \/ Change(w)
  \/ Fault(w)

Next ==
  \/ \E w \in Worker : Requests(w) \/ Serve(w)
  \/ \E status \in {"Active", "Banned", "Deleted"} : SetStatus(status)
  \/ Expire
  \/ Crash

Spec == Init /\ [][Next]_vars

-----------------------------------------------------------------------------
\* Among the rest: nobody was given a token without an account.
TypeOK ==
  /\ user \in User \cup {None}
  /\ redis \in Redis
  /\ sent \in [Session -> Nat]
  /\ known \subseteq Session \cup Grant
  /\ ready \in BOOLEAN
  /\ issued \in Nat /\ requests \in 0..MaxRequests /\ faults \in 0..MaxFaults
  /\ pc \in [Worker -> PC]
  /\ job \in [Worker -> Job \cup {None}]
  /\ overlapped \in BOOLEAN
  /\ endings \in Nat /\ opened \in 0..endings /\ spared \in BOOLEAN
  /\ used \in [Session \cup Grant -> Nat] /\ cut \in [Session \cup Grant -> Nat]
  /\ redis.refresh <= issued /\ (issued > 0 => user # None)
  /\ \A s \in Session : redis.challenge[s] <= sent[s]
  /\ \A w \in Worker : pc[w] = "idle" <=> job[w] = None

\* However requests interleave and whatever fails, the refresh token that Redis
\* accepts goes back, over any number of refreshes, to a sign-in that was asked for
\* after the last logout, change or reset of the password was answered; but for the
\* two ways past an ending: the token was asked for when it was answered and stored
\* afterwards, or the process that answered it had no Redis.
EndedSessionsStayEnded == redis.refresh > 0 /\ ~spared => opened = endings

\* When nothing failed and no request is in flight, every counter of wrong
\* attempts is below its limit and will expire, however the requests that count,
\* lock, succeed and delete have interleaved.
CountersSound ==
  faults = 0 /\ (\A w \in Worker : pc[w] = "idle")
    => \A k \in Counter :
         redis.attempts[k] < MaxAttempts /\ (redis.attempts[k] > 0 => redis.expires[k])

\* As long as requests have not overlapped, the codes of a registration make one
\* account, those of a forgotten password give one grant and a grant changes the
\* password once, whatever is sent again or resent; and once more for each time that
\* a request was cut off between doing it and deleting the code or grant.
CodesSpentOnce == ~overlapped => \A x \in Session \cup Grant : used[x] <= 1 + cut[x]

=============================================================================
