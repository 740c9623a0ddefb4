----------------------- MODULE EventInvitationProofs -----------------------
(***************************************************************************)
(* Proofs about EventInvitation for any sets of users, events and          *)
(* concurrent requests and any number of sends.                            *)
(***************************************************************************)
EXTENDS EventInvitation, TLAPS

-----------------------------------------------------------------------------
(* Type correctness.                                                       *)

LEMMA InitTypeOK == Init => TypeOK
<1> SUFFICES ASSUME Init PROVE TypeOK
  OBVIOUS
<1>1. None \notin AnswerJob
  BY NoneAssumption
<1>2. overlapped \in BOOLEAN
  BY DEF Init
<1> QED
  BY <1>1, <1>2, BoundAssumption DEF Init, TypeOK, PC, Exists

\* The job of a request to send is a SendJob until the answer.
LEMMA Sending ==
  ASSUME TypeOK, NEW w \in Worker,
         pc[w] \in {"event", "connections", "existing", "commit", "notify"}
  PROVE  job[w] \in SendJob
BY DEF TypeOK

LEMMA Answering ==
  ASSUME TypeOK, NEW w \in Worker, pc[w] \in {"load", "live", "answer"}
  PROVE  job[w] \in AnswerJob /\ job[w].key \in Key /\ Exists(job[w].key)
BY DEF TypeOK, AnswerJob

\* The two kinds of job and None are apart.
LEMMA JobsApart ==
  /\ None \notin SendJob /\ None \notin AnswerJob /\ None \notin Invitation
  /\ \A j \in SendJob : j \notin AnswerJob
BY NoneAssumption DEF SendJob, AnswerJob

\* A reopened row is as good as new.
LEMMA ReopenedRow ==
  ASSUME NEW k \in Key, inv[k] \in Invitation
  PROVE  Reopened(k) = [status |-> "PENDING", responded |-> FALSE]
<1> DEFINE n == [status |-> "PENDING", responded |-> FALSE]
<1>1. Reopened(k) \in Invitation /\ n \in Invitation
  BY DEF Reopened, Invitation
<1>2. Reopened(k).status = n.status /\ Reopened(k).responded = n.responded
  BY DEF Reopened, Invitation
<1> HIDE DEF n
<1>3. \A a, b \in Invitation :
        a.status = b.status /\ a.responded = b.responded => a = b
  BY DEF Invitation
<1> QED
  BY <1>1, <1>2, <1>3 DEF n

\* A row that exists stays.
LEMMA RowsStay ==
  ASSUME TypeOK, [Next]_vars, NEW k \in Key, Exists(k)
  PROVE  Exists(k)'
<1> USE JobsApart DEF Exists
<1>1. ASSUME NEW w \in Worker, SendCommit(w) PROVE Exists(k)'
  <2>1. job[w].reopen \in SUBSET Key
    BY <1>1, Sending DEF SendCommit, SendJob
  <2>2. inv[k] \in Invitation /\ Reopened(k) \in Invitation
    BY DEF TypeOK, Reopened, Invitation
  <2>3. [status |-> "PENDING", responded |-> FALSE] \in Invitation
    BY DEF Invitation
  <2> QED
    BY <1>1, <2>2, <2>3 DEF SendCommit
<1>2. ASSUME NEW w \in Worker, AnswerWrite(w) PROVE Exists(k)'
  <2>1. [status |-> job[w].op, responded |-> TRUE] \in Invitation
    BY <1>2, Answering DEF AnswerWrite, AnswerJob, Invitation
  <2> QED
    BY <1>2, <2>1 DEF AnswerWrite, TypeOK
<1>3. ASSUME NEW w \in Worker, NEW u \in User, NEW s \in Answers, AnswerAll(w, u, s)
      PROVE  Exists(k)'
  <2>1. [status |-> s, responded |-> TRUE] \in Invitation
    BY DEF Answers, Invitation
  <2> QED
    BY <1>3, <2>1 DEF AnswerAll
<1> QED
  BY <1>1, <1>2, <1>3
     DEF Next, vars, SetEvent, Connect, Disconnect, SendStart, SendCheckEvent,
         SendCheckConnections, SendReadExisting, SendNotify, AnswerStart, AnswerLoad,
         AcceptCheckEvent

LEMMA NextTypeOK == TypeOK /\ [Next]_vars => TypeOK'
<1> SUFFICES ASSUME TypeOK, [Next]_vars PROVE TypeOK'
  OBVIOUS
<1>1. \A k \in Key : Exists(k) => Exists(k)'
  BY RowsStay
<1>2. \A w \in Worker : pc[w] # "idle" => job[w] \in SendJob \cup AnswerJob
  BY DEF TypeOK
<1> USE JobsApart DEF TypeOK, PC, Goto, Respond
<1>3. ASSUME NEW e \in Event, NEW s \in {"live", "closed", "deleted"}, SetEvent(e, s)
      PROVE  TypeOK'
  <2>1. wasLive' \subseteq Key
    BY <1>3 DEF SetEvent
  <2> QED
    BY <1>3, <2>1 DEF SetEvent, Exists
<1>4. ASSUME NEW u \in User, NEW v \in User, Connect(u, v) \/ Disconnect(u, v)
      PROVE  TypeOK'
  <2>1. {u, v} \in Pair
    BY DEF Pair
  <2> QED
    BY <1>4, <2>1 DEF Connect, Disconnect, Exists
<1>5. ASSUME NEW w \in Worker, NEW u \in User, NEW e \in Event, NEW vs \in SUBSET User,
             SendStart(w, u, e, vs)
      PROVE  TypeOK'
  <2>1. job'[w] \in SendJob
    BY <1>5 DEF SendStart, SendJob
  <2>2. requests' \in 0..MaxRequests
    BY <1>5, BoundAssumption DEF SendStart
  <2>3. overlapped' \in BOOLEAN
    BY <1>5 DEF SendStart, Overlaps
  <2> QED
    BY <1>5, <2>1, <2>2, <2>3 DEF SendStart, Exists
<1>6. ASSUME NEW w \in Worker, SendCheckEvent(w) PROVE TypeOK'
  BY <1>6, Sending DEF SendCheckEvent, Exists
<1>7. ASSUME NEW w \in Worker, SendCheckConnections(w) PROVE TypeOK'
  <2>1. \/ pc' = [pc EXCEPT ![w] = "existing"] /\ job' = job
        \/ pc' = [pc EXCEPT ![w] = "idle"] /\ job' = [job EXCEPT ![w] = None]
    BY <1>7 DEF SendCheckConnections
  <2>2. pc[w] = "connections" /\ job[w] \in SendJob
    BY <1>7, Sending DEF SendCheckConnections
  <2>3. UNCHANGED <<inv, event, connected, requests, met, wasLive, due, overlapped>>
    BY <1>7 DEF SendCheckConnections
  <2> QED
    BY <2>1, <2>2, <2>3 DEF Exists
<1>8. ASSUME NEW w \in Worker, SendReadExisting(w) PROVE TypeOK'
  <2> DEFINE keys == KeysOf(job[w].event, job[w].user, job[w].invitees)
             c == {k \in keys : ~Exists(k)}
             r == {k \in keys : Reopens(k)}
  <2>1. c \in SUBSET Key /\ r \in SUBSET Key /\ \A k \in r : Exists(k)
    BY DEF KeysOf, Reopens
  <2>2. job[w] \in SendJob
    BY <1>8, Sending DEF SendReadExisting
  <2>3. job'[w] = [[job[w] EXCEPT !.create = c] EXCEPT !.reopen = r]
    BY <1>8 DEF SendReadExisting
  <2> HIDE DEF c, r
  <2>4. job'[w] \in SendJob /\ job'[w].reopen = r
    BY <2>1, <2>2, <2>3 DEF SendJob
  <2>5. \A v \in Worker : v # w => job'[v] = job[v]
    BY <1>8 DEF SendReadExisting
  <2>6. job' \in [Worker -> SendJob \cup AnswerJob \cup {None}]
    BY <1>8, <2>4, <2>5 DEF SendReadExisting
  <2> QED
    BY <1>8, <2>1, <2>4, <2>5, <2>6 DEF SendReadExisting, Exists
<1>9. ASSUME NEW w \in Worker, SendCommit(w) PROVE TypeOK'
  <2> DEFINE inserted == {k \in job[w].create : ~Exists(k)}
             rows == [k \in Key |->
                        IF k \in inserted
                        THEN [status |-> "PENDING", responded |-> FALSE]
                        ELSE IF k \in job[w].reopen THEN Reopened(k) ELSE inv[k]]
             notify == Returned(w, rows)
  <2>1. job[w] \in SendJob /\ job[w].create \in SUBSET Key /\ job[w].reopen \in SUBSET Key
    BY <1>9, Sending DEF SendCommit, SendJob
  <2>2. \A k \in job[w].reopen : Reopened(k) \in Invitation
    <3>1. \A k \in job[w].reopen : inv[k] \in Invitation
      BY <1>9, <2>1 DEF SendCommit, Exists
    <3> QED
      BY <3>1 DEF Reopened, Invitation
  <2>3. [status |-> "PENDING", responded |-> FALSE] \in Invitation
    BY DEF Invitation
  <2>4. inv' \in [Key -> Invitation \cup {None}]
    BY <1>9, <2>2, <2>3 DEF SendCommit
  <2>5. due' \in [Key -> Int] /\ wasLive' \subseteq Key
    BY <1>9, <2>1 DEF SendCommit
  <2>6. notify \in SUBSET Key
    BY <2>1 DEF Returned
  <2>7. [job[w] EXCEPT !.notify = notify] \in SendJob
    BY <2>1, <2>6 DEF SendJob
  <2>8. \/ pc' = [pc EXCEPT ![w] = "idle"] /\ job' = [job EXCEPT ![w] = None]
        \/ /\ pc' = [pc EXCEPT ![w] = "notify"]
           /\ job' = [job EXCEPT ![w] = [job[w] EXCEPT !.notify = notify]]
    BY <1>9 DEF SendCommit
  <2>9. UNCHANGED <<event, connected, requests, met, overlapped>>
    BY <1>9 DEF SendCommit
  <2>10. /\ \A v \in Worker :
              pc[v] \in {"load", "live", "answer"} => inv'[job[v].key] # None
         /\ \A v \in Worker :
              pc[v] = "commit" => \A k \in job[v].reopen : inv'[k] # None
    <3>1. ASSUME NEW v \in Worker, pc[v] \in {"load", "live", "answer"}
          PROVE  job[v].key \in Key /\ Exists(job[v].key) /\ v # w
      BY <1>9, <3>1, Answering DEF SendCommit
    <3>2. ASSUME NEW v \in Worker, pc[v] = "commit"
          PROVE  job[v].reopen \in SUBSET Key
      BY <3>2, Sending DEF SendJob
    <3>3. \A v \in Worker :
            job[v].key \in Key /\ Exists(job[v].key) => inv'[job[v].key] # None
      BY <1>1 DEF Exists
    <3> QED
      BY <1>1, <3>1, <3>2, <3>3 DEF Exists
  <2> HIDE DEF notify
  <2>11. job' \in [Worker -> SendJob \cup AnswerJob \cup {None}] /\ pc' \in [Worker -> PC]
    BY <2>7, <2>8
  <2>12. CASE pc' = [pc EXCEPT ![w] = "idle"] /\ job' = [job EXCEPT ![w] = None]
    BY <2>4, <2>5, <2>9, <2>10, <2>11, <2>12 DEF Exists
  <2>13. CASE /\ pc' = [pc EXCEPT ![w] = "notify"]
              /\ job' = [job EXCEPT ![w] = [job[w] EXCEPT !.notify = notify]]
    BY <2>4, <2>5, <2>7, <2>9, <2>10, <2>11, <2>13 DEF Exists
  <2> QED
    BY <2>8, <2>12, <2>13
<1>10. ASSUME NEW w \in Worker, SendNotify(w) PROVE TypeOK'
  <2>1. due' \in [Key -> Int]
    BY <1>10 DEF SendNotify
  <2> QED
    BY <1>10, <2>1 DEF SendNotify, Exists
<1>11. ASSUME NEW w \in Worker, NEW u \in User, NEW k \in Key, NEW s \in Answers,
              AnswerStart(w, u, k, s)
       PROVE  TypeOK'
  <2>1. job'[w] \in AnswerJob /\ job'[w].key = k
    BY <1>11 DEF AnswerStart, AnswerJob, Answers
  <2>2. overlapped' \in BOOLEAN
    BY <1>11 DEF AnswerStart, Overlaps
  <2> QED
    BY <1>11, <2>1, <2>2 DEF AnswerStart, Exists
<1>12. ASSUME NEW w \in Worker, AnswerLoad(w) PROVE TypeOK'
  BY <1>12, Answering DEF AnswerLoad, Exists
<1>13. ASSUME NEW w \in Worker, AcceptCheckEvent(w) PROVE TypeOK'
  BY <1>13, Answering DEF AcceptCheckEvent, Exists
<1>14. ASSUME NEW w \in Worker, AnswerWrite(w) PROVE TypeOK'
  <2>1. [status |-> job[w].op, responded |-> TRUE] \in Invitation
    BY <1>14, Answering DEF AnswerWrite, AnswerJob, Invitation
  <2>2. \A v \in Worker : pc[v] = "commit" => job[v].reopen \in SUBSET Key
    BY Sending DEF SendJob
  <2>3. \A v \in Worker : pc[v] \in {"load", "live", "answer"} => job[v].key \in Key
    BY Answering
  <2> QED
    BY <1>1, <1>14, <2>1, <2>2, <2>3 DEF AnswerWrite, Exists
<1>15. ASSUME NEW w \in Worker, NEW u \in User, NEW s \in Answers, AnswerAll(w, u, s)
       PROVE  TypeOK'
  <2>1. [status |-> s, responded |-> TRUE] \in Invitation
    BY DEF Answers, Invitation
  <2>2. \A v \in Worker : pc[v] = "commit" => job[v].reopen \in SUBSET Key
    BY Sending DEF SendJob
  <2>3. \A v \in Worker : pc[v] \in {"load", "live", "answer"} => job[v].key \in Key
    BY Answering
  <2>4. overlapped' \in BOOLEAN
    BY <1>15 DEF AnswerAll, Overlaps
  <2> QED
    BY <1>1, <1>15, <2>1, <2>2, <2>3, <2>4 DEF AnswerAll, Exists
<1>16. CASE UNCHANGED vars
  BY <1>16 DEF vars, Exists
<1> QED
  BY <1>3, <1>4, <1>5, <1>6, <1>7, <1>8, <1>9, <1>10, <1>11, <1>12, <1>13, <1>14, <1>15,
     <1>16 DEF Next

-----------------------------------------------------------------------------
(* What requests in flight may rely on.                                    *)

\* What a request to send has checked is a fact of the past when it writes:
\* its invitees had been connected to the sender.  What a request to answer
\* has checked is one too: its user is the invitee, and the event it accepts
\* was live while the invitation existed.
RequestOK(w) ==
  /\ pc[w] \in {"existing", "commit"} =>
       \A v \in job[w].invitees : {job[w].user, v} \in met
  /\ pc[w] = "commit" =>
       job[w].create \subseteq KeysOf(job[w].event, job[w].user, job[w].invitees)
  /\ pc[w] \in {"live", "answer"} => job[w].user = job[w].key.invitee
  /\ pc[w] = "live" => job[w].op = "ACCEPTED"
  /\ pc[w] = "answer" /\ job[w].op = "ACCEPTED" => job[w].key \in wasLive

InFlight ==
  /\ connected \subseteq met
  /\ \A w \in Worker : RequestOK(w)
  /\ \A k \in Key : Exists(k) /\ Live(k.event) => k \in wasLive

\* A step of one request that writes no table: only that request is to be
\* looked at again.
LEMMA OneRequest ==
  ASSUME InFlight, NEW w \in Worker, RequestOK(w)',
         UNCHANGED <<inv, event, connected, met, wasLive>>,
         \A v \in Worker : v # w => pc'[v] = pc[v] /\ job'[v] = job[v]
  PROVE  InFlight'
<1>1. ASSUME NEW v \in Worker PROVE RequestOK(v)'
  <2>1. CASE v # w
    BY <2>1 DEF InFlight, RequestOK
  <2> QED
    BY <2>1
<1> QED
  BY <1>1 DEF InFlight, Exists, Live

\* The history only grows.
LEMMA HistoryGrows == [Next]_vars => met \subseteq met' /\ wasLive \subseteq wasLive'
BY DEF Next, vars, SetEvent, Connect, Disconnect, SendStart, SendCheckEvent,
       SendCheckConnections, SendReadExisting, SendCommit, SendNotify, AnswerStart,
       AnswerLoad, AcceptCheckEvent, AnswerWrite, AnswerAll

LEMMA NextInFlight == TypeOK /\ InFlight /\ [Next]_vars => InFlight'
<1> SUFFICES ASSUME TypeOK, InFlight, [Next]_vars PROVE InFlight'
  OBVIOUS
<1>1. TypeOK' /\ met \subseteq met' /\ wasLive \subseteq wasLive'
  BY NextTypeOK, HistoryGrows
<1> USE DEF Goto, Respond
<1>2. ASSUME NEW e \in Event, NEW s \in {"live", "closed", "deleted"}, SetEvent(e, s)
      PROVE  InFlight'
  <2>1. \A k \in Key : Exists(k)' /\ Live(k.event)' => k \in wasLive'
    BY <1>2 DEF SetEvent, Exists, Live, TypeOK, Key, InFlight, RequestOK
  <2> QED
    BY <1>1, <1>2, <2>1 DEF SetEvent, InFlight, RequestOK
<1>3. ASSUME NEW u \in User, NEW v \in User, Connect(u, v) \/ Disconnect(u, v)
      PROVE  InFlight'
  BY <1>3 DEF Connect, Disconnect, Exists, Live, InFlight, RequestOK
<1>4. ASSUME NEW w \in Worker, NEW u \in User, NEW e \in Event, NEW vs \in SUBSET User,
             SendStart(w, u, e, vs)
      PROVE  InFlight'
  <2>1. RequestOK(w)'
    BY <1>4 DEF SendStart, TypeOK, InFlight, RequestOK
  <2> QED
    BY <1>4, <2>1, OneRequest DEF SendStart, TypeOK
<1>5. ASSUME NEW w \in Worker, SendCheckEvent(w) PROVE InFlight'
  <2>1. RequestOK(w)'
    BY <1>5 DEF SendCheckEvent, TypeOK, InFlight, RequestOK
  <2> QED
    BY <1>5, <2>1, OneRequest DEF SendCheckEvent, TypeOK
<1>6. ASSUME NEW w \in Worker, SendCheckConnections(w) PROVE InFlight'
  <2>1. RequestOK(w)'
    BY <1>6 DEF SendCheckConnections, TypeOK, InFlight, RequestOK
  <2> QED
    BY <1>6, <2>1, OneRequest DEF SendCheckConnections, TypeOK
<1>7. ASSUME NEW w \in Worker, SendReadExisting(w) PROVE InFlight'
  <2>1. job[w] \in SendJob
    BY <1>7, Sending DEF SendReadExisting, InFlight, RequestOK
  <2>2. /\ job'[w].event = job[w].event /\ job'[w].user = job[w].user
        /\ job'[w].invitees = job[w].invitees
        /\ job'[w].create \subseteq KeysOf(job[w].event, job[w].user, job[w].invitees)
    BY <1>7, <2>1 DEF SendReadExisting, SendJob, TypeOK, InFlight, RequestOK
  <2>3. /\ pc[w] = "existing" /\ pc' = [pc EXCEPT ![w] = "commit"]
        /\ \A v \in Worker : v # w => job'[v] = job[v]
        /\ UNCHANGED <<inv, event, connected, requests, met, wasLive, due, overlapped>>
    BY <1>7 DEF SendReadExisting, TypeOK, InFlight, RequestOK
  <2>4. \A v \in job'[w].invitees : {job'[w].user, v} \in met'
    BY <2>2, <2>3 DEF InFlight, RequestOK
  <2>5. job'[w].create \subseteq KeysOf(job'[w].event, job'[w].user, job'[w].invitees)
    BY <2>2
  <2>6. RequestOK(w)'
    BY <2>3, <2>4, <2>5 DEF TypeOK, InFlight, RequestOK
  <2> QED
    BY <2>3, <2>6, OneRequest DEF TypeOK
<1>8. ASSUME NEW w \in Worker, SendCommit(w) PROVE InFlight'
  <2>1. \A k \in Key : Exists(k)' => Exists(k) \/ (k \in job[w].create /\ ~Exists(k))
    <3>1. \A k \in job[w].reopen : Exists(k)
      BY <1>8 DEF SendCommit, TypeOK, InFlight, RequestOK
    <3> QED
      BY <1>8, <3>1 DEF SendCommit, Exists, InFlight, RequestOK
  <2>2. /\ event' = event /\ connected' = connected /\ met' = met
        /\ wasLive' = wasLive \cup {k \in {k \in job[w].create : ~Exists(k)} : Live(k.event)}
    BY <1>8 DEF SendCommit, InFlight, RequestOK
  <2>3. \A k \in Key : Exists(k)' /\ Live(k.event)' => k \in wasLive'
    BY <2>1, <2>2 DEF Live, InFlight, RequestOK
  <2>4. /\ pc[w] = "commit" /\ pc'[w] \in {"idle", "notify"}
        /\ \A v \in Worker : v # w => pc'[v] = pc[v] /\ job'[v] = job[v]
    BY <1>8 DEF SendCommit, TypeOK, InFlight, RequestOK
  <2> QED
    BY <1>1, <2>2, <2>3, <2>4 DEF InFlight, RequestOK
<1>9. ASSUME NEW w \in Worker, SendNotify(w) PROVE InFlight'
  BY <1>9 DEF SendNotify, Exists, Live, TypeOK, InFlight, RequestOK
<1>10. ASSUME NEW w \in Worker, NEW u \in User, NEW k \in Key, NEW s \in Answers,
              AnswerStart(w, u, k, s)
       PROVE  InFlight'
  BY <1>10 DEF AnswerStart, Exists, Live, TypeOK, InFlight, RequestOK
<1>11. ASSUME NEW w \in Worker, AnswerLoad(w) PROVE InFlight'
  <2>1. job[w] \in AnswerJob /\ job[w].op \in {"ACCEPTED", "DECLINED"}
    BY <1>11, Answering DEF AnswerLoad, AnswerJob, InFlight, RequestOK
  <2>2. RequestOK(w)'
    BY <1>11, <2>1 DEF AnswerLoad, MayAnswer, TypeOK, InFlight, RequestOK
  <2> QED
    BY <1>11, <2>2, OneRequest DEF AnswerLoad, TypeOK
<1>12. ASSUME NEW w \in Worker, AcceptCheckEvent(w) PROVE InFlight'
  <2>1. job[w].key \in Key /\ Exists(job[w].key)
    BY <1>12, Answering DEF AcceptCheckEvent, InFlight, RequestOK
  <2>2. RequestOK(w)'
    BY <1>12, <2>1 DEF AcceptCheckEvent, TypeOK, InFlight, RequestOK
  <2> QED
    BY <1>12, <2>2, OneRequest DEF AcceptCheckEvent, TypeOK
<1>13. ASSUME NEW w \in Worker, AnswerWrite(w) PROVE InFlight'
  <2>1. job[w].key \in Key /\ Exists(job[w].key)
    BY <1>13, Answering DEF AnswerWrite, InFlight, RequestOK
  <2>2. \A k \in Key : Exists(k)' => Exists(k)
    BY <1>13, <2>1 DEF AnswerWrite, Exists, TypeOK, InFlight, RequestOK
  <2>3. \A k \in Key : Exists(k)' /\ Live(k.event)' => k \in wasLive'
    BY <1>13, <2>2 DEF AnswerWrite, Live, InFlight, RequestOK
  <2> QED
    BY <1>13, <2>3 DEF AnswerWrite, TypeOK, InFlight, RequestOK
<1>14. ASSUME NEW w \in Worker, NEW u \in User, NEW s \in Answers, AnswerAll(w, u, s)
       PROVE  InFlight'
  <2>1. \A k \in Key : Exists(k)' => Exists(k)
    BY <1>14 DEF AnswerAll, Bulk, Exists, InFlight, RequestOK
  <2>2. \A k \in Key : Exists(k)' /\ Live(k.event)' => k \in wasLive'
    BY <1>14, <2>1 DEF AnswerAll, Live, InFlight, RequestOK
  <2> QED
    BY <1>14, <2>2 DEF AnswerAll, InFlight, RequestOK
<1>15. CASE UNCHANGED vars
  BY <1>15 DEF vars, Exists, Live, InFlight, RequestOK
<1> QED
  BY <1>2, <1>3, <1>4, <1>5, <1>6, <1>7, <1>8, <1>9, <1>10, <1>11, <1>12, <1>13, <1>14,
     <1>15 DEF Next

-----------------------------------------------------------------------------
(* The promises, one step at a time.                                       *)

LEMMA NextInvited ==
  TypeOK /\ InFlight /\ InvitedWasConnected /\ [Next]_vars => InvitedWasConnected'
<1> SUFFICES ASSUME TypeOK, InFlight, InvitedWasConnected, [Next]_vars,
                    NEW k \in Key, Exists(k)'
             PROVE  {k.inviter, k.invitee} \in met'
  BY DEF InvitedWasConnected
<1>1. met \subseteq met'
  BY HistoryGrows
<1>2. CASE Exists(k)
  BY <1>1, <1>2 DEF InvitedWasConnected
<1>3. ASSUME ~Exists(k), NEW w \in Worker, SendCommit(w)
      PROVE  {k.inviter, k.invitee} \in met'
  <2>1. \A r \in job[w].reopen : Exists(r)
    BY <1>3 DEF SendCommit, TypeOK
  <2>2. k \in job[w].create
    BY <1>3, <2>1 DEF SendCommit, Exists
  <2>3. k.inviter = job[w].user /\ k.invitee \in job[w].invitees
    BY <1>3, <2>2 DEF SendCommit, InFlight, RequestOK, KeysOf
  <2>4. {job[w].user, k.invitee} \in met
    BY <1>3, <2>3 DEF SendCommit, InFlight, RequestOK
  <2> QED
    BY <1>1, <2>3, <2>4
<1>4. ASSUME ~Exists(k), NEW w \in Worker, AnswerWrite(w) PROVE FALSE
  <2>1. job[w].key # k
    BY <1>4, Answering DEF AnswerWrite
  <2> QED
    BY <1>4, <2>1 DEF AnswerWrite, Exists, TypeOK
<1>5. ASSUME ~Exists(k), NEW w \in Worker, NEW u \in User, NEW s \in Answers,
             AnswerAll(w, u, s)
      PROVE  FALSE
  BY <1>5 DEF AnswerAll, Bulk, Exists
<1> QED
  BY <1>2, <1>3, <1>4, <1>5
     DEF Exists, Next, vars, SetEvent, Connect, Disconnect, SendStart, SendCheckEvent,
         SendCheckConnections, SendReadExisting, SendNotify, AnswerStart, AnswerLoad,
         AcceptCheckEvent

LEMMA NextAccepted ==
  TypeOK /\ InFlight /\ AcceptedWasLive /\ [Next]_vars => AcceptedWasLive'
<1> SUFFICES ASSUME TypeOK, InFlight, AcceptedWasLive, [Next]_vars,
                    NEW k \in Key, Exists(k)', inv'[k].status = "ACCEPTED"
             PROVE  k \in wasLive'
  BY DEF AcceptedWasLive, Exists
<1>1. wasLive \subseteq wasLive'
  BY HistoryGrows
<1>2. CASE inv'[k] = inv[k]
  BY <1>1, <1>2 DEF AcceptedWasLive, Exists
<1>3. ASSUME NEW w \in Worker, SendCommit(w) PROVE k \in wasLive'
  <2>1. CASE k \in job[w].reopen
    <3>1. Reopened(k).status = "PENDING"
      BY <1>3, <2>1, ReopenedRow DEF SendCommit, TypeOK, Exists
    <3> QED
      BY <1>3, <2>1, <3>1 DEF SendCommit
  <2>2. CASE k \notin job[w].reopen
    <3>1. inv'[k] = inv[k] \/ inv'[k].status = "PENDING"
      BY <1>3, <2>2 DEF SendCommit
    <3> QED
      BY <1>2, <3>1
  <2> QED
    BY <2>1, <2>2
<1>4. ASSUME NEW w \in Worker, AnswerWrite(w), inv'[k] # inv[k] PROVE k \in wasLive'
  <2>1. job[w].key = k /\ inv'[k].status = job[w].op
    BY <1>4, Answering DEF AnswerWrite, TypeOK
  <2> QED
    BY <1>1, <1>4, <2>1 DEF AnswerWrite, InFlight, RequestOK
<1>5. ASSUME NEW w \in Worker, NEW u \in User, NEW s \in Answers, AnswerAll(w, u, s),
             inv'[k] # inv[k]
      PROVE  k \in wasLive'
  <2>1. k \in Bulk(u, s) /\ inv'[k].status = s
    BY <1>5 DEF AnswerAll
  <2> QED
    BY <1>1, <2>1 DEF Bulk, InFlight
<1> QED
  BY <1>2, <1>3, <1>4, <1>5
     DEF Next, vars, SetEvent, Connect, Disconnect, SendStart, SendCheckEvent,
         SendCheckConnections, SendReadExisting, SendNotify, AnswerStart, AnswerLoad,
         AcceptCheckEvent

LEMMA NextResponded ==
  TypeOK /\ RespondedWhenAnswered /\ [Next]_vars => RespondedWhenAnswered'
<1> SUFFICES ASSUME TypeOK, RespondedWhenAnswered, [Next]_vars,
                    NEW k \in Key, Exists(k)'
             PROVE  inv'[k].responded <=> inv'[k].status # "PENDING"
  BY DEF RespondedWhenAnswered, Exists
<1> DEFINE Goal == inv'[k].responded <=> inv'[k].status # "PENDING"
<1>1. ASSUME inv'[k] = inv[k] PROVE Goal
  BY <1>1 DEF RespondedWhenAnswered, Exists
<1>2. ASSUME NEW w \in Worker, SendCommit(w), inv'[k] # inv[k]
      PROVE  Goal
  <2>1. CASE k \in job[w].reopen
    <3>1. inv[k] \in Invitation
      BY <1>2, <2>1 DEF SendCommit, TypeOK, Exists
    <3>2. Reopened(k) = [status |-> "PENDING", responded |-> FALSE]
      BY <3>1, ReopenedRow
    <3> QED
      BY <1>2, <2>1, <3>2 DEF SendCommit
  <2>2. CASE k \notin job[w].reopen
    BY <1>2, <2>2 DEF SendCommit
  <2> QED
    BY <2>1, <2>2
<1>3. ASSUME NEW w \in Worker, AnswerWrite(w), inv'[k] # inv[k]
      PROVE  Goal
  <2>1. job[w].op # "PENDING"
    BY <1>3, Answering DEF AnswerWrite, AnswerJob
  <2> QED
    BY <1>3, <2>1 DEF AnswerWrite, TypeOK
<1>4. ASSUME NEW w \in Worker, NEW u \in User, NEW s \in Answers, AnswerAll(w, u, s),
             inv'[k] # inv[k]
      PROVE  Goal
  BY <1>4 DEF AnswerAll, Answers
<1> HIDE DEF Goal
<1>5. Goal
  BY <1>1, <1>2, <1>3, <1>4
     DEF Next, vars, SetEvent, Connect, Disconnect, SendStart, SendCheckEvent,
         SendCheckConnections, SendReadExisting, SendNotify, AnswerStart, AnswerLoad,
         AcceptCheckEvent
<1> QED
  BY <1>5 DEF Goal

-----------------------------------------------------------------------------
(* The theorems.                                                           *)

\* The inductive invariant: the promises and what requests in flight rely on.
IInv ==
  /\ TypeOK
  /\ InFlight
  /\ InvitedWasConnected
  /\ AcceptedWasLive
  /\ RespondedWhenAnswered

LEMMA InitIInv == Init => IInv
<1> SUFFICES ASSUME Init PROVE IInv
  OBVIOUS
<1>1. TypeOK
  BY InitTypeOK
<1>2. \A k \in Key : ~Exists(k)
  BY DEF Init, Exists
<1>3. InFlight
  BY <1>2 DEF Init, InFlight, RequestOK
<1> QED
  BY <1>1, <1>2, <1>3 DEF IInv, InvitedWasConnected, AcceptedWasLive, RespondedWhenAnswered

LEMMA NextIInv == IInv /\ [Next]_vars => IInv'
BY NextTypeOK, NextInFlight, NextInvited, NextAccepted, NextResponded DEF IInv

\* At every moment of every run, whatever sends and answers overlap and
\* however events and connections change around them, all parts of the
\* invariant hold together.
THEOREM Invariance == Spec => []IInv
BY InitIInv, NextIInv, PTL DEF Spec

\* The rows and requests are well formed: a row that an update by id names
\* exists when the update runs.
THEOREM TypeCorrect == Spec => []TypeOK
<1>1. IInv => TypeOK
  BY DEF IInv
<1> QED
  BY <1>1, Invariance, PTL

\* sendInvitations never invites somebody its sender was never connected to.
THEOREM InvitedTheorem == Spec => []InvitedWasConnected
<1>1. IInv => InvitedWasConnected
  BY DEF IInv
<1> QED
  BY <1>1, Invariance, PTL

\* acceptInvitation and acceptAllInvitations never accept an invitation to an
\* event that was not live at any moment of the invitation's life.
THEOREM AcceptedTheorem == Spec => []AcceptedWasLive
<1>1. IInv => AcceptedWasLive
  BY DEF IInv
<1> QED
  BY <1>1, Invariance, PTL

\* respondedAt tells the truth about the status, whatever answers and
\* reopenings meet on the row.
THEOREM RespondedTheorem == Spec => []RespondedWhenAnswered
<1>1. IInv => RespondedWhenAnswered
  BY DEF IInv
<1> QED
  BY <1>1, Invariance, PTL

\* An accept or decline request that reaches its write answers the row it was
\* asked about, for the invitee.
THEOREM AnswerTheorem == Spec => AnsweredByInvitee
<1> DEFINE Step ==
      \A k \in Key, w \in Worker :
        pc[w] = "answer" /\ pc'[w] = "idle" /\ inv'[k] # inv[k] =>
          job[w].key = k /\ job[w].user = k.invitee
<1>1. ASSUME IInv, Next, NEW k \in Key, NEW w \in Worker,
             pc[w] = "answer", pc'[w] = "idle", inv'[k] # inv[k]
      PROVE  job[w].key = k /\ job[w].user = k.invitee
  <2>1. AnswerWrite(w)
    BY <1>1 DEF IInv, TypeOK, Next, SetEvent, Connect, Disconnect, SendStart,
                SendCheckEvent, SendCheckConnections, SendReadExisting, SendCommit,
                SendNotify, AnswerStart, AnswerLoad, AcceptCheckEvent, AnswerWrite,
                AnswerAll, Goto, Respond
  <2>2. job[w].key = k
    BY <1>1, <2>1, Answering DEF AnswerWrite, IInv, TypeOK
  <2> QED
    BY <1>1, <2>2 DEF IInv, InFlight, RequestOK
<1>2. IInv /\ [Next]_vars => [Step]_vars
  BY <1>1
<1> QED
  BY <1>2, Invariance, PTL DEF Spec, AnsweredByInvitee

-----------------------------------------------------------------------------
(* Requests that do not overlap: what a handler has read of the rows still *)
(* holds when it writes them, and the notifications it owes are unsent.    *)

Alone == ~overlapped =>
  \A v, w \in Worker : pc[v] # "idle" /\ pc[w] # "idle" => v = w

\* What worker w has read is so.
StillSo(w) ==
  /\ pc[w] = "commit" =>
       /\ \A k \in job[w].create : ~Exists(k)
       /\ \A k \in job[w].reopen : inv[k].status = "DECLINED"
  /\ pc[w] = "notify" => \A k \in job[w].notify : due[k] >= 1
  /\ pc[w] \in {"live", "answer"} => inv[job[w].key].status = "PENDING"

SerialInv ==
  /\ Alone
  /\ NotifiedOncePerOpening
  /\ ~overlapped => \A w \in Worker : StillSo(w)

\* The two kinds of step: those of the world, which leave the rows and the
\* requests alone, and those of worker w.
World == UNCHANGED <<inv, pc, job, due, overlapped>>

Starts(w) ==
  \/ \E u \in User, e \in Event, vs \in SUBSET User : SendStart(w, u, e, vs)
  \/ \E u \in User, k \in Key, s \in Answers : AnswerStart(w, u, k, s)

Goes(w) ==
  \/ SendCheckEvent(w) \/ SendCheckConnections(w) \/ SendReadExisting(w)
  \/ SendCommit(w) \/ SendNotify(w)
  \/ AnswerLoad(w) \/ AcceptCheckEvent(w) \/ AnswerWrite(w)

Bulks(w) == \E u \in User, s \in Answers : AnswerAll(w, u, s)

LEMMA Steps ==
  ASSUME [Next]_vars
  PROVE  World \/ \E w \in Worker : Starts(w) \/ Goes(w) \/ Bulks(w)
BY DEF Next, vars, World, Starts, Goes, Bulks, SetEvent, Connect, Disconnect

\* A step of w that does not overlap another request finds the others idle.
LEMMA StepAlone ==
  ASSUME TypeOK, Alone, NEW w \in Worker, Starts(w) \/ Goes(w) \/ Bulks(w), ~overlapped'
  PROVE  /\ ~overlapped
         /\ \A v \in Worker \ {w} : pc[v] = "idle" /\ pc'[v] = "idle"
<1>0. pc \in [Worker -> PC]
  BY DEF TypeOK
<1>1. CASE Starts(w) \/ Bulks(w)
  <2>1. overlapped' = Overlaps(w) /\ (pc' = pc \/ \E l : Goto(w, l))
    BY <1>1 DEF Starts, Bulks, SendStart, AnswerStart, AnswerAll
  <2>2. ~overlapped /\ \A v \in Worker \ {w} : pc[v] = "idle"
    BY <2>1, Zenon DEF Overlaps
  <2> QED
    BY <1>0, <2>1, <2>2 DEF Goto
<1>2. CASE Goes(w)
  <2>1. pc[w] # "idle" /\ overlapped' = overlapped /\ \E l : Goto(w, l)
    BY <1>2 DEF Goes, SendCheckEvent, SendCheckConnections, SendReadExisting, SendCommit,
                SendNotify, AnswerLoad, AcceptCheckEvent, AnswerWrite, Respond
  <2>2. ~overlapped
    BY <2>1, Zenon
  <2>3. \A v \in Worker \ {w} : pc[v] = "idle"
    BY <2>1, <2>2, Zenon DEF Alone
  <2> QED
    BY <1>0, <2>1, <2>2, <2>3 DEF Goto
<1> QED
  BY <1>1, <1>2

LEMMA NextAlone == TypeOK /\ Alone /\ [Next]_vars => Alone'
<1> SUFFICES ASSUME TypeOK, Alone, [Next]_vars, ~overlapped',
                    NEW u \in Worker, NEW v \in Worker, pc'[u] # "idle", pc'[v] # "idle"
             PROVE  u = v
  BY Zenon DEF Alone
<1>1. ASSUME NEW w \in Worker, Starts(w) \/ Goes(w) \/ Bulks(w) PROVE u = v
  BY <1>1, StepAlone
<1>2. CASE World
  BY <1>2, Zenon DEF World, Alone
<1> QED
  BY <1>1, <1>2, Steps

\* What the transaction of a request alone writes: the keys it creates have no
\* row, those it reopens are declined, and every row it returns was opened.
LEMMA CommitAlone ==
  ASSUME TypeOK, NEW w \in Worker, SendCommit(w), StillSo(w)
  PROVE  /\ \A k \in Key :
              \/ inv'[k] = inv[k]
              \/ ~Exists(k) /\ inv'[k].status = "PENDING"
              \/ Exists(k) /\ inv[k].status = "DECLINED" /\ inv'[k].status = "PENDING"
         /\ \A k \in Key : due'[k] >= due[k] /\ due'[k] \in Int
         /\ pc'[w] \in {"idle", "notify"}
         /\ pc'[w] = "notify" =>
              /\ job'[w].notify \subseteq job[w].create \cup job[w].reopen
              /\ \A k \in job'[w].notify : k \in Key /\ due'[k] = due[k] + 1
<1> DEFINE inserted == {k \in job[w].create : ~Exists(k)}
           opened == inserted \cup {k \in job[w].reopen : inv[k].status # "PENDING"}
           rows == [k \in Key |->
                      IF k \in inserted
                      THEN [status |-> "PENDING", responded |-> FALSE]
                      ELSE IF k \in job[w].reopen THEN Reopened(k) ELSE inv[k]]
           notify == Returned(w, rows)
<1>1. /\ job[w] \in SendJob /\ job[w].create \in SUBSET Key /\ job[w].reopen \in SUBSET Key
      /\ \A k \in job[w].create : ~Exists(k)
      /\ \A k \in job[w].reopen : Exists(k) /\ inv[k].status = "DECLINED"
  BY Sending DEF SendCommit, SendJob, StillSo, TypeOK
<1>2. \A k \in job[w].reopen : Reopened(k).status = "PENDING"
  <2>1. \A k \in job[w].reopen : inv[k] \in Invitation
    BY <1>1 DEF TypeOK, Exists
  <2> QED
    BY <1>1, <2>1, ReopenedRow
<1>3. opened = job[w].create \cup job[w].reopen
  BY <1>1
<1>4. /\ inv' = rows
      /\ due' = [k \in Key |-> due[k] + IF k \in opened THEN 1 ELSE 0]
      /\ \/ pc' = [pc EXCEPT ![w] = "idle"]
         \/ /\ pc' = [pc EXCEPT ![w] = "notify"]
            /\ job' = [job EXCEPT ![w] = [job[w] EXCEPT !.notify = notify]]
  BY Zenon DEF SendCommit, Goto, Respond
<1>5. notify \subseteq job[w].create \cup job[w].reopen
  BY DEF Returned
<1>6. \A k \in Key :
        \/ rows[k] = inv[k]
        \/ ~Exists(k) /\ rows[k].status = "PENDING"
        \/ Exists(k) /\ inv[k].status = "DECLINED" /\ rows[k].status = "PENDING"
  BY <1>1, <1>2
<1>7. [job[w] EXCEPT !.notify = notify].notify = notify
  BY <1>1 DEF SendJob
<1>8. due \in [Key -> Int] /\ pc \in [Worker -> PC]
      /\ job \in [Worker -> SendJob \cup AnswerJob \cup {None}]
  BY DEF TypeOK
<1> HIDE DEF rows, notify, opened
<1>9. \A k \in Key : due'[k] >= due[k] /\ due'[k] \in Int
                     /\ (k \in opened => due'[k] = due[k] + 1)
  BY <1>4, <1>8
<1>10. pc'[w] \in {"idle", "notify"} /\ (pc'[w] = "notify" => job'[w].notify = notify)
  BY <1>4, <1>7, <1>8
<1> QED
  BY <1>1, <1>3, <1>4, <1>5, <1>6, <1>9, <1>10

\* A request alone answers a pending invitation.
LEMMA AnswerAlone ==
  ASSUME TypeOK, NEW w \in Worker, AnswerWrite(w), StillSo(w)
  PROVE  \A k \in Key :
           \/ inv'[k] = inv[k]
           \/ Exists(k) /\ inv[k].status = "PENDING" /\ inv'[k].status \in Answers
<1>1. /\ job[w].op \in Answers /\ Exists(job[w].key)
      /\ inv[job[w].key].status = "PENDING"
  BY Answering DEF AnswerWrite, AnswerJob, Answers, StillSo
<1> QED
  BY <1>1 DEF AnswerWrite, TypeOK

LEMMA BulkAnswers ==
  ASSUME NEW w \in Worker, NEW u \in User, NEW s \in Answers, AnswerAll(w, u, s)
  PROVE  \A k \in Key :
           \/ inv'[k] = inv[k]
           \/ Exists(k) /\ inv[k].status = "PENDING" /\ inv'[k].status \in Answers
BY DEF AnswerAll, Bulk

LEMMA NextSerialInv == TypeOK /\ SerialInv /\ [Next]_vars => SerialInv'
<1> SUFFICES ASSUME TypeOK, SerialInv, [Next]_vars PROVE SerialInv'
  OBVIOUS
<1>1. Alone'
  BY NextAlone DEF SerialInv
<1> SUFFICES ASSUME ~overlapped'
             PROVE  (\A k \in Key : due'[k] >= 0) /\ \A w \in Worker : StillSo(w)'
  BY <1>1, Zenon DEF SerialInv, NotifiedOncePerOpening
<1> DEFINE Goal == (\A k \in Key : due'[k] >= 0) /\ \A w \in Worker : StillSo(w)'
<1>2. CASE World
  <2>1. (\A k \in Key : due[k] >= 0) /\ \A w \in Worker : StillSo(w)
    BY <1>2, Zenon DEF World, SerialInv, NotifiedOncePerOpening
  <2> QED
    BY <1>2, <2>1 DEF World, StillSo, Exists
<1>3. ASSUME NEW w \in Worker, Starts(w) \/ Goes(w) \/ Bulks(w) PROVE Goal
  <2>1. ~overlapped /\ \A v \in Worker \ {w} : pc[v] = "idle" /\ pc'[v] = "idle"
    BY <1>3, StepAlone DEF SerialInv
  <2>2. (\A k \in Key : due[k] >= 0) /\ StillSo(w)
    BY <2>1, Zenon DEF SerialInv, NotifiedOncePerOpening
  <2>3. /\ pc \in [Worker -> PC] /\ due \in [Key -> Int]
        /\ job \in [Worker -> SendJob \cup AnswerJob \cup {None}]
    BY DEF TypeOK
  <2>4. ASSUME StillSo(w)', \A k \in Key : due'[k] >= 0 PROVE Goal
    BY <2>1, <2>4 DEF StillSo
  <2> HIDE DEF Goal
  <2> USE DEF Goto, Respond
  <2>5. CASE pc'[w] \notin {"commit", "notify", "live", "answer"} /\ due' = due
    BY <2>2, <2>4, <2>5 DEF StillSo
  <2>6. CASE Starts(w) \/ SendCheckEvent(w) \/ SendCheckConnections(w) \/ AnswerWrite(w)
    BY <2>3, <2>5, <2>6 DEF Starts, SendStart, AnswerStart, SendCheckEvent,
                            SendCheckConnections, AnswerWrite
  <2>7. CASE Bulks(w)
    <3>1. pc' = pc /\ job' = job /\ due' = due /\ pc[w] = "idle"
      BY <2>7 DEF Bulks, AnswerAll
    <3> QED
      BY <2>5, <3>1
  <2>8. CASE SendReadExisting(w)
    <3> DEFINE keys == KeysOf(job[w].event, job[w].user, job[w].invitees)
               c == {k \in keys : ~Exists(k)}
               r == {k \in keys : Reopens(k)}
    <3>1. job[w] \in SendJob
      BY <2>8, Sending DEF SendReadExisting
    <3>2. /\ job' = [job EXCEPT ![w] = [[job[w] EXCEPT !.create = c] EXCEPT !.reopen = r]]
          /\ inv' = inv /\ due' = due /\ pc' = [pc EXCEPT ![w] = "commit"]
      BY <2>8 DEF SendReadExisting
    <3>3. (\A k \in c : ~Exists(k)) /\ (\A k \in r : inv[k].status = "DECLINED")
      BY DEF Reopens
    <3> HIDE DEF c, r
    <3>4. job'[w].create = c /\ job'[w].reopen = r
      BY <2>3, <3>1, <3>2 DEF SendJob
    <3>5. StillSo(w)'
      BY <2>3, <3>2, <3>3, <3>4 DEF StillSo, Exists
    <3> QED
      BY <2>2, <2>4, <3>2, <3>5
  <2>9. CASE SendCommit(w)
    <3>1. \A k \in Key : due'[k] >= 0
      BY <2>2, <2>3, <2>9, CommitAlone
    <3>2. pc'[w] = "notify" => \A k \in job'[w].notify : due'[k] >= 1
      BY <2>2, <2>3, <2>9, CommitAlone
    <3>3. pc'[w] \in {"idle", "notify"}
      BY <2>2, <2>9, CommitAlone
    <3>4. StillSo(w)'
      BY <3>2, <3>3 DEF StillSo
    <3> QED
      BY <2>4, <3>1, <3>4
  <2>10. CASE SendNotify(w)
    <3>1. PICK sent \in SUBSET job[w].notify :
            due' = [k \in Key |-> due[k] - IF k \in sent THEN 1 ELSE 0]
      BY <2>10 DEF SendNotify
    <3>2. \A k \in job[w].notify : due[k] >= 1
      BY <2>2, <2>10 DEF SendNotify, StillSo
    <3>3. \A k \in Key : due'[k] >= 0
      BY <2>2, <2>3, <3>1, <3>2
    <3>4. pc'[w] = "idle"
      BY <2>3, <2>10 DEF SendNotify
    <3> QED
      BY <2>4, <3>3, <3>4 DEF StillSo
  <2>11. CASE AnswerLoad(w)
    <3>1. inv' = inv /\ due' = due
      BY <2>11 DEF AnswerLoad
    <3>2. \/ pc'[w] = "idle"
          \/ job' = job /\ MayAnswer(w) /\ pc'[w] \in {"live", "answer"}
      BY <2>3, <2>11 DEF AnswerLoad
    <3> QED
      BY <2>2, <2>4, <2>5, <3>1, <3>2 DEF StillSo, MayAnswer
  <2>12. CASE AcceptCheckEvent(w)
    <3>1. /\ inv' = inv /\ due' = due /\ pc[w] = "live"
          /\ pc'[w] = "idle" \/ (job' = job /\ pc'[w] = "answer")
      BY <2>3, <2>12 DEF AcceptCheckEvent
    <3> QED
      BY <2>2, <2>4, <2>5, <3>1 DEF StillSo
  <2> QED
    BY <1>3, <2>6, <2>7, <2>8, <2>9, <2>10, <2>11, <2>12 DEF Goes
<1> QED
  BY <1>2, <1>3, Steps

\* What requests that have not overlapped do to a row.
LEMMA StepLifecycle ==
  ASSUME TypeOK, SerialInv, [Next]_vars, ~overlapped', NEW k \in Key, inv'[k] # inv[k]
  PROVE  \/ ~Exists(k) /\ inv'[k].status = "PENDING"
         \/ Exists(k) /\ inv[k].status = "PENDING" /\ inv'[k].status \in Answers
         \/ Exists(k) /\ inv[k].status = "DECLINED" /\ inv'[k].status = "PENDING"
<1>1. PICK w \in Worker : Starts(w) \/ Goes(w) \/ Bulks(w)
  BY Steps DEF World
<1>2. StillSo(w)
  <2>1. ~overlapped
    BY <1>1, StepAlone DEF SerialInv
  <2> QED
    BY <2>1, Zenon DEF SerialInv
<1>3. CASE SendCommit(w)
  BY <1>2, <1>3, CommitAlone
<1>4. CASE AnswerWrite(w)
  BY <1>2, <1>4, AnswerAlone
<1>5. CASE Bulks(w)
  BY <1>5, BulkAnswers DEF Bulks
<1>6. CASE inv' = inv
  BY <1>6
<1> QED
  BY <1>1, <1>3, <1>4, <1>5, <1>6
     DEF Starts, Goes, SendStart, AnswerStart, SendCheckEvent, SendCheckConnections,
         SendReadExisting, SendNotify, AnswerLoad, AcceptCheckEvent

LEMMA InitSerialInv == Init => SerialInv
<1> SUFFICES ASSUME Init PROVE SerialInv
  OBVIOUS
<1>1. Alone /\ \A w \in Worker : StillSo(w)
  BY DEF Init, Alone, StillSo
<1>2. \A k \in Key : due[k] >= 0
  BY DEF Init
<1> QED
  BY <1>1, <1>2, Zenon DEF SerialInv, NotifiedOncePerOpening

LEMMA SerialInvariance == Spec => []SerialInv
<1>1. IInv => TypeOK
  BY DEF IInv
<1> QED
  BY <1>1, InitSerialInv, NextSerialInv, Invariance, PTL DEF Spec

\* Requests that have not overlapped notify nobody twice for one opening of an
\* invitation, and nobody of an invitation that createInvitations skipped.
THEOREM NotifiedTheorem == Spec => []NotifiedOncePerOpening
<1>1. SerialInv => NotifiedOncePerOpening
  BY DEF SerialInv
<1> QED
  BY <1>1, SerialInvariance, PTL

\* Requests that have not overlapped take an invitation through its life cycle:
\* sent, answered once, sent again only after it was declined.
THEOREM LifecycleTheorem == Spec => Lifecycle
<1> DEFINE Step ==
      \A k \in Key :
        ~overlapped' /\ inv'[k] # inv[k] =>
          \/ ~Exists(k) /\ inv'[k].status = "PENDING"
          \/ Exists(k) /\ <<inv[k].status, inv'[k].status>> \in
               {<<"PENDING", "ACCEPTED">>, <<"PENDING", "DECLINED">>,
                <<"DECLINED", "PENDING">>}
<1>1. IInv => TypeOK
  BY DEF IInv
<1>2. TypeOK /\ SerialInv /\ [Next]_vars => [Step]_vars
  <2> SUFFICES ASSUME TypeOK, SerialInv, [Next]_vars, NEW k \in Key,
                      ~overlapped', inv'[k] # inv[k]
               PROVE  \/ ~Exists(k) /\ inv'[k].status = "PENDING"
                      \/ Exists(k) /\ <<inv[k].status, inv'[k].status>> \in
                           {<<"PENDING", "ACCEPTED">>, <<"PENDING", "DECLINED">>,
                            <<"DECLINED", "PENDING">>}
    BY Zenon
  <2>1. \/ ~Exists(k) /\ inv'[k].status = "PENDING"
        \/ Exists(k) /\ inv[k].status = "PENDING" /\ inv'[k].status \in Answers
        \/ Exists(k) /\ inv[k].status = "DECLINED" /\ inv'[k].status = "PENDING"
    BY StepLifecycle
  <2> QED
    BY <2>1 DEF Answers
<1> QED
  BY <1>1, <1>2, Invariance, SerialInvariance, PTL DEF Spec, Lifecycle

=============================================================================
