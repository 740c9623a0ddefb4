-------------------------- MODULE ConnectionProofs --------------------------
(***************************************************************************)
(* Proofs about Connection for any sets of users, rows and concurrent      *)
(* requests.                                                               *)
(***************************************************************************)
EXTENDS Connection, TLAPS

-----------------------------------------------------------------------------
(* Type correctness.  TypeOK needs JobOK: only a worker with a request may *)
(* touch the table.                                                        *)

TInv == TypeOK /\ JobOK

LEMMA InitTInv == Init => TInv
BY NoneAssumption DEF Init, TInv, TypeOK, JobOK, PC

LEMMA NextTypeOK == TInv /\ Checked /\ [Next]_vars => TypeOK'
<1> SUFFICES ASSUME TInv, Checked, [Next]_vars PROVE TypeOK'
  OBVIOUS
<1> USE NoneAssumption DEF TInv, TypeOK, JobOK, PC, Goto, Respond
<1>1. ASSUME NEW w \in Worker, NEW u \in User, NEW v \in User, CreateStart(w, u, v)
      PROVE  TypeOK'
  <2>1. overlapped' \in BOOLEAN
    BY <1>1 DEF CreateStart, Overlaps
  <2> QED
    BY <1>1, <2>1 DEF CreateStart, Job
<1>2. ASSUME NEW w \in Worker, CreateCheckReceiver(w) PROVE TypeOK'
  BY <1>2 DEF CreateCheckReceiver
<1>3. ASSUME NEW w \in Worker, CreateFind(w) PROVE TypeOK'
  <2>1. job[w] \in Job
    BY <1>3 DEF CreateFind
  <2>2. ASSUME NEW r \in Row PROVE [job[w] EXCEPT !.row = r] \in Job
    BY <2>1 DEF Job
  <2>3. RowsBetween(job[w].user, job[w].other) \subseteq Row
    BY DEF RowsBetween, RowsFromTo
  <2> QED
    BY <1>3, <2>2, <2>3 DEF CreateFind
<1>4. ASSUME NEW w \in Worker, CreateInsert(w) PROVE TypeOK'
  <2>1. /\ job[w] \in Job
        /\ job[w].user # job[w].other
        /\ job[w].user \in User /\ job[w].other \in User
    BY <1>4 DEF CreateInsert, Job
  <2>2. [requester |-> job[w].user, receiver |-> job[w].other, status |-> "PENDING"]
          \in ConnRow
    BY <2>1 DEF ConnRow, Status
  <2> QED
    BY <1>4, <2>1, <2>2 DEF CreateInsert
<1>5. ASSUME NEW w \in Worker, CreateReopen(w) PROVE TypeOK'
  <2>1. /\ job[w] \in Job
        /\ job[w].user # job[w].other
        /\ job[w].user \in User /\ job[w].other \in User
    BY <1>5 DEF CreateReopen, Job
  <2>2. [requester |-> job[w].user, receiver |-> job[w].other, status |-> "PENDING"]
          \in ConnRow
    BY <2>1 DEF ConnRow, Status
  <2> QED
    BY <1>5, <2>1, <2>2 DEF CreateReopen
<1>6. ASSUME NEW w \in Worker, NEW op \in RowOp, NEW u \in User, NEW r \in Row,
             RowOpStart(w, op, u, r)
      PROVE  TypeOK'
  <2>1. overlapped' \in BOOLEAN
    BY <1>6 DEF RowOpStart, Overlaps
  <2> QED
    BY <1>6, <2>1 DEF RowOpStart, Job
<1>7. ASSUME NEW w \in Worker, RowOpLoad(w) PROVE TypeOK'
  BY <1>7 DEF RowOpLoad
<1>8. ASSUME NEW w \in Worker, RowOpUpdate(w) PROVE TypeOK'
  <2> DEFINE r == job[w].row
  <2>1. /\ job[w] \in Job
        /\ r \in Row
        /\ job[w].user \in User
        /\ conn[r] \in ConnRow
    BY <1>8 DEF RowOpUpdate, Job, Checked, Exists
  <2>2. NewStatus(job[w].op) \in Status
    BY <1>8 DEF RowOpUpdate, RowOp, NewStatus, Status
  <2>3. [conn[r] EXCEPT !.status = NewStatus(job[w].op)] \in ConnRow
    BY <2>1, <2>2 DEF ConnRow
  <2>4. Ends(r) \subseteq User
    BY <2>1 DEF Ends, ConnRow
  <2>5. consented' \subseteq User \X User
    BY <1>8, <2>1, <2>4 DEF RowOpUpdate
  <2> QED
    BY <1>8, <2>1, <2>3, <2>5 DEF RowOpUpdate
<1>9. ASSUME NEW u \in User, DeleteUser(u) PROVE TypeOK'
  BY <1>9 DEF DeleteUser
<1>10. CASE UNCHANGED vars
  BY <1>10 DEF vars
<1> QED
  BY <1>1, <1>2, <1>3, <1>4, <1>5, <1>6, <1>7, <1>8, <1>9, <1>10 DEF Next

LEMMA NextJobOK == TInv /\ [Next]_vars => JobOK'
<1> SUFFICES ASSUME TInv, [Next]_vars PROVE JobOK'
  OBVIOUS
<1> USE NoneAssumption DEF TInv, TypeOK, JobOK, PC, Goto, Respond
<1>1. ASSUME NEW w \in Worker, NEW u \in User, NEW v \in User, CreateStart(w, u, v)
      PROVE  JobOK'
  <2>1. [op |-> "create", user |-> u, other |-> v, row |-> None] \in Job
    BY DEF Job
  <2> QED
    BY <1>1, <2>1 DEF CreateStart
<1>2. ASSUME NEW w \in Worker, CreateCheckReceiver(w) PROVE JobOK'
  BY <1>2 DEF CreateCheckReceiver
<1>3. ASSUME NEW w \in Worker, CreateFind(w) PROVE JobOK'
  <2>1. job[w] \in Job
    BY <1>3 DEF CreateFind
  <2>2. ASSUME NEW r \in Row PROVE [job[w] EXCEPT !.row = r] \in Job
    BY <2>1 DEF Job
  <2>3. RowsBetween(job[w].user, job[w].other) \subseteq Row
    BY DEF RowsBetween, RowsFromTo
  <2>4. ASSUME NEW r \in Row, job' = [job EXCEPT ![w].row = r]
        PROVE  /\ job'[w].row = r
               /\ job'[w].op = job[w].op
               /\ job'[w].user = job[w].user
               /\ job'[w].other = job[w].other
               /\ job'[w] # None
    BY <2>1, <2>2, <2>4 DEF Job
  <2> QED
    BY <1>3, <2>3, <2>4 DEF CreateFind
<1>4. ASSUME NEW w \in Worker, CreateInsert(w) PROVE JobOK'
  BY <1>4 DEF CreateInsert
<1>5. ASSUME NEW w \in Worker, CreateReopen(w) PROVE JobOK'
  BY <1>5 DEF CreateReopen
<1>6. ASSUME NEW w \in Worker, NEW op \in RowOp, NEW u \in User, NEW r \in Row,
             RowOpStart(w, op, u, r)
      PROVE  JobOK'
  <2>1. [op |-> op, user |-> u, other |-> u, row |-> r] \in Job
    BY DEF Job
  <2>2. op # "create"
    BY DEF RowOp
  <2> QED
    BY <1>6, <2>1, <2>2 DEF RowOpStart
<1>7. ASSUME NEW w \in Worker, RowOpLoad(w) PROVE JobOK'
  <2>1. job[w].op # "create"
    BY <1>7 DEF RowOpLoad, RowOp
  <2> QED
    BY <1>7, <2>1 DEF RowOpLoad
<1>8. ASSUME NEW w \in Worker, RowOpUpdate(w) PROVE JobOK'
  BY <1>8 DEF RowOpUpdate
<1>9. ASSUME NEW u \in User, DeleteUser(u) PROVE JobOK'
  BY <1>9 DEF DeleteUser
<1>10. CASE UNCHANGED vars
  BY <1>10 DEF vars
<1> QED
  BY <1>1, <1>2, <1>3, <1>4, <1>5, <1>6, <1>7, <1>8, <1>9, <1>10 DEF Next

-----------------------------------------------------------------------------
(* What a step may do to the table: rows stay, keep their two users, and   *)
(* consent is only added.                                                  *)

LEMMA StepKeepsEnds ==
  ASSUME TInv, Checked, [Next]_vars, NEW r \in Row, Exists(r)
  PROVE  Exists(r)' /\ Ends(r)' = Ends(r)
<1> USE NoneAssumption DEF TInv, TypeOK, JobOK, Exists, Ends
<1>1. ASSUME NEW w \in Worker, CreateInsert(w) PROVE Exists(r)' /\ Ends(r)' = Ends(r)
  BY <1>1 DEF CreateInsert
<1>2. ASSUME NEW w \in Worker, CreateReopen(w) PROVE Exists(r)' /\ Ends(r)' = Ends(r)
  <2>1. /\ job[w] \in Job
        /\ job[w].row \in Row
        /\ job[w].user \in User /\ job[w].other \in User
        /\ job[w].user # job[w].other
    BY <1>2 DEF CreateReopen, Job
  <2>2. [requester |-> job[w].user, receiver |-> job[w].other, status |-> "PENDING"]
          \in ConnRow
    BY <2>1 DEF ConnRow, Status
  <2>3. Ends(job[w].row) = {job[w].user, job[w].other}
    BY <1>2 DEF CreateReopen, Checked
  <2> QED
    BY <1>2, <2>1, <2>2, <2>3 DEF CreateReopen
<1>3. ASSUME NEW w \in Worker, RowOpUpdate(w) PROVE Exists(r)' /\ Ends(r)' = Ends(r)
  <2>1. conn[r] \in ConnRow
    OBVIOUS
  <2>2. NewStatus(job[w].op) \in Status
    BY <1>3 DEF RowOpUpdate, RowOp, NewStatus, Status
  <2>3. /\ [conn[r] EXCEPT !.status = NewStatus(job[w].op)] \in ConnRow
        /\ [conn[r] EXCEPT !.status = NewStatus(job[w].op)].requester = conn[r].requester
        /\ [conn[r] EXCEPT !.status = NewStatus(job[w].op)].receiver = conn[r].receiver
    BY <2>1, <2>2 DEF ConnRow
  <2>4. conn'[r] \in {conn[r], [conn[r] EXCEPT !.status = NewStatus(job[w].op)]}
    BY <1>3 DEF RowOpUpdate
  <2> QED
    BY <2>1, <2>3, <2>4
<1>4. CASE UNCHANGED conn
  BY <1>4
<1> QED
  BY <1>1, <1>2, <1>3, <1>4
  DEF Next, vars, CreateStart, CreateCheckReceiver, CreateFind, RowOpStart, RowOpLoad,
      DeleteUser

LEMMA StepKeepsConsent ==
  ASSUME [Next]_vars PROVE consented \subseteq consented'
BY DEF Next, vars, CreateStart, CreateCheckReceiver, CreateFind, CreateInsert,
       CreateReopen, RowOpStart, RowOpLoad, RowOpUpdate, DeleteUser

-----------------------------------------------------------------------------
(* A step writes one of three things to a row: a fresh or reopened request *)
(* of the user who sends it, or a new status on an existing row.           *)

LEMMA StepWritesRow ==
  ASSUME TInv, Checked, Next, NEW r \in Row, conn'[r] # conn[r]
  PROVE  \E w \in Worker :
           /\ job[w] # None
           /\ job'[w] = None
           /\ Exists(r) => job[w].user \in Ends(r)
           /\ \/ /\ conn'[r] = [requester |-> job[w].user,
                               receiver |-> job[w].other, status |-> "PENDING"]
                 /\ consented' = consented \cup {<<job[w].user, job[w].other>>}
              \/ /\ pc[w] = "update"
                 /\ job[w].op \in RowOp
                 /\ job[w].row = r
                 /\ conn' = [conn EXCEPT ![r].status = NewStatus(job[w].op)]
                 /\ job[w].op = "accept" =>
                      consented' = consented
                        \cup {<<job[w].user, v>> : v \in Ends(r) \ {job[w].user}}
<1> USE NoneAssumption DEF TInv, TypeOK, JobOK, Goto, Respond
<1>1. ASSUME NEW w \in Worker, CreateInsert(w)
      PROVE  /\ job[w] # None /\ job'[w] = None
             /\ ~Exists(r)
             /\ conn'[r] = [requester |-> job[w].user,
                            receiver |-> job[w].other, status |-> "PENDING"]
             /\ consented' = consented \cup {<<job[w].user, job[w].other>>}
  BY <1>1 DEF CreateInsert, Exists
<1>2. ASSUME NEW w \in Worker, CreateReopen(w)
      PROVE  /\ job[w] # None /\ job'[w] = None
             /\ job[w].row = r /\ job[w].user \in Ends(r)
             /\ conn'[r] = [requester |-> job[w].user,
                            receiver |-> job[w].other, status |-> "PENDING"]
             /\ consented' = consented \cup {<<job[w].user, job[w].other>>}
  BY <1>2 DEF CreateReopen, Checked
<1>3. ASSUME NEW w \in Worker, RowOpUpdate(w)
      PROVE  /\ job[w] # None /\ job'[w] = None
             /\ pc[w] = "update" /\ job[w].op \in RowOp
             /\ job[w].row = r /\ job[w].user \in Ends(r)
             /\ conn' = [conn EXCEPT ![r].status = NewStatus(job[w].op)]
             /\ job[w].op = "accept" =>
                  consented' = consented
                    \cup {<<job[w].user, v>> : v \in Ends(r) \ {job[w].user}}
  BY <1>3 DEF RowOpUpdate, Checked
<1> QED
  BY <1>1, <1>2, <1>3
  DEF Next, CreateStart, CreateCheckReceiver, CreateFind, RowOpStart, RowOpLoad, DeleteUser

-----------------------------------------------------------------------------
(* Who asked whom, the results of the checks, and consent.                 *)

LEMMA NextRowAsked == TInv /\ RowAsked /\ Checked /\ [Next]_vars => RowAsked'
<1> SUFFICES ASSUME TInv, RowAsked, Checked, [Next]_vars, NEW r \in Row, Exists(r)'
             PROVE  (<<conn[r].requester, conn[r].receiver>> \in consented)'
  BY DEF RowAsked
<1>1. CASE conn'[r] = conn[r]
  BY <1>1, StepKeepsConsent DEF RowAsked, Exists
<1>2. CASE conn'[r] # conn[r]
  <2>1. Next
    BY <1>2 DEF vars
  <2>2. PICK w \in Worker :
          \/ /\ conn'[r] = [requester |-> job[w].user,
                            receiver |-> job[w].other, status |-> "PENDING"]
             /\ consented' = consented \cup {<<job[w].user, job[w].other>>}
          \/ /\ pc[w] = "update"
             /\ job[w].row = r
             /\ job[w].op \in RowOp
             /\ conn' = [conn EXCEPT ![r].status = NewStatus(job[w].op)]
    BY <1>2, <2>1, StepWritesRow
  <2>3. CASE conn'[r] = [requester |-> job[w].user,
                         receiver |-> job[w].other, status |-> "PENDING"]
             /\ consented' = consented \cup {<<job[w].user, job[w].other>>}
    BY <2>3
  <2>4. CASE pc[w] = "update" /\ job[w].row = r
             /\ conn' = [conn EXCEPT ![r].status = NewStatus(job[w].op)]
    <3>1. Exists(r) /\ conn[r] \in ConnRow
      BY <2>4, NoneAssumption DEF Checked, TInv, TypeOK, Exists
    <3>2. conn'[r].requester = conn[r].requester /\ conn'[r].receiver = conn[r].receiver
      BY <2>4, <3>1 DEF TInv, TypeOK, ConnRow
    <3> QED
      BY <3>1, <3>2, StepKeepsConsent DEF RowAsked
  <2> QED
    BY <2>2, <2>3, <2>4
<1> QED
  BY <1>1, <1>2

LEMMA NextChecked == TInv /\ RowAsked /\ Checked /\ [Next]_vars => Checked'
<1> SUFFICES ASSUME TInv, RowAsked, Checked, [Next]_vars,
                    NEW w \in Worker, pc'[w] = "update"
             PROVE  (/\ Exists(job[w].row)
                     /\ job[w].user \in Ends(job[w].row)
                     /\ job[w].op = "create" =>
                          Ends(job[w].row) = {job[w].user, job[w].other}
                     /\ job[w].op = "accept" =>
                          \A v \in Ends(job[w].row) \ {job[w].user} :
                            <<v, job[w].user>> \in consented)'
  BY DEF Checked
<1> USE NoneAssumption DEF TInv, TypeOK, JobOK, PC, Goto, Respond
\* The worker had already made its checks: its row keeps its two users.
<1>1. CASE pc[w] = "update" /\ job'[w] = job[w]
  <2>1. job[w].row \in Row /\ Exists(job[w].row)
    BY <1>1 DEF Checked
  <2>2. Exists(job[w].row)' /\ Ends(job[w].row)' = Ends(job[w].row)
    <3>1. PICK r \in Row : r = job[w].row /\ Exists(r)
      BY <2>1
    <3>2. Exists(r)' /\ Ends(r)' = Ends(r)
      BY <3>1, StepKeepsEnds
    <3>3. job'[w].row = r
      BY <1>1, <3>1
    <3> QED
      BY <3>1, <3>2, <3>3 DEF Exists, Ends
  <2>3. consented \subseteq consented'
    BY StepKeepsConsent
  <2> QED
    BY <1>1, <2>1, <2>2, <2>3 DEF Checked
\* The worker makes its checks in this step, on the row as it is now.
<1>2. CASE pc[w] # "update" /\ CreateFind(w)
  <2>1. PICK r \in RowsBetween(job[w].user, job[w].other) : job' = [job EXCEPT ![w].row = r]
    BY <1>2 DEF CreateFind
  <2>2. /\ r \in Row /\ Exists(r)
        /\ Ends(r) = {job[w].user, job[w].other}
    BY <2>1 DEF RowsBetween, RowsFromTo, Ends
  <2>3. job[w] \in Job /\ job[w].op = "create"
    BY <1>2 DEF CreateFind
  <2>4. /\ job'[w].row = r /\ job'[w].user = job[w].user
        /\ job'[w].other = job[w].other /\ job'[w].op = "create"
    BY <2>1, <2>3 DEF Job
  <2>5. conn' = conn
    BY <1>2 DEF CreateFind
  <2> QED
    BY <2>2, <2>4, <2>5 DEF Exists, Ends
<1>3. CASE pc[w] # "update" /\ RowOpLoad(w)
  <2>1. /\ UNCHANGED <<conn, job, consented>>
        /\ job[w].row \in Row /\ job[w].op \in RowOp
        /\ Exists(job[w].row)
        /\ Allowed(job[w].op, conn[job[w].row], job[w].user)
    BY <1>3 DEF RowOpLoad
  <2>2. job[w].user \in Ends(job[w].row)
    BY <2>1 DEF RowOp, Allowed, MayAccept, MayReject, MayCancel, MayRemove, Ends
  <2>3. job[w].op = "accept" => conn[job[w].row].receiver = job[w].user
    BY <2>1 DEF Allowed, MayAccept
  <2>4. <<conn[job[w].row].requester, conn[job[w].row].receiver>> \in consented
    BY <2>1 DEF RowAsked
  <2>5. job[w].op # "create"
    BY <2>1 DEF RowOp
  <2> QED
    BY <2>1, <2>2, <2>3, <2>4, <2>5 DEF Exists, Ends
<1>4. \/ pc[w] = "update" /\ job'[w] = job[w]
      \/ pc[w] # "update" /\ CreateFind(w)
      \/ pc[w] # "update" /\ RowOpLoad(w)
  <2>1. ASSUME NEW x \in Worker, NEW l \in PC, l # "update", Goto(x, l),
               \A y \in Worker : y # x => job'[y] = job[y]
        PROVE  pc[w] = "update" /\ job'[w] = job[w]
    BY <2>1
  <2>2. ASSUME NEW x \in Worker, NEW u \in User, NEW v \in User, CreateStart(x, u, v)
        PROVE  pc[w] = "update" /\ job'[w] = job[w]
    BY <2>2, <2>1 DEF CreateStart
  <2>3. ASSUME NEW x \in Worker, CreateCheckReceiver(x)
        PROVE  pc[w] = "update" /\ job'[w] = job[w]
    BY <2>3, <2>1 DEF CreateCheckReceiver
  <2>4. ASSUME NEW x \in Worker, CreateFind(x)
        PROVE  \/ pc[w] = "update" /\ job'[w] = job[w]
               \/ pc[w] # "update" /\ CreateFind(w)
    BY <2>4 DEF CreateFind
  <2>5. ASSUME NEW x \in Worker, CreateInsert(x)
        PROVE  pc[w] = "update" /\ job'[w] = job[w]
    BY <2>5 DEF CreateInsert
  <2>6. ASSUME NEW x \in Worker, CreateReopen(x)
        PROVE  pc[w] = "update" /\ job'[w] = job[w]
    BY <2>6 DEF CreateReopen
  <2>7. ASSUME NEW x \in Worker, NEW op \in RowOp, NEW u \in User, NEW r \in Row,
               RowOpStart(x, op, u, r)
        PROVE  pc[w] = "update" /\ job'[w] = job[w]
    BY <2>7 DEF RowOpStart
  <2>8. ASSUME NEW x \in Worker, RowOpLoad(x)
        PROVE  \/ pc[w] = "update" /\ job'[w] = job[w]
               \/ pc[w] # "update" /\ RowOpLoad(w)
    BY <2>8 DEF RowOpLoad
  <2>9. ASSUME NEW x \in Worker, RowOpUpdate(x)
        PROVE  pc[w] = "update" /\ job'[w] = job[w]
    BY <2>9 DEF RowOpUpdate
  <2>10. ASSUME NEW u \in User, DeleteUser(u)
         PROVE  pc[w] = "update" /\ job'[w] = job[w]
    BY <2>10 DEF DeleteUser
  <2>11. CASE UNCHANGED vars
    BY <2>11 DEF vars
  <2> QED
    BY <2>2, <2>3, <2>4, <2>5, <2>6, <2>7, <2>8, <2>9, <2>10, <2>11 DEF Next
<1> QED
  BY <1>1, <1>2, <1>3, <1>4

LEMMA NextConsent == TInv /\ RowAsked /\ Checked /\ Consent /\ [Next]_vars => Consent'
<1> SUFFICES ASSUME TInv, RowAsked, Checked, Consent, [Next]_vars,
                    NEW r \in Row, Exists(r)', conn'[r].status = "ACCEPTED"
             PROVE  (/\ <<conn[r].requester, conn[r].receiver>> \in consented
                     /\ <<conn[r].receiver, conn[r].requester>> \in consented)'
  BY DEF Consent
<1> USE StepKeepsConsent
<1>1. CASE conn'[r] = conn[r]
  BY <1>1 DEF Consent, Exists
<1>2. CASE conn'[r] # conn[r]
  <2>1. Next
    BY <1>2 DEF vars
  <2>2. PICK w \in Worker :
          \/ /\ conn'[r] = [requester |-> job[w].user,
                            receiver |-> job[w].other, status |-> "PENDING"]
          \/ /\ pc[w] = "update"
             /\ job[w].op \in RowOp
             /\ job[w].row = r
             /\ conn' = [conn EXCEPT ![r].status = NewStatus(job[w].op)]
             /\ job[w].op = "accept" =>
                  consented' = consented
                    \cup {<<job[w].user, v>> : v \in Ends(r) \ {job[w].user}}
    BY <1>2, <2>1, StepWritesRow
  <2>3. /\ pc[w] = "update" /\ job[w].op \in RowOp /\ job[w].row = r
        /\ conn' = [conn EXCEPT ![r].status = NewStatus(job[w].op)]
    BY <2>2
  <2>4. Exists(r) /\ conn[r] \in ConnRow
    BY <2>3, NoneAssumption DEF Checked, TInv, TypeOK, Exists
  <2>5. /\ conn'[r].requester = conn[r].requester
        /\ conn'[r].receiver = conn[r].receiver
        /\ conn'[r].status = NewStatus(job[w].op)
    BY <2>3, <2>4 DEF TInv, TypeOK, ConnRow
  <2>6. job[w].op = "accept"
    BY <2>3, <2>5 DEF NewStatus, RowOp
  <2>7. conn[r].requester # conn[r].receiver
    BY <2>4 DEF ConnRow
  <2>8. \A v \in Ends(r) \ {job[w].user} :
          <<v, job[w].user>> \in consented /\ <<job[w].user, v>> \in consented'
    BY <2>2, <2>3, <2>5, <2>6 DEF Checked
  <2>9. job[w].user \in Ends(r)
    BY <2>3 DEF Checked
  <2> QED
    BY <2>5, <2>7, <2>8, <2>9 DEF Ends
<1> QED
  BY <1>1, <1>2

-----------------------------------------------------------------------------
(* The theorems.                                                           *)

\* In every reachable state, with any number of overlapping requests, the
\* invariant that carries the checks of a handler over to its write holds.
THEOREM Invariance == Spec => []IInv
<1>1. Init => IInv
  BY InitTInv, NoneAssumption
  DEF Init, IInv, TInv, RowAsked, Checked, Consent, Exists
<1>2. IInv /\ [Next]_vars => IInv'
  BY NextTypeOK, NextJobOK, NextRowAsked, NextChecked, NextConsent DEF IInv, TInv
<1> QED
  BY <1>1, <1>2, PTL DEF Spec

\* The table and the requests keep their types; no row ever connects a user
\* to itself.
THEOREM TypeCorrect == Spec => []TypeOK
<1>1. IInv => TypeOK
  BY DEF IInv
<1> QED
  BY <1>1, Invariance, PTL

\* Two users are connected only if each of them asked or agreed, however the
\* accept, cancel and create requests of any users overlap.
THEOREM ConsentTheorem == Spec => []Consent
<1>1. IInv => Consent
  BY DEF IInv
<1> QED
  BY <1>1, Invariance, PTL

\* A row is only ever changed by a request of one of its two users, and they
\* stay its two users: the stale ownership check of every handler is enough.
THEOREM ParticipantsTheorem == Spec => OnlyParticipantsChange
<1> DEFINE Kept ==
      \A r \in Row :
        Exists(r) /\ conn'[r] # conn[r] =>
          /\ conn'[r] # None
          /\ {conn'[r].requester, conn'[r].receiver} = Ends(r)
          /\ \E w \in Worker : job[w] # None /\ job'[w] = None /\ job[w].user \in Ends(r)
<1>1. IInv /\ [Next]_vars => [Kept]_vars
  <2> SUFFICES ASSUME IInv, Next, NEW r \in Row, Exists(r), conn'[r] # conn[r]
               PROVE  /\ conn'[r] # None
                      /\ {conn'[r].requester, conn'[r].receiver} = Ends(r)
                      /\ \E w \in Worker :
                           job[w] # None /\ job'[w] = None /\ job[w].user \in Ends(r)
    OBVIOUS
  <2>1. TInv /\ Checked
    BY DEF IInv, TInv
  <2>2. Exists(r)' /\ Ends(r)' = Ends(r)
    BY <2>1, StepKeepsEnds
  <2>3. \E w \in Worker : job[w] # None /\ job'[w] = None /\ job[w].user \in Ends(r)
    BY <2>1, StepWritesRow
  <2> QED
    BY <2>2, <2>3 DEF Exists, Ends
<1> QED
  BY <1>1, Invariance, PTL DEF Spec, OnlyParticipantsChange

-----------------------------------------------------------------------------
(* Requests that do not overlap: what a handler has checked still holds    *)
(* when it writes, so a pair has one row.                                  *)

Alone == ~overlapped =>
  \A v, w \in Worker : pc[v] # "idle" /\ pc[w] # "idle" => v = w

CheckedNow(w) ==
  /\ pc[w] = "insert" => RowsBetween(job[w].user, job[w].other) = {}
  /\ pc[w] = "update" /\ job[w].op = "create" => conn[job[w].row].status \in {"REJECTED", "CANCELED"}
  /\ pc[w] = "update" /\ job[w].op \in RowOp => Allowed(job[w].op, conn[job[w].row], job[w].user)

SerialInv ==
  Alone /\ OneRowUntilOverlap /\ (~overlapped => \A w \in Worker : CheckedNow(w))

\* What worker w may do.
Act(w) ==
  \/ \E u, v \in User : CreateStart(w, u, v)
  \/ CreateCheckReceiver(w) \/ CreateFind(w) \/ CreateInsert(w) \/ CreateReopen(w)
  \/ \E op \in RowOp, u \in User, r \in Row : RowOpStart(w, op, u, r)
  \/ RowOpLoad(w) \/ RowOpUpdate(w)

LEMMA NextActs == Next => \/ \E w \in Worker : Act(w)
                          \/ \E u \in User : DeleteUser(u)
BY DEF Next, Act

\* A step of w that does not overlap another request finds the others idle.
LEMMA ActAlone ==
  ASSUME TInv, Alone, NEW w \in Worker, Act(w), ~overlapped'
  PROVE  /\ ~overlapped
         /\ \A v \in Worker \ {w} : pc[v] = "idle" /\ pc'[v] = "idle"
<1>0. pc \in [Worker -> PC]
  BY DEF TInv, TypeOK
<1>1. CASE \/ \E u, v \in User : CreateStart(w, u, v)
           \/ \E op \in RowOp, u \in User, r \in Row : RowOpStart(w, op, u, r)
  <2>1. overlapped' = Overlaps(w) /\ \E l : Goto(w, l)
    BY <1>1 DEF CreateStart, RowOpStart
  <2>2. ~overlapped /\ \A v \in Worker \ {w} : pc[v] = "idle"
    BY <2>1, Zenon DEF Overlaps
  <2> QED
    BY <1>0, <2>1, <2>2 DEF Goto
<1>2. CASE CreateCheckReceiver(w) \/ CreateFind(w) \/ CreateInsert(w) \/ CreateReopen(w)
           \/ RowOpLoad(w) \/ RowOpUpdate(w)
  <2>1. pc[w] # "idle" /\ overlapped' = overlapped /\ \E l : Goto(w, l)
    BY <1>2 DEF CreateCheckReceiver, CreateFind, CreateInsert, CreateReopen, RowOpLoad,
                RowOpUpdate, Respond
  <2>2. ~overlapped
    BY <2>1, Zenon
  <2>3. \A v \in Worker \ {w} : pc[v] = "idle"
    BY <2>1, <2>2, Zenon DEF Alone
  <2> QED
    BY <1>0, <2>1, <2>2, <2>3 DEF Goto
<1> QED
  BY <1>1, <1>2 DEF Act

LEMMA NextAlone == TInv /\ Alone /\ [Next]_vars => Alone'
<1> SUFFICES ASSUME TInv, Alone, [Next]_vars, ~overlapped',
                    NEW u \in Worker, NEW v \in Worker, pc'[u] # "idle", pc'[v] # "idle"
             PROVE  u = v
  BY Zenon DEF Alone
<1>1. CASE \E w \in Worker : Act(w)
  BY <1>1, ActAlone
<1>2. CASE UNCHANGED <<pc, overlapped>>
  BY <1>2, Zenon DEF Alone
<1> QED
  BY <1>1, <1>2, NextActs DEF vars, DeleteUser

LEMMA NextSerialInv == TInv /\ Checked /\ SerialInv /\ [Next]_vars => SerialInv'
<1> SUFFICES ASSUME TInv, Checked, SerialInv, [Next]_vars PROVE SerialInv'
  OBVIOUS
<1>1. Alone'
  BY NextAlone DEF SerialInv
<1> SUFFICES ASSUME ~overlapped'
             PROVE  OneRowPerPair' /\ \A w \in Worker : CheckedNow(w)'
  BY <1>1, Zenon DEF SerialInv, OneRowUntilOverlap
<1>2. CASE UNCHANGED <<conn, pc, job, overlapped>>
  <2>1. OneRowPerPair /\ \A w \in Worker : CheckedNow(w)
    BY <1>2, Zenon DEF SerialInv, OneRowUntilOverlap
  <2> QED
    BY <1>2, <2>1 DEF OneRowPerPair, CheckedNow, Exists, Ends, RowsBetween, RowsFromTo
<1>3. ASSUME NEW w \in Worker, Act(w)
      PROVE  OneRowPerPair' /\ \A v \in Worker : CheckedNow(v)'
  <2>1. ~overlapped /\ \A v \in Worker \ {w} : pc[v] = "idle" /\ pc'[v] = "idle"
    BY <1>3, ActAlone DEF SerialInv
  <2>2. OneRowPerPair /\ CheckedNow(w)
    BY <2>1, Zenon DEF SerialInv, OneRowUntilOverlap
  <2>3. /\ pc \in [Worker -> PC] /\ job \in [Worker -> Job \cup {None}]
        /\ conn \in [Row -> ConnRow \cup {None}]
    BY DEF TInv, TypeOK
  <2>4. ASSUME CheckedNow(w)' PROVE \A v \in Worker : CheckedNow(v)'
    BY <2>1, <2>4 DEF CheckedNow
  <2>5. ASSUME conn' = conn PROVE OneRowPerPair'
    BY <2>2, <2>5 DEF OneRowPerPair, Exists, Ends
  <2> USE DEF Goto, Respond
  <2>6. CASE pc'[w] \notin {"insert", "update"} /\ conn' = conn
    BY <2>4, <2>5, <2>6 DEF CheckedNow
  <2>7. CASE \/ \E u, v \in User : CreateStart(w, u, v)
             \/ \E op \in RowOp, u \in User, r \in Row : RowOpStart(w, op, u, r)
             \/ CreateCheckReceiver(w)
    BY <2>3, <2>6, <2>7 DEF CreateStart, RowOpStart, CreateCheckReceiver
  <2>8. CASE CreateFind(w)
    <3>1. conn' = conn
      BY <2>8 DEF CreateFind
    <3>2. CASE RowsBetween(job[w].user, job[w].other) = {} /\ Goto(w, "insert") /\ job' = job
      <4>1. CheckedNow(w)'
        BY <2>3, <3>1, <3>2 DEF CheckedNow, RowsBetween, RowsFromTo, Exists
      <4> QED
        BY <2>4, <2>5, <3>1, <4>1
    <3>3. ASSUME NEW r \in RowsBetween(job[w].user, job[w].other), Goto(w, "update"),
                 conn[r].status \in {"REJECTED", "CANCELED"}, job' = [job EXCEPT ![w].row = r]
          PROVE  OneRowPerPair' /\ \A v \in Worker : CheckedNow(v)'
      <4>1. job[w] \in Job /\ job[w].op = "create"
        BY <2>8 DEF CreateFind, TInv, TypeOK, JobOK
      <4>2. job'[w].row = r /\ job'[w].op = "create" /\ pc'[w] = "update"
        BY <2>3, <3>3, <4>1 DEF Job
      <4>3. CheckedNow(w)'
        BY <3>1, <3>3, <4>2 DEF CheckedNow, RowOp
      <4> QED
        BY <2>4, <2>5, <3>1, <4>3
    <3>4. CASE Respond(w)
      BY <2>3, <2>6, <3>1, <3>4
    <3> QED
      BY <2>8, <3>2, <3>3, <3>4 DEF CreateFind
  <2>9. CASE CreateInsert(w)
    <3>1. pc'[w] = "idle" /\ pc[w] = "insert"
      BY <2>3, <2>9 DEF CreateInsert
    <3>2. \A v \in Worker : CheckedNow(v)'
      BY <2>4, <3>1 DEF CheckedNow
    <3>3. RowsBetween(job[w].user, job[w].other) = {}
      BY <2>2, <3>1 DEF CheckedNow
    <3>4. ASSUME NEW r \in Row, ~Exists(r),
                 conn' = [conn EXCEPT ![r] = [requester |-> job[w].user,
                                              receiver |-> job[w].other, status |-> "PENDING"]]
          PROVE  OneRowPerPair'
      <4>1. \A s \in Row \ {r} : conn'[s] = conn[s]
        BY <2>3, <3>4
      <4>2. conn'[r].requester = job[w].user /\ conn'[r].receiver = job[w].other
        BY <2>3, <3>4
      <4>3. \A s \in Row : Exists(s) => Ends(s) # {job[w].user, job[w].other}
        BY <3>3 DEF RowsBetween, RowsFromTo, Ends
      <4> QED
        BY <2>2, <4>1, <4>2, <4>3 DEF OneRowPerPair, Exists, Ends
    <3> QED
      BY <2>5, <2>9, <3>2, <3>4 DEF CreateInsert
  <2>10. CASE CreateReopen(w) \/ RowOpUpdate(w)
    <3>1. pc'[w] = "idle"
      BY <2>3, <2>10 DEF CreateReopen, RowOpUpdate
    <3>2. \A v \in Worker : CheckedNow(v)'
      BY <2>4, <3>1 DEF CheckedNow
    <3>3. \A r \in Row : Exists(r) => Exists(r)' /\ Ends(r)' = Ends(r)
      BY StepKeepsEnds
    <3>4. \A r \in Row : Exists(r)' => Exists(r)
      <4>1. Exists(job[w].row)
        BY <2>10 DEF CreateReopen, RowOpUpdate, Checked
      <4> QED
        BY <2>3, <2>10, <4>1 DEF CreateReopen, RowOpUpdate, Exists
    <3>5. OneRowPerPair'
      BY <2>2, <3>3, <3>4 DEF OneRowPerPair
    <3> QED
      BY <3>2, <3>5
  <2>11. CASE RowOpLoad(w)
    <3>1. conn' = conn
      BY <2>11 DEF RowOpLoad
    <3>2. CASE Respond(w)
      BY <2>3, <2>6, <3>1, <3>2
    <3>3. CASE /\ Exists(job[w].row) /\ Allowed(job[w].op, conn[job[w].row], job[w].user)
               /\ Goto(w, "update") /\ job' = job
      <4>1. job[w].op \in RowOp
        BY <2>11 DEF RowOpLoad, TInv, JobOK
      <4>2. CheckedNow(w)'
        BY <2>3, <3>1, <3>3, <4>1 DEF CheckedNow, RowOp, Allowed, MayAccept, MayReject, MayCancel, MayRemove
      <4> QED
        BY <2>4, <2>5, <3>1, <4>2
    <3> QED
      BY <2>11, <3>2, <3>3 DEF RowOpLoad
  <2> QED
    BY <1>3, <2>7, <2>8, <2>9, <2>10, <2>11 DEF Act
<1> QED
  BY <1>2, <1>3, NextActs DEF vars, DeleteUser

-----------------------------------------------------------------------------
(* The table implements the life cycle of a pair.                          *)

\* The relation that the abstract specification is given.
Rel == [p \in Pair |-> IF overlapped THEN Contested ELSE PairState(p)]

\* PairState as a function of the table, to speak of it before and after a step.
RowOf(c, p, r) == c[r] # None /\ {c[r].requester, c[r].receiver} = p
StateOf(c, p) ==
  IF \E r \in Row : RowOf(c, p, r)
  THEN LET r == CHOOSE r \in Row : RowOf(c, p, r)
       IN  [status |-> c[r].status, requester |-> c[r].requester]
  ELSE [status |-> "NONE", requester |-> None]

LEMMA StateNow == \A p : PairState(p) = StateOf(conn, p)
BY DEF PairState, StateOf, RowOf, Exists, Ends

LEMMA StateNext == \A p : PairState(p)' = StateOf(conn', p)
BY DEF PairState, StateOf, RowOf, Exists, Ends

\* The state of a pair is that of its only row, and NONE without one.
LEMMA StateOfRow ==
  ASSUME NEW c, NEW p, NEW r \in Row, RowOf(c, p, r), \A s \in Row : RowOf(c, p, s) => s = r
  PROVE  StateOf(c, p) = [status |-> c[r].status, requester |-> c[r].requester]
<1>1. (CHOOSE s \in Row : RowOf(c, p, s)) = r
  OBVIOUS
<1> QED
  BY <1>1 DEF StateOf

LEMMA StateOfNone ==
  ASSUME NEW c, NEW p, \A s \in Row : ~RowOf(c, p, s)
  PROVE  StateOf(c, p) = [status |-> "NONE", requester |-> None]
BY DEF StateOf

\* A step on the only row of a pair leaves the states of the other pairs alone.
LEMMA OtherPairs ==
  ASSUME NEW c, NEW d, NEW q, NEW r \in Row,
         \A s \in Row \ {r} : d[s] = c[s],
         ~RowOf(c, q, r), ~RowOf(d, q, r),
         \A s, t \in Row : RowOf(c, q, s) /\ RowOf(c, q, t) => s = t
  PROVE  StateOf(d, q) = StateOf(c, q)
<1>1. \A s \in Row : RowOf(d, q, s) <=> RowOf(c, q, s)
  BY DEF RowOf
<1>2. CASE \A s \in Row : ~RowOf(c, q, s)
  BY <1>1, <1>2, StateOfNone
<1>3. ASSUME NEW s \in Row, RowOf(c, q, s) PROVE StateOf(d, q) = StateOf(c, q)
  <2>1. d[s] = c[s]
    BY <1>3
  <2>2. StateOf(c, q) = [status |-> c[s].status, requester |-> c[s].requester]
    BY <1>3, StateOfRow
  <2>3. StateOf(d, q) = [status |-> d[s].status, requester |-> d[s].requester]
    BY <1>1, <1>3, StateOfRow
  <2> QED
    BY <2>1, <2>2, <2>3
<1> QED
  BY <1>2, <1>3

\* What one step makes of the table, when no request has overlapped: nothing, or
\* one row of one pair p, which the abstract specification allows.
LEMMA RelStep ==
  ASSUME ~overlapped, ~overlapped', OneRowPerPair, NEW r \in Row, NEW p \in Pair,
         \A s \in Row \ {r} : conn'[s] = conn[s],
         Exists(r) => Ends(r) = p, RowOf(conn', p, r),
         ~Exists(r) => \A s \in Row : ~RowOf(conn, p, s)
  PROVE  /\ Exists(r) => Rel[p] = [status |-> conn[r].status, requester |-> conn[r].requester]
         /\ ~Exists(r) => Rel[p] = [status |-> "NONE", requester |-> None]
         /\ Rel' = [Rel EXCEPT ![p] = [status |-> conn'[r].status, requester |-> conn'[r].requester]]
<1>1. Rel = [q \in Pair |-> StateOf(conn, q)] /\ Rel' = [q \in Pair |-> StateOf(conn', q)]
  <2>1. \A q \in Pair : (IF overlapped THEN Contested ELSE PairState(q)) = StateOf(conn, q)
    BY StateNow
  <2>2. \A q \in Pair : (IF overlapped THEN Contested ELSE PairState(q))' = StateOf(conn', q)
    BY StateNext
  <2> QED
    BY <2>1, <2>2 DEF Rel
<1>2. \A q : \A s, t \in Row : RowOf(conn, q, s) /\ RowOf(conn, q, t) => s = t
  BY DEF OneRowPerPair, RowOf, Exists, Ends
<1>3. Exists(r) => RowOf(conn, p, r)
  BY DEF RowOf, Exists, Ends
<1>4. \A s \in Row \ {r} : ~RowOf(conn', p, s)
  <2>1. \A s \in Row \ {r} : ~RowOf(conn, p, s)
    BY <1>2, <1>3
  <2> QED
    BY <2>1 DEF RowOf
<1>5. StateOf(conn', p) = [status |-> conn'[r].status, requester |-> conn'[r].requester]
  BY <1>4, StateOfRow
<1>6. /\ Exists(r) => StateOf(conn, p) = [status |-> conn[r].status, requester |-> conn[r].requester]
      /\ ~Exists(r) => StateOf(conn, p) = [status |-> "NONE", requester |-> None]
  <2>1. ASSUME Exists(r)
        PROVE  StateOf(conn, p) = [status |-> conn[r].status, requester |-> conn[r].requester]
    BY <1>2, <1>3, <2>1, StateOfRow
  <2>2. ASSUME ~Exists(r) PROVE StateOf(conn, p) = [status |-> "NONE", requester |-> None]
    BY <2>2, StateOfNone
  <2> QED
    BY <2>1, <2>2
<1>7. ASSUME NEW q \in Pair, q # p PROVE StateOf(conn', q) = StateOf(conn, q)
  <2>1. ~RowOf(conn, q, r) /\ ~RowOf(conn', q, r)
    BY <1>7 DEF RowOf, Exists, Ends
  <2> QED
    BY <1>2, <1>7, <2>1, OtherPairs
<1> QED
  BY <1>1, <1>5, <1>6, <1>7

LEMMA InitRefines == Init => Lifecycle!Init
<1> SUFFICES ASSUME Init PROVE Lifecycle!Init
  OBVIOUS
<1>1. \A p : PairState(p) = [status |-> "NONE", requester |-> None]
  BY DEF Init, PairState, Exists
<1>2. ~overlapped
  BY DEF Init
<1> QED
  BY <1>1, <1>2 DEF Lifecycle!Init, Lifecycle!Pair, Pair

\* Every step of the table is a step of the life cycle of some pair, or none.
LEMMA NextRefines ==
  IInv /\ SerialInv /\ [Next]_vars => [Lifecycle!Next]_Rel
<1> SUFFICES ASSUME IInv, SerialInv, [Next]_vars, Rel' # Rel PROVE Lifecycle!Next
  OBVIOUS
<1>0. TInv /\ Checked /\ Pair = Lifecycle!Pair
  BY DEF IInv, TInv, Pair, Lifecycle!Pair
<1>0a. /\ pc \in [Worker -> PC] /\ job \in [Worker -> Job \cup {None}]
       /\ conn \in [Row -> ConnRow \cup {None}]
  BY <1>0 DEF TInv, TypeOK
\* An overlap makes every pair contested.
<1>1. CASE overlapped'
  <2>1. Rel' = [p \in Pair |-> Contested]
    BY <1>1, Zenon DEF Rel
  <2>2. Rel' = [p \in Pair |-> [status |-> "CONTESTED", requester |-> None]]
    BY <2>1 DEF Contested
  <2>3. Lifecycle!Contest
    BY <1>0, <2>2, Zenon DEF Rel, Lifecycle!Contest
  <2> QED
    BY <2>3 DEF Lifecycle!Next
<1>2. CASE ~overlapped'
  <2>1. ~overlapped /\ OneRowPerPair /\ \A w \in Worker : CheckedNow(w)
    <3>1. ~overlapped
      <4>1. CASE \E w \in Worker : Act(w)
        BY <1>0, <1>2, <4>1, ActAlone DEF SerialInv
      <4>2. CASE overlapped' = overlapped
        BY <1>2, <4>2, Zenon
      <4> QED
        BY <4>1, <4>2, NextActs DEF vars, DeleteUser
    <3> QED
      BY <3>1, Zenon DEF SerialInv, OneRowUntilOverlap
  <2>2. conn' # conn
    <3>1. SUFFICES ASSUME conn' = conn PROVE FALSE
      BY <3>1
    <3>2. \A p \in Pair : (IF overlapped THEN Contested ELSE PairState(p))
                           = (IF overlapped THEN Contested ELSE PairState(p))'
      BY <1>2, <2>1, <3>1, StateNow, StateNext
    <3>3. Rel' = Rel
      BY <3>2 DEF Rel
    <3> QED
      BY <3>3
  <2>3. PICK w \in Worker : CreateInsert(w) \/ CreateReopen(w) \/ RowOpUpdate(w)
    BY <2>2 DEF Next, vars, CreateStart, CreateCheckReceiver, CreateFind, RowOpStart, RowOpLoad, DeleteUser
  <2> DEFINE u == job[w].user
             v == job[w].other
  <2>4. job[w] \in Job /\ u \in User /\ v \in User
    BY <1>0, <1>0a, <2>3 DEF TInv, JobOK, CreateInsert, CreateReopen, RowOpUpdate, Job
  <2>5. Rel = [q \in Pair |-> IF overlapped THEN Contested ELSE PairState(q)]
    BY DEF Rel
  <2>6. ASSUME NEW p \in Pair, u \in p, Rel[p].status \in {"NONE", "REJECTED", "CANCELED"},
               Rel' = [Rel EXCEPT ![p] = [status |-> "PENDING", requester |-> u]]
        PROVE  Lifecycle!Next
    <3>1. Lifecycle!Ask(u, p)
      BY <2>6, Zenon DEF Lifecycle!Ask, Rel
    <3> QED
      BY <1>0, <2>4, <3>1 DEF Lifecycle!Next
  <2>7. CASE CreateInsert(w)
    <3>1. /\ u # v /\ RowsBetween(u, v) = {}
          /\ \A s \in Row : Exists(s) => Ends(s) # {u, v}
      <4>1. u # v /\ RowsBetween(u, v) = {}
        BY <1>0, <2>1, <2>7 DEF CreateInsert, TInv, JobOK, CheckedNow
      <4> QED
        BY <4>1 DEF RowsBetween, RowsFromTo, Ends
    <3>2. {u, v} \in Pair
      BY <2>4, <3>1 DEF Pair
    <3>3. PICK r \in Row : ~Exists(r) /\ conn' = [conn EXCEPT ![r] =
                              [requester |-> u, receiver |-> v, status |-> "PENDING"]]
      BY <2>2, <2>7 DEF CreateInsert
    <3>4. /\ \A s \in Row \ {r} : conn'[s] = conn[s]
          /\ conn'[r] = [requester |-> u, receiver |-> v, status |-> "PENDING"]
      BY <1>0a, <3>3
    <3>5. conn'[r] \in ConnRow
      BY <2>4, <3>1, <3>4 DEF ConnRow, Status
    <3>6. RowOf(conn', {u, v}, r) /\ \A s \in Row : ~RowOf(conn, {u, v}, s)
      BY <3>1, <3>4, <3>5, NoneAssumption DEF RowOf, Exists, Ends
    <3>7. Rel[{u, v}].status = "NONE"
          /\ Rel' = [Rel EXCEPT ![{u, v}] = [status |-> "PENDING", requester |-> u]]
      <4> DEFINE q == {u, v}
      <4>1. q \in Pair /\ RowOf(conn', q, r) /\ \A s \in Row : ~RowOf(conn, q, s)
        BY <3>2, <3>6
      <4> HIDE DEF q
      <4>2. /\ Rel[q] = [status |-> "NONE", requester |-> None]
            /\ Rel' = [Rel EXCEPT ![q] = [status |-> conn'[r].status, requester |-> conn'[r].requester]]
        BY <1>2, <2>1, <3>3, <3>4, <4>1, RelStep
      <4> QED
        BY <3>4, <4>2 DEF q
    <3> QED
      BY <2>6, <3>2, <3>7
  <2>8. CASE CreateReopen(w)
    <3> DEFINE r == job[w].row
    <3>1. /\ pc[w] = "update" /\ job[w].op = "create" /\ r \in Row /\ u # v
          /\ Exists(r) /\ Ends(r) = {u, v} /\ conn[r].status \in {"REJECTED", "CANCELED"}
      BY <1>0, <2>1, <2>8 DEF CreateReopen, TInv, JobOK, Checked, CheckedNow
    <3>2. {u, v} \in Pair
      BY <2>4, <3>1 DEF Pair
    <3>3. conn' = [conn EXCEPT ![r] = [requester |-> u, receiver |-> v, status |-> "PENDING"]]
      BY <2>2, <2>8 DEF CreateReopen
    <3>4. /\ \A s \in Row \ {r} : conn'[s] = conn[s]
          /\ conn'[r] = [requester |-> u, receiver |-> v, status |-> "PENDING"]
      BY <1>0a, <3>1, <3>3
    <3>5. conn'[r] \in ConnRow
      BY <2>4, <3>1, <3>4 DEF ConnRow, Status
    <3>6. RowOf(conn', {u, v}, r)
      BY <3>4, <3>5, NoneAssumption DEF RowOf
    <3>7. Rel[{u, v}].status \in {"REJECTED", "CANCELED"}
          /\ Rel' = [Rel EXCEPT ![{u, v}] = [status |-> "PENDING", requester |-> u]]
      <4> DEFINE q == {u, v}
      <4>1. q \in Pair /\ RowOf(conn', q, r) /\ Exists(r) /\ Ends(r) = q
        BY <3>1, <3>2, <3>6
      <4> HIDE DEF q, r
      <4>2. /\ Rel[q] = [status |-> conn[r].status, requester |-> conn[r].requester]
            /\ Rel' = [Rel EXCEPT ![q] = [status |-> conn'[r].status, requester |-> conn'[r].requester]]
        BY <1>2, <2>1, <3>1, <3>4, <4>1, RelStep
      <4> QED
        BY <3>1, <3>4, <4>2 DEF q
    <3> QED
      BY <2>6, <3>2, <3>7
  <2>9. CASE RowOpUpdate(w)
    <3> DEFINE r == job[w].row
               op == job[w].op
               p == Ends(r)
    <3>1. /\ pc[w] = "update" /\ op \in RowOp /\ r \in Row
          /\ Exists(r) /\ Allowed(op, conn[r], u) /\ conn[r] \in ConnRow
          /\ conn' = [conn EXCEPT ![r].status = NewStatus(op)]
      BY <1>0, <1>0a, <2>1, <2>9 DEF RowOpUpdate, TInv, JobOK, Checked, CheckedNow, Exists
    <3>2. p \in Pair
      BY <3>1 DEF Ends, Pair, ConnRow
    <3>3. /\ \A s \in Row \ {r} : conn'[s] = conn[s]
          /\ conn'[r] = [conn[r] EXCEPT !.status = NewStatus(op)]
      BY <1>0a, <3>1
    <3>4. /\ conn'[r].status = NewStatus(op) /\ conn'[r].requester = conn[r].requester
          /\ conn'[r].receiver = conn[r].receiver /\ conn'[r] \in ConnRow
      <4>1. NewStatus(op) \in Status
        BY <3>1 DEF RowOp, NewStatus, Status
      <4> QED
        BY <3>1, <3>3, <4>1 DEF ConnRow
    <3>5. RowOf(conn', p, r)
      BY <3>4, NoneAssumption DEF RowOf, Ends
    <3>6. /\ Rel[p] = [status |-> conn[r].status, requester |-> conn[r].requester]
          /\ Rel' = [Rel EXCEPT ![p] = [status |-> NewStatus(op), requester |-> conn[r].requester]]
      <4> HIDE DEF r, p, op
      <4>1. Ends(r) = p
        BY DEF p
      <4>2. /\ Rel[p] = [status |-> conn[r].status, requester |-> conn[r].requester]
            /\ Rel' = [Rel EXCEPT ![p] = [status |-> conn'[r].status, requester |-> conn'[r].requester]]
        BY <1>2, <2>1, <3>1, <3>2, <3>3, <3>5, <4>1, RelStep
      <4> QED
        BY <3>4, <4>2
    <3>7. Rel' = [Rel EXCEPT ![p].status = NewStatus(op)]
      <4>1. [Rel[p] EXCEPT !.status = NewStatus(op)]
              = [status |-> NewStatus(op), requester |-> conn[r].requester]
        BY <3>6
      <4> QED
        BY <3>6, <4>1
    <3>8. conn[r].requester # conn[r].receiver
      BY <3>1 DEF ConnRow
    <3>9. \/ Lifecycle!Answer(u, p) \/ Lifecycle!Withdraw(u, p) \/ Lifecycle!Dissolve(u, p)
      <4> HIDE DEF r, p, op
      <4>1. CASE op \in {"accept", "reject"}
        <5>1. /\ conn[r].status = "PENDING" /\ conn[r].receiver = u /\ NewStatus(op) \in {"ACCEPTED", "REJECTED"}
          BY <3>1, <4>1 DEF Allowed, MayAccept, MayReject, NewStatus, RowOp
        <5>2. u \in p /\ Rel[p].status = "PENDING" /\ Rel[p].requester # u
          BY <3>6, <3>8, <5>1 DEF p, Ends
        <5> QED
          BY <3>7, <5>1, <5>2, Zenon DEF Lifecycle!Answer, Rel
      <4>2. CASE op = "cancel"
        <5>1. conn[r].status = "PENDING" /\ conn[r].requester = u /\ NewStatus(op) = "CANCELED"
          BY <3>1, <4>2 DEF Allowed, MayCancel, NewStatus
        <5>2. Rel[p].status = "PENDING" /\ Rel[p].requester = u
          BY <3>6, <5>1
        <5> QED
          BY <3>7, <5>1, <5>2, Zenon DEF Lifecycle!Withdraw, Rel
      <4>3. CASE op = "remove"
        <5>1. conn[r].status = "ACCEPTED" /\ u \in p /\ NewStatus(op) = "CANCELED"
          BY <3>1, <4>3 DEF Allowed, MayRemove, NewStatus, p, Ends
        <5>2. Rel[p].status = "ACCEPTED"
          BY <3>6, <5>1
        <5> QED
          BY <3>7, <5>1, <5>2, Zenon DEF Lifecycle!Dissolve, Rel
      <4> QED
        BY <3>1, <4>1, <4>2, <4>3 DEF RowOp
    <3> QED
      BY <1>0, <2>4, <3>2, <3>9 DEF Lifecycle!Next
  <2> QED
    BY <2>3, <2>7, <2>8, <2>9
<1> QED
  BY <1>1, <1>2

\* Requests that have not overlapped leave every pair with one row, however
\* many pairs and rows there are ("Handle duplicate or reverse pending request").
THEOREM OneRowTheorem == Spec => []OneRowUntilOverlap
<1>1. Init => SerialInv
  BY DEF Init, SerialInv, Alone, OneRowUntilOverlap, OneRowPerPair, Exists, CheckedNow
<1>2. IInv /\ SerialInv /\ [Next]_vars => SerialInv'
  BY NextSerialInv DEF IInv, TInv
<1>3. SerialInv => OneRowUntilOverlap
  BY DEF SerialInv
<1> QED
  BY <1>1, <1>2, <1>3, Invariance, PTL DEF Spec

\* The table implements ConnectionLifecycle: until requests overlap, a pair is
\* asked, answered, withdrawn and dissolved by those who may, one row at a time.
THEOREM Refinement == Spec => ImplementsLifecycle
<1>1. Init => SerialInv
  BY DEF Init, SerialInv, Alone, OneRowUntilOverlap, OneRowPerPair, Exists, CheckedNow
<1>2. IInv /\ SerialInv /\ [Next]_vars => SerialInv'
  BY NextSerialInv DEF IInv, TInv
<1>3. Init => Lifecycle!Init
  BY InitRefines
<1>4. IInv /\ SerialInv /\ [Next]_vars
        => [Lifecycle!Next]_([p \in Pair |-> IF overlapped THEN Contested ELSE PairState(p)])
  BY NextRefines DEF Rel
<1> QED
  BY <1>1, <1>2, <1>3, <1>4, Invariance, PTL DEF Spec, ImplementsLifecycle, Lifecycle!Spec

=============================================================================
