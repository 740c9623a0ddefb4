---------------------------- MODULE FamilyProofs ----------------------------
(***************************************************************************)
(* Proofs about Family for any sets of users, families, names and          *)
(* concurrent requests.                                                    *)
(*                                                                         *)
(* The argument: what a request has read holds until it writes, as long as *)
(* no request has overlapped another one (Reads); and rows do not vanish,  *)
(* so that what a request names exists whatever overlaps (Named).          *)
(***************************************************************************)
EXTENDS Family, TLAPS

OfOwner == {"addMember", "remove", "addOwner", "setIndependent"}
OfFamily == {"updateFamily", "deleteFamily"}
OfUser == {"updateUser", "deleteUser"}

\* What request j names has a row.
Names(j) ==
  /\ j.op \in OfOwner \cup OfFamily =>
       j.by \in User /\ j.family \in Family /\ families[j.family] # None
  /\ j.op \in OfOwner \cup OfUser => j.user \in User
  /\ j.op = "createFamily" => j.by \in User /\ users[j.by] # None
  /\ j.op \in {"createFamily", "updateFamily"} => j.name \in Name
  /\ j.op \in OfUser => users[j.user] # None /\ j.by \in {j.user, None}

Named == \A w \in Worker : pc[w] # "idle" => Names(job[w])

\* One request at a time.
Alone == ~overlapped => \A v, w \in Worker : pc[v] # "idle" /\ pc[w] # "idle" => v = w

\* What the request of w has read and still holds.
ReadBy(w) ==
  /\ At(w, "createFamily", "write") => ~NameTaken(job[w].name)
  /\ At(w, "updateFamily", "write") =>
       families[job[w].family].name = job[w].name \/ ~NameTaken(job[w].name)
  /\ job[w].op = "remove" /\ pc[w] \in {"target", "write"} =>
       RoleIn(job[w].family, job[w].by) = "OWNER" /\ job[w].by # job[w].user
  /\ job[w].op = "setIndependent" /\ pc[w] \in {"control", "write"} =>
       ~users[job[w].user].separate

Reads == ~overlapped => \A w \in Worker : pc[w] # "idle" => ReadBy(w)

IInv == TypeOK /\ Named /\ Alone /\ Reads /\ FamiliesKept

-----------------------------------------------------------------------------
(* The shapes of a step.                                                   *)

\* A request starts.
Begins(w) ==
  /\ pc[w] = "idle" /\ requests < MaxRequests /\ requests' = requests + 1
  /\ overlapped' = (overlapped \/ \E v \in Worker \ {w} : pc[v] # "idle")
  /\ UNCHANGED tables
  /\ \E j \in Job, l \in {"user", "family"} :
       Goto(w, l) /\ job' = [job EXCEPT ![w] = j] /\ Names(j)

\* A request has read something and goes on or ends.
Decides(w) ==
  /\ pc[w] # "idle"
  /\ \/ \E l \in PC \ {"idle"} : Goto(w, l) /\ UNCHANGED job
     \/ Respond(w)
  /\ UNCHANGED <<tables, requests, overlapped>>

LEMMA StartsBegin ==
  ASSUME NEW w \in Worker, NEW a, NEW l \in {"user", "family"}, NEW j \in Job,
         Start(w, a, l), job' = [job EXCEPT ![w] = j], Names(j)
  PROVE  Begins(w)
BY Zenon DEF Begins, Start

LEMMA RequestsBegin ==
  ASSUME TypeOK, NEW w \in Worker, Requests(w)
  PROVE  Begins(w)
<1> USE DEF Names, OfOwner, OfFamily, OfUser, Job, Op
<1>1. ASSUME NEW u \in User, NEW n \in Name, CreateFamilyStart(w, u, n)
      PROVE  Begins(w)
  <2> DEFINE j == [op |-> "createFamily", by |-> u, family |-> None,
                   user |-> None, name |-> n, flag |-> FALSE]
  <2>1. j \in Job /\ Names(j)
    BY <1>1, FamilyAssumption DEF CreateFamilyStart, Start, Live
  <2> QED
    BY <1>1, <2>1, StartsBegin DEF CreateFamilyStart
<1>2. ASSUME NEW u \in User, NEW f \in Family, NEW op \in OfFamily, NEW n \in Name \cup {None},
             op = "updateFamily" => n \in Name, ChangeFamilyStart(w, op, u, f, n)
      PROVE  Begins(w)
  <2> DEFINE j == [op |-> op, by |-> u, family |-> f,
                   user |-> None, name |-> n, flag |-> FALSE]
  <2>1. j \in Job /\ Names(j)
    BY <1>2 DEF ChangeFamilyStart
  <2> QED
    BY <1>2, <2>1, StartsBegin DEF ChangeFamilyStart
<1>3. ASSUME NEW u \in User, NEW f \in Family, NEW v \in User, NEW op \in OfOwner,
             NEW b \in BOOLEAN, MemberStart(w, op, u, f, v, b)
      PROVE  Begins(w)
  <2> DEFINE j == [op |-> op, by |-> u, family |-> f, user |-> v, name |-> None, flag |-> b]
  <2>1. j \in Job /\ Names(j)
    BY <1>3 DEF MemberStart
  <2> QED
    BY <1>3, <2>1, StartsBegin DEF MemberStart
<1>4. ASSUME NEW u \in User, NEW a \in {u, None}, NEW op \in OfUser,
             NEW b \in BOOLEAN, UserStart(w, op, a, u, b)
      PROVE  Begins(w)
  <2> DEFINE j == [op |-> op, by |-> a, family |-> None, user |-> u, name |-> None, flag |-> b]
  <2>1. j \in Job /\ Names(j)
    BY <1>4 DEF UserStart
  <2> QED
    BY <1>4, <2>1, StartsBegin DEF UserStart
<1> QED
  BY <1>1, <1>2, <1>3, <1>4 DEF Requests

LEMMA ServesDecide ==
  ASSUME TypeOK, NEW w \in Worker, Serve(w), pc[w] # "write"
  PROVE  Decides(w)
<1> USE DEF Decides, Check, At, PC
<1>1. CASE CreateFamily(w)
  BY <1>1 DEF CreateFamily
<1>2. CASE UpdateFamily(w)
  BY <1>2 DEF UpdateFamily
<1>3. CASE DeleteFamily(w)
  BY <1>3 DEF DeleteFamily
<1>4. CASE AddMember(w)
  BY <1>4 DEF AddMember, AddMemberWrite
<1>5. CASE Remove(w)
  BY <1>5 DEF Remove
<1>6. CASE AddOwner(w)
  BY <1>6 DEF AddOwner
<1>7. CASE SetIndependent(w)
  BY <1>7 DEF SetIndependent
<1>8. CASE UpdateUser(w)
  BY <1>8 DEF UpdateUser
<1>9. CASE DeleteUser(w)
  BY <1>9 DEF DeleteUser
<1> QED
  BY <1>1, <1>2, <1>3, <1>4, <1>5, <1>6, <1>7, <1>8, <1>9 DEF Serve

\* What the last step of the request of w writes.
Writes(w) ==
  LET j == job[w]
  IN
  \/ /\ j.op = "createFamily" /\ users' = users
     /\ \E f \in Family :
          /\ families[f] = None
          /\ families' = [families EXCEPT ![f] =
                [name |-> j.name, live |-> TRUE,
                 role |-> [v \in User |-> IF v = j.by THEN "OWNER" ELSE "none"]]]
  \/ /\ j.op = "updateFamily" /\ users' = users
     /\ families' = [families EXCEPT ![j.family] = [families[j.family] EXCEPT !.name = j.name]]
  \/ /\ j.op = "deleteFamily" /\ users' = users
     /\ families' = [families EXCEPT ![j.family] = [families[j.family] EXCEPT !.live = FALSE]]
  \/ /\ j.op = "addMember" /\ users[j.user] = None
     /\ users' = [users EXCEPT ![j.user] = [live |-> TRUE, separate |-> FALSE]]
     /\ \E r \in {"MEMBER", "OWNER"} : SetRole(j.family, j.user, r)
  \/ /\ j.op = "remove" /\ users' = users /\ SetRole(j.family, j.user, "none")
  \/ /\ j.op = "addOwner" /\ users' = users
     /\ SetRole(j.family, j.user, IF RoleIn(j.family, j.user) = "none" THEN "none" ELSE "OWNER")
  \/ /\ j.op \in {"setIndependent", "updateUser"} /\ families' = families /\ Live(j.user)
     /\ users' = [users EXCEPT ![j.user] = [users[j.user] EXCEPT !.separate = j.flag]]
  \/ /\ j.op = "deleteUser" /\ families' = families
     /\ users' = [users EXCEPT ![j.user] = [users[j.user] EXCEPT !.live = FALSE]]
  \/ UNCHANGED tables

LEMMA ServesWrite ==
  ASSUME TypeOK, NEW w \in Worker, Serve(w), pc[w] = "write"
  PROVE  Written(w) /\ Writes(w)
<1> USE DEF Check, At, tables, Writes
<1>1. CASE CreateFamily(w)
  BY <1>1 DEF CreateFamily
<1>2. CASE UpdateFamily(w)
  BY <1>2 DEF UpdateFamily
<1>3. CASE DeleteFamily(w)
  BY <1>3 DEF DeleteFamily
<1>4. CASE AddMember(w)
  BY <1>4 DEF AddMember, AddMemberWrite
<1>5. CASE Remove(w)
  BY <1>5 DEF Remove
<1>6. CASE AddOwner(w)
  BY <1>6 DEF AddOwner
<1>7. CASE SetIndependent(w)
  BY <1>7 DEF SetIndependent, WriteSeparate
<1>8. CASE UpdateUser(w)
  BY <1>8 DEF UpdateUser, WriteSeparate
<1>9. CASE DeleteUser(w)
  BY <1>9 DEF DeleteUser
<1> QED
  BY <1>1, <1>2, <1>3, <1>4, <1>5, <1>6, <1>7, <1>8, <1>9 DEF Serve

-----------------------------------------------------------------------------
(* Type correctness.                                                       *)

LEMMA InitTypeOK == Init => TypeOK
<1> SUFFICES ASSUME Init PROVE TypeOK
  OBVIOUS
<1>1. {None, [live |-> TRUE, separate |-> TRUE]} \subseteq UserRow \cup {None}
  BY DEF UserRow
<1>2. users \in [User -> UserRow \cup {None}]
  BY <1>1 DEF Init
<1>3. families \in [Family -> FamilyRow \cup {None}] /\ \A f \in Family : families[f] = None
  BY DEF Init
<1>4. pc \in [Worker -> PC] /\ \A w \in Worker : pc[w] = "idle" /\ job[w] = None
  BY DEF Init, PC
<1>5. job \in [Worker -> Job \cup {None}] /\ requests \in 0..MaxRequests /\ overlapped = FALSE
  BY FamilyAssumption DEF Init
<1> QED
  BY <1>2, <1>3, <1>4, <1>5 DEF TypeOK

\* Members have accounts.
HaveAccounts ==
  \A f \in Family, u \in User : families[f] # None /\ RoleIn(f, u) # "none" => users[u] # None

LEMMA WritesTyped ==
  ASSUME TypeOK, Named, NEW w \in Worker, Serve(w), pc[w] = "write"
  PROVE  /\ users' \in [User -> UserRow \cup {None}]
         /\ families' \in [Family -> FamilyRow \cup {None}]
         /\ HaveAccounts'
         /\ \A f \in Family : families[f] # None => families'[f] # None
         /\ \A u \in User : users[u] # None => users'[u] # None
<1> DEFINE f == job[w].family
           u == job[w].user
<1>1. /\ job[w] \in Job /\ Names(job[w]) /\ Writes(w)
      /\ families \in [Family -> FamilyRow \cup {None}]
      /\ users \in [User -> UserRow \cup {None}]
      /\ HaveAccounts
  BY ServesWrite DEF TypeOK, Named, HaveAccounts
<1> USE <1>1, FamilyAssumption DEF HaveAccounts, RoleIn
<1>2. ASSUME NEW g \in Family, NEW r \in FamilyRow, families' = [families EXCEPT ![g] = r],
             users' = users,
             \A v \in User : r.role[v] # "none" =>
               users[v] # None \/ (families[g] # None /\ families[g].role[v] # "none")
      PROVE  /\ users' \in [User -> UserRow \cup {None}]
             /\ families' \in [Family -> FamilyRow \cup {None}]
             /\ HaveAccounts'
             /\ \A h \in Family : families[h] # None => families'[h] # None
             /\ \A v \in User : users[v] # None => users'[v] # None
  BY <1>2
<1>3. CASE job[w].op = "createFamily" /\ ~UNCHANGED tables
  <2>1. job[w].by \in User /\ users[job[w].by] # None /\ job[w].name \in Name /\ users' = users
    BY <1>3 DEF Names, Writes
  <2>2. PICK g \in Family :
          families' = [families EXCEPT ![g] =
               [name |-> job[w].name, live |-> TRUE,
                role |-> [v \in User |-> IF v = job[w].by THEN "OWNER" ELSE "none"]]]
    BY <1>3 DEF Writes
  <2>3. [name |-> job[w].name, live |-> TRUE,
         role |-> [v \in User |-> IF v = job[w].by THEN "OWNER" ELSE "none"]] \in FamilyRow
    BY <2>1 DEF FamilyRow, Role
  <2> QED
    BY <1>2, <2>1, <2>2, <2>3
<1>4. CASE job[w].op = "updateFamily" /\ ~UNCHANGED tables
  <2>1. /\ f \in Family /\ families[f] \in FamilyRow /\ job[w].name \in Name /\ users' = users
        /\ families' = [families EXCEPT ![f] = [families[f] EXCEPT !.name = job[w].name]]
    BY <1>4 DEF Names, Writes, OfFamily
  <2>2. /\ [families[f] EXCEPT !.name = job[w].name] \in FamilyRow
        /\ [families[f] EXCEPT !.name = job[w].name].role = families[f].role
    BY <2>1 DEF FamilyRow
  <2>3. PICK r \in FamilyRow : families' = [families EXCEPT ![f] = r] /\ r.role = families[f].role
    BY <2>1, <2>2
  <2>4. f \in Family /\ users' = users /\ families[f] # None
    BY <2>1
  <2> QED
    BY <1>2, <2>3, <2>4
<1>5. CASE job[w].op = "deleteFamily" /\ ~UNCHANGED tables
  <2>1. /\ f \in Family /\ families[f] \in FamilyRow /\ users' = users
        /\ families' = [families EXCEPT ![f] = [families[f] EXCEPT !.live = FALSE]]
    BY <1>5 DEF Names, Writes, OfFamily
  <2>2. /\ [families[f] EXCEPT !.live = FALSE] \in FamilyRow
        /\ [families[f] EXCEPT !.live = FALSE].role = families[f].role
    BY <2>1 DEF FamilyRow
  <2>3. PICK r \in FamilyRow : families' = [families EXCEPT ![f] = r] /\ r.role = families[f].role
    BY <2>1, <2>2
  <2>4. f \in Family /\ users' = users /\ families[f] # None
    BY <2>1
  <2> QED
    BY <1>2, <2>3, <2>4
<1>6. CASE job[w].op \in OfOwner \ {"setIndependent"} /\ ~UNCHANGED tables
  <2>1. f \in Family /\ families[f] \in FamilyRow /\ u \in User
    BY <1>6 DEF Names, OfOwner
  <2>2. /\ \A v \in User : users[v] # None => users'[v] # None
        /\ users' \in [User -> UserRow \cup {None}]
        /\ \E r \in Role : SetRole(f, u, r) /\ (r # "none" => users'[u] # None)
    <3>1. CASE job[w].op = "addMember"
      <4>1. users' = [users EXCEPT ![u] = [live |-> TRUE, separate |-> FALSE]]
        BY <1>6, <3>1 DEF Writes
      <4>2. [live |-> TRUE, separate |-> FALSE] \in UserRow
        BY DEF UserRow
      <4>3. PICK r \in Role : SetRole(f, u, r)
        BY <1>6, <3>1 DEF Writes, Role
      <4> QED
        BY <2>1, <4>1, <4>2, <4>3
    <3>2. CASE job[w].op = "remove"
      <4>1. users' = users /\ SetRole(f, u, "none")
        BY <1>6, <3>2 DEF Writes
      <4> QED
        BY <4>1 DEF Role
    <3>3. CASE job[w].op = "addOwner"
      <4>1. users' = users /\ SetRole(f, u, IF families[f].role[u] = "none" THEN "none" ELSE "OWNER")
        BY <1>6, <3>3 DEF Writes
      <4>2. CASE families[f].role[u] = "none"
        BY <4>1, <4>2 DEF Role
      <4>3. CASE families[f].role[u] # "none"
        BY <2>1, <4>1, <4>3 DEF Role
      <4> QED
        BY <4>2, <4>3
    <3> QED
      BY <1>6, <3>1, <3>2, <3>3 DEF OfOwner
  <2>3. PICK r \in Role : SetRole(f, u, r) /\ (r # "none" => users'[u] # None)
    BY <2>2
  <2>4. [families[f] EXCEPT !.role[u] = r] \in FamilyRow
    BY <2>1 DEF FamilyRow
  <2>5. families' = [families EXCEPT ![f] = [families[f] EXCEPT !.role[u] = r]]
    BY <2>3 DEF SetRole
  <2>6. ASSUME NEW g \in Family, NEW v \in User, families'[g] # None, families'[g].role[v] # "none"
        PROVE  users'[v] # None
    <3>1. CASE g = f
      BY <2>1, <2>2, <2>3, <2>5, <2>6, <3>1 DEF FamilyRow
    <3>2. CASE g # f
      BY <2>1, <2>2, <2>5, <2>6, <3>2
    <3> QED
      BY <3>1, <3>2
  <2> QED
    BY <2>1, <2>2, <2>4, <2>5, <2>6
<1>7. CASE job[w].op \in OfUser \cup {"setIndependent"} /\ ~UNCHANGED tables
  <2>1. u \in User /\ users[u] \in UserRow /\ families' = families /\ job[w].flag \in BOOLEAN
    BY <1>7 DEF Names, OfOwner, OfUser, Live, Job, Writes
  <2>2. PICK r \in UserRow : users' = [users EXCEPT ![u] = r]
    BY <1>7, <2>1 DEF OfUser, UserRow, Writes
  <2> QED
    BY <2>1, <2>2
<1>8. CASE UNCHANGED tables
  BY <1>8 DEF tables
<1> QED
  BY <1>3, <1>4, <1>5, <1>6, <1>7, <1>8 DEF Job, Op, OfOwner, OfUser

\* Named and the rows of the tables for each shape of a step.
LEMMA BeginsKeep ==
  ASSUME TypeOK, Named, Alone, NEW w \in Worker, Begins(w)
  PROVE  TypeOK' /\ Named' /\ Alone'
<1>1. PICK j \in Job, l \in {"user", "family"} :
        Goto(w, l) /\ job' = [job EXCEPT ![w] = j] /\ Names(j)
  BY DEF Begins
<1>2. pc[w] = "idle" /\ users' = users /\ families' = families /\ requests' = requests + 1
      /\ requests < MaxRequests
      /\ overlapped' = (overlapped \/ \E v \in Worker \ {w} : pc[v] # "idle")
  BY DEF Begins, tables
<1>3. TypeOK'
  BY <1>1, <1>2, FamilyAssumption DEF TypeOK, Goto, PC, RoleIn
<1>4. Named'
  BY <1>1, <1>2 DEF TypeOK, Goto, Named, Names
<1>5. Alone'
  BY <1>1, <1>2 DEF TypeOK, Goto, Alone
<1> QED
  BY <1>3, <1>4, <1>5

LEMMA DecidesKeep ==
  ASSUME TypeOK, Named, Alone, NEW w \in Worker, Decides(w)
  PROVE  TypeOK' /\ Named' /\ Alone'
<1>1. pc[w] # "idle" /\ users' = users /\ families' = families /\ requests' = requests
      /\ overlapped' = overlapped
  BY DEF Decides, tables
<1>2. CASE Respond(w)
  BY <1>1, <1>2 DEF Respond, Goto, TypeOK, PC, Named, Names, Alone, RoleIn
<1>3. ASSUME NEW l \in PC \ {"idle"}, Goto(w, l), job' = job
      PROVE  TypeOK' /\ Named' /\ Alone'
  BY <1>1, <1>3 DEF Goto, TypeOK, Named, Names, Alone, RoleIn
<1> QED
  BY <1>2, <1>3 DEF Decides

LEMMA WritesKeep ==
  ASSUME TypeOK, Named, Alone, NEW w \in Worker, Serve(w), pc[w] = "write"
  PROVE  TypeOK' /\ Named' /\ Alone'
<1>1. /\ pc' = [pc EXCEPT ![w] = "idle"] /\ job' = [job EXCEPT ![w] = None]
      /\ requests' = requests /\ overlapped' = overlapped
  BY ServesWrite DEF Written, Respond, Goto
<1>2. TypeOK'
  BY <1>1, WritesTyped DEF TypeOK, HaveAccounts, PC
<1>3. Named'
  BY <1>1, WritesTyped DEF Named, Names, TypeOK
<1>4. Alone'
  BY <1>1 DEF Alone, TypeOK
<1> QED
  BY <1>2, <1>3, <1>4

LEMMA NextKeeps == TypeOK /\ Named /\ Alone /\ [Next]_vars => TypeOK' /\ Named' /\ Alone'
<1> SUFFICES ASSUME TypeOK, Named, Alone, [Next]_vars
             PROVE  TypeOK' /\ Named' /\ Alone'
  OBVIOUS
<1>1. ASSUME NEW w \in Worker, Requests(w)
      PROVE  TypeOK' /\ Named' /\ Alone'
  BY <1>1, RequestsBegin, BeginsKeep
<1>2. ASSUME NEW w \in Worker, Serve(w)
      PROVE  TypeOK' /\ Named' /\ Alone'
  BY <1>2, ServesDecide, DecidesKeep, WritesKeep
<1>3. CASE UNCHANGED vars
  BY <1>3 DEF vars, TypeOK, Named, Names, Alone, RoleIn
<1> QED
  BY <1>1, <1>2, <1>3 DEF Next

\* No step leaves the types, and nobody is a member without an account.
THEOREM TypeCorrect == Spec => []TypeOK
<1>1. Init => TypeOK /\ Named /\ Alone
  BY InitTypeOK DEF Init, Named, Alone
<1>2. TypeOK /\ Named /\ Alone /\ [Next]_vars => (TypeOK /\ Named /\ Alone)'
  BY NextKeeps
<1> QED
  BY <1>1, <1>2, PTL DEF Spec

-----------------------------------------------------------------------------
(* What a request has read holds until it writes.                          *)

\* Requests that do not overlap leave each other alone.
LEMMA OthersIdle ==
  ASSUME Alone, ~overlapped, NEW w \in Worker, pc[w] # "idle"
  PROVE  \A v \in Worker \ {w} : pc[v] = "idle"
BY DEF Alone

LEMMA ReadsOfOne ==
  ASSUME TypeOK, Alone, NEW w \in Worker, pc[w] # "idle", UNCHANGED overlapped,
         \A v \in Worker \ {w} : pc'[v] = pc[v],
         ~overlapped /\ pc'[w] # "idle" => ReadBy(w)'
  PROVE  Reads'
<1> SUFFICES ASSUME ~overlapped', NEW v \in Worker, pc'[v] # "idle"
             PROVE  ReadBy(v)'
  BY DEF Reads
<1>1. ~overlapped
  OBVIOUS
<1>2. v = w
  BY <1>1, OthersIdle
<1> QED
  BY <1>1, <1>2

LEMMA ServesRead ==
  ASSUME TypeOK, Named, Alone, Reads, NEW w \in Worker, Serve(w)
  PROVE  Reads'
<1>1. pc[w] # "idle" /\ pc' = [pc EXCEPT ![w] = pc'[w]] /\ UNCHANGED overlapped
  BY ServesDecide, ServesWrite DEF Decides, Written, Respond, Goto, TypeOK
<1>2. \A v \in Worker \ {w} : pc'[v] = pc[v]
  BY <1>1 DEF TypeOK
<1>3. CASE pc[w] = "write"
  <2>1. pc'[w] = "idle"
    BY <1>3, ServesWrite DEF Written, Respond, Goto, TypeOK
  <2> QED
    BY <1>1, <1>2, <2>1, ReadsOfOne
<1>4. ASSUME pc[w] # "write", ~overlapped, pc'[w] # "idle"
      PROVE  ReadBy(w)'
  <2>1. UNCHANGED <<users, families, job>>
    BY <1>4, ServesDecide DEF Decides, Respond, Goto, TypeOK, tables
  <2>2. job[w] \in Job /\ ReadBy(w)
    BY <1>1, <1>4 DEF TypeOK, Reads
  <2> USE DEF ReadBy, At, Check, Goto, Respond, TypeOK
  <2>3. CASE CreateFamily(w)
    BY <1>1, <1>4, <2>1, <2>2, <2>3 DEF CreateFamily, NameTaken, Exists
  <2>4. CASE UpdateFamily(w)
    BY <1>1, <1>4, <2>1, <2>2, <2>4 DEF UpdateFamily, NameTaken, Exists
  <2>5. CASE Remove(w)
    BY <1>1, <1>4, <2>1, <2>2, <2>5 DEF Remove, MayRemove, RoleIn
  <2>6. CASE SetIndependent(w)
    BY <1>1, <1>4, <2>1, <2>2, <2>6 DEF SetIndependent, Manages
  <2>7. CASE DeleteFamily(w) \/ AddMember(w) \/ AddOwner(w) \/ UpdateUser(w) \/ DeleteUser(w)
    BY <1>4, <2>1, <2>7 DEF DeleteFamily, AddMember, AddMemberWrite, AddOwner, UpdateUser,
                            DeleteUser
  <2> QED
    BY <2>3, <2>4, <2>5, <2>6, <2>7 DEF Serve
<1> QED
  BY <1>1, <1>2, <1>3, <1>4, ReadsOfOne

LEMMA BeginsRead ==
  ASSUME TypeOK, Reads, Alone, NEW w \in Worker, Begins(w)
  PROVE  Reads'
<1> SUFFICES ASSUME ~overlapped', NEW v \in Worker, pc'[v] # "idle"
             PROVE  ReadBy(v)'
  BY DEF Reads
<1>1. PICK j \in Job, l \in {"user", "family"} :
        Goto(w, l) /\ job' = [job EXCEPT ![w] = j] /\ Names(j)
  BY DEF Begins
<1>2. \A x \in Worker \ {w} : pc[x] = "idle"
  BY DEF Begins
<1>3. v = w /\ pc'[v] \in {"user", "family"}
  BY <1>1, <1>2 DEF Goto, TypeOK
<1> QED
  BY <1>3 DEF ReadBy, At

-----------------------------------------------------------------------------
(* Families keep an owner and a name of their own.                         *)

HasOwner(f) == \E u \in User : RoleIn(f, u) = "OWNER"

LEMMA WriteKeepsOwners ==
  ASSUME TypeOK, Named, Reads, ~overlapped, NEW w \in Worker, Serve(w), pc[w] = "write",
         \A f \in Family : families[f] # None => HasOwner(f)
  PROVE  \A f \in Family : families'[f] # None => HasOwner(f)'
<1> DEFINE f == job[w].family
           u == job[w].user
<1>1. job[w] \in Job /\ Names(job[w]) /\ Writes(w) /\ ReadBy(w)
  BY ServesWrite DEF TypeOK, Named, Reads
<1>2. /\ families \in [Family -> FamilyRow \cup {None}] /\ HaveAccounts
      /\ None \notin FamilyRow
  BY FamilyAssumption DEF TypeOK, HaveAccounts
<1>3. CASE families' = families
  BY <1>3 DEF HasOwner, RoleIn
<1>4. ASSUME NEW g \in Family, NEW r \in FamilyRow, families' = [families EXCEPT ![g] = r],
             \E v \in User : r.role[v] = "OWNER"
      PROVE  \A h \in Family : families'[h] # None => HasOwner(h)'
  BY <1>2, <1>4 DEF HasOwner, RoleIn
<1>5. CASE job[w].op = "createFamily" /\ families' # families
  <2>1. job[w].by \in User /\ job[w].name \in Name
    BY <1>1, <1>5 DEF Names
  <2> DEFINE r == [name |-> job[w].name, live |-> TRUE,
                   role |-> [v \in User |-> IF v = job[w].by THEN "OWNER" ELSE "none"]]
  <2>2. r \in FamilyRow /\ r.role[job[w].by] = "OWNER"
    BY <2>1 DEF FamilyRow, Role
  <2>3. PICK g \in Family : families' = [families EXCEPT ![g] = r]
    BY <1>1, <1>5 DEF Writes, tables
  <2> QED
    BY <1>4, <2>1, <2>2, <2>3
<1>6. CASE job[w].op \in OfFamily /\ families' # families
  <2>1. f \in Family /\ families[f] \in FamilyRow
    BY <1>1, <1>2, <1>6 DEF Names
  <2>2. PICK r \in FamilyRow :
          families' = [families EXCEPT ![f] = r] /\ r.role = families[f].role
    <3>1. CASE job[w].op = "updateFamily"
      BY <1>1, <1>6, <2>1, <3>1 DEF Writes, FamilyRow, Names, tables
    <3>2. CASE job[w].op = "deleteFamily"
      BY <1>1, <1>6, <2>1, <3>2 DEF Writes, FamilyRow, tables
    <3> QED
      BY <1>6, <3>1, <3>2 DEF OfFamily
  <2>3. PICK v \in User : families[f].role[v] = "OWNER"
    BY <1>2, <2>1 DEF HasOwner, RoleIn
  <2> QED
    BY <1>4, <2>1, <2>2, <2>3
<1>7. CASE job[w].op \in OfOwner /\ families' # families
  <2>1. f \in Family /\ families[f] \in FamilyRow /\ families[f] # None /\ u \in User
    BY <1>1, <1>2, <1>7 DEF Names
  <2>2. PICK v \in User : families[f].role[v] = "OWNER"
    BY <2>1 DEF HasOwner, RoleIn
  <2>3. PICK r \in Role :
          /\ families' = [families EXCEPT ![f] = [families[f] EXCEPT !.role[u] = r]]
          /\ r = "OWNER" \/ \E x \in User \ {u} : families[f].role[x] = "OWNER"
    <3>1. CASE job[w].op = "addMember"
      <4>1. PICK r \in Role :
              families' = [families EXCEPT ![f] = [families[f] EXCEPT !.role[u] = r]]
        BY <1>1, <1>7, <3>1 DEF Writes, Role, tables, SetRole
      <4>2. users[u] = None
        BY <1>1, <1>7, <3>1 DEF Writes, tables
      <4>3. v # u
        BY <1>2, <2>1, <2>2, <4>2 DEF HaveAccounts, RoleIn
      <4> QED
        BY <2>2, <4>1, <4>3
    <3>2. CASE job[w].op = "remove"
      <4>1. families' = [families EXCEPT ![f] = [families[f] EXCEPT !.role[u] = "none"]]
        BY <1>1, <1>7, <3>2 DEF Writes, tables, SetRole
      <4>2. job[w].by \in User \ {u} /\ families[f].role[job[w].by] = "OWNER"
        BY <1>1, <1>7, <3>2 DEF ReadBy, RoleIn, Names
      <4> QED
        BY <4>1, <4>2 DEF Role
    <3>3. CASE job[w].op = "addOwner"
      <4>1. PICK r \in Role :
              /\ families' = [families EXCEPT ![f] = [families[f] EXCEPT !.role[u] = r]]
              /\ families[f].role[u] = "none" \/ r = "OWNER"
        BY <1>1, <1>7, <3>3 DEF Writes, tables, SetRole, RoleIn, Role
      <4> QED
        BY <2>2, <4>1
    <3>4. CASE job[w].op = "setIndependent"
      BY <1>1, <1>7, <3>4 DEF Writes, tables
    <3> QED
      BY <1>7, <3>1, <3>2, <3>3, <3>4 DEF OfOwner
  <2>4. [families[f] EXCEPT !.role[u] = r] \in FamilyRow
    BY <2>1 DEF FamilyRow
  <2>5. \E x \in User : [families[f] EXCEPT !.role[u] = r].role[x] = "OWNER"
    BY <2>1, <2>3 DEF FamilyRow
  <2> QED
    BY <1>4, <2>1, <2>3, <2>4, <2>5
<1>8. CASE job[w].op \in OfUser
  BY <1>1, <1>3, <1>8 DEF Writes, OfUser, tables
<1> QED
  BY <1>1, <1>3, <1>5, <1>6, <1>7, <1>8 DEF Job, Op, OfOwner, OfFamily, OfUser

NamesDiffer == \A f, g \in Family : f # g /\ Exists(f) /\ Exists(g) => families[f].name # families[g].name

LEMMA WriteKeepsNames ==
  ASSUME TypeOK, Named, Reads, ~overlapped, NEW w \in Worker, Serve(w), pc[w] = "write",
         NamesDiffer
  PROVE  NamesDiffer'
<1> DEFINE f == job[w].family
<1>1. job[w] \in Job /\ Names(job[w]) /\ Writes(w) /\ ReadBy(w)
  BY ServesWrite DEF TypeOK, Named, Reads
<1>2. /\ families \in [Family -> FamilyRow \cup {None}]
      /\ None \notin FamilyRow
  BY FamilyAssumption DEF TypeOK
<1>3. CASE families' = families
  BY <1>3 DEF NamesDiffer, Exists
<1>4. ASSUME NEW g \in Family, NEW r \in FamilyRow, families' = [families EXCEPT ![g] = r],
             \/ ~r.live
             \/ \A h \in Family \ {g} : Exists(h) => families[h].name # r.name
      PROVE  NamesDiffer'
  BY <1>2, <1>4 DEF NamesDiffer, Exists
<1>5. ASSUME NEW g \in Family, NEW r \in FamilyRow, families' = [families EXCEPT ![g] = r],
             families[g] # None, r.live => families[g].live, r.name = families[g].name
      PROVE  NamesDiffer'
  BY <1>2, <1>5 DEF NamesDiffer, Exists
<1>6. CASE job[w].op = "createFamily" /\ families' # families
  <2>1. job[w].by \in User /\ job[w].name \in Name /\ ~NameTaken(job[w].name)
    BY <1>1, <1>6 DEF Names, ReadBy, At
  <2>2. PICK g \in Family, r \in FamilyRow :
          families' = [families EXCEPT ![g] = r] /\ r.name = job[w].name
    BY <1>1, <1>6, <2>1 DEF Writes, FamilyRow, Role, tables
  <2> QED
    BY <1>4, <2>1, <2>2 DEF NameTaken
<1>7. CASE job[w].op = "updateFamily" /\ families' # families
  <2>1. f \in Family /\ families[f] \in FamilyRow /\ families[f] # None /\ job[w].name \in Name
    BY <1>1, <1>2, <1>7 DEF Names, OfFamily
  <2>2. PICK r \in FamilyRow :
          /\ families' = [families EXCEPT ![f] = r]
          /\ r.name = job[w].name /\ r.live = families[f].live
    BY <1>1, <1>7, <2>1 DEF Writes, FamilyRow, tables
  <2>3. families[f].name = job[w].name \/ ~NameTaken(job[w].name)
    BY <1>1, <1>7 DEF ReadBy, At
  <2>4. CASE families[f].name = job[w].name
    BY <1>5, <2>1, <2>2, <2>4
  <2>5. CASE ~NameTaken(job[w].name)
    BY <1>4, <2>1, <2>2, <2>5 DEF NameTaken
  <2> QED
    BY <2>3, <2>4, <2>5
<1>8. CASE job[w].op = "deleteFamily" /\ families' # families
  <2>1. f \in Family /\ families[f] \in FamilyRow
    BY <1>1, <1>2, <1>8 DEF Names, OfFamily
  <2> DEFINE r == [families[f] EXCEPT !.live = FALSE]
  <2>2. r \in FamilyRow /\ ~r.live
    BY <2>1 DEF FamilyRow
  <2>3. families' = [families EXCEPT ![f] = r]
    BY <1>1, <1>8 DEF Writes, tables
  <2> QED
    BY <1>4, <2>1, <2>2, <2>3
<1>9. CASE job[w].op \in OfOwner /\ families' # families
  <2>1. f \in Family /\ families[f] \in FamilyRow /\ families[f] # None /\ job[w].user \in User
    BY <1>1, <1>2, <1>9 DEF Names
  <2>2. PICK r \in Role :
          families' = [families EXCEPT ![f] = [families[f] EXCEPT !.role[job[w].user] = r]]
    BY <1>1, <1>9 DEF Writes, Role, tables, SetRole, OfOwner
  <2>3. [families[f] EXCEPT !.role[job[w].user] = r] \in FamilyRow
    BY <2>1 DEF FamilyRow
  <2>4. PICK s \in FamilyRow :
          /\ families' = [families EXCEPT ![f] = s]
          /\ s.name = families[f].name /\ s.live = families[f].live
    BY <2>1, <2>2, <2>3 DEF FamilyRow
  <2> QED
    BY <1>5, <2>1, <2>4
<1>10. CASE job[w].op \in OfUser
  BY <1>1, <1>3, <1>10 DEF Writes, OfUser, tables
<1> QED
  BY <1>1, <1>3, <1>6, <1>7, <1>8, <1>9, <1>10 DEF Job, Op, OfOwner, OfUser

LEMMA NextFamiliesKept ==
  IInv /\ [Next]_vars => FamiliesKept'
<1> SUFFICES ASSUME IInv, [Next]_vars, ~overlapped'
             PROVE  (\A f \in Family : families'[f] # None => HasOwner(f)') /\ NamesDiffer'
  BY DEF FamiliesKept, HasOwner, NamesDiffer, RoleIn, Exists
<1>1. ~overlapped => (\A f \in Family : families[f] # None => HasOwner(f)) /\ NamesDiffer
  BY DEF IInv, FamiliesKept, HasOwner, NamesDiffer
<1>2. CASE families' = families /\ ~overlapped
  BY <1>1, <1>2 DEF HasOwner, NamesDiffer, RoleIn, Exists
<1>3. ASSUME NEW w \in Worker, Requests(w)
      PROVE  families' = families /\ ~overlapped
  BY <1>3, RequestsBegin DEF Begins, IInv, tables, TypeOK
<1>4. ASSUME NEW w \in Worker, Serve(w), pc[w] # "write"
      PROVE  families' = families /\ ~overlapped
  BY <1>4, ServesDecide DEF Decides, IInv, tables
<1>5. ASSUME NEW w \in Worker, Serve(w), pc[w] = "write"
      PROVE  (\A f \in Family : families'[f] # None => HasOwner(f)') /\ NamesDiffer'
  <2>1. ~overlapped
    BY <1>5, ServesWrite DEF Written, IInv
  <2> QED
    BY <1>1, <1>5, <2>1, WriteKeepsOwners, WriteKeepsNames DEF IInv
<1>6. CASE UNCHANGED vars
  BY <1>2, <1>6 DEF vars
<1> QED
  BY <1>2, <1>3, <1>4, <1>5, <1>6 DEF Next

LEMMA NextIInv == IInv /\ [Next]_vars => IInv'
<1> SUFFICES ASSUME IInv, [Next]_vars PROVE IInv'
  OBVIOUS
<1>1. TypeOK' /\ Named' /\ Alone'
  BY NextKeeps DEF IInv
<1>2. Reads'
  <2>1. ASSUME NEW w \in Worker, Requests(w) PROVE Reads'
    BY <2>1, RequestsBegin, BeginsRead DEF IInv
  <2>2. ASSUME NEW w \in Worker, Serve(w) PROVE Reads'
    BY <2>2, ServesRead DEF IInv
  <2>3. CASE UNCHANGED vars
    BY <2>3 DEF vars, IInv, Reads, ReadBy, At, NameTaken, Exists, RoleIn
  <2> QED
    BY <2>1, <2>2, <2>3 DEF Next
<1> QED
  BY <1>1, <1>2, NextFamiliesKept DEF IInv

LEMMA Inductive == Spec => []IInv
<1>1. Init => IInv
  BY InitTypeOK DEF Init, IInv, Named, Alone, Reads, FamiliesKept, Exists
<1> QED
  BY <1>1, NextIInv, PTL DEF Spec

\* Families keep an owner and names are not shared until requests overlap,
\* whoever was added, promoted and removed before.
THEOREM FamiliesAreKept == Spec => []FamiliesKept
<1>1. IInv => FamiliesKept
  BY DEF IInv
<1> QED
  BY <1>1, Inductive, PTL

-----------------------------------------------------------------------------
(* Independence.                                                           *)

\* The writes that end an account's independence.
LEMMA StepIndependence ==
  ASSUME IInv, [Next]_vars, NEW u \in User, Live(u), users[u].separate, ~users'[u].separate,
         ~overlapped
  PROVE  \E w \in Worker : pc[w] = "write" /\ pc'[w] = "idle" /\ job[w].op = "updateUser"
                           /\ job[w].user = u /\ job[w].by \in {u, None}
<1>1. users' # users
  OBVIOUS
<1>2. PICK w \in Worker : Serve(w) /\ pc[w] = "write"
  BY <1>1, RequestsBegin, ServesDecide DEF Next, vars, Begins, Decides, tables, IInv
<1>3. job[w] \in Job /\ Names(job[w]) /\ Writes(w) /\ ReadBy(w) /\ pc'[w] = "idle"
      /\ users \in [User -> UserRow \cup {None}]
  BY <1>2, ServesWrite DEF IInv, TypeOK, Named, Reads, Written, Respond, Goto
<1>4. job[w].op \in {"addMember", "setIndependent", "updateUser", "deleteUser"}
  BY <1>1, <1>3 DEF Writes, tables
<1>5. job[w].op # "addMember"
  BY <1>1, <1>3 DEF Writes, Names, OfOwner, Live, tables
<1>6. job[w].op # "deleteUser"
  BY <1>1, <1>3 DEF Writes, Names, OfUser, Live, tables, UserRow
<1>7. job[w].op \in {"setIndependent", "updateUser"} => job[w].user = u
  BY <1>1, <1>3 DEF Writes, Names, OfOwner, OfUser, Live, tables, UserRow
<1>8. job[w].op # "setIndependent"
  BY <1>2, <1>3, <1>7 DEF ReadBy
<1> QED
  BY <1>2, <1>3, <1>4, <1>5, <1>6, <1>7, <1>8 DEF Names, OfUser

\* An independent account goes back to its family only by its user or an admin.
THEOREM IndependenceIsKept == Spec => IndependenceKept
<1> DEFINE Step == \A u \in User :
                     Live(u) /\ users[u].separate /\ ~users'[u].separate =>
                       \/ overlapped
                       \/ \E w \in Worker : pc[w] = "write" /\ pc'[w] = "idle"
                            /\ job[w].op = "updateUser"
                            /\ job[w].user = u /\ job[w].by \in {u, None}
<1>1. IInv /\ [Next]_vars => Step
  BY StepIndependence
<1>2. IndependenceKept <=> [][Step]_vars
  BY DEF IndependenceKept
<1> QED
  BY <1>1, <1>2, Inductive, PTL DEF Spec

=============================================================================
