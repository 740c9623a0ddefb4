------------------------------- MODULE Family -------------------------------
(***************************************************************************)
(* Families, their members and the independence of managed accounts: the   *)
(* tables `families` and `family_members` with the columns of `users` that *)
(* their requests read and write, under the requests of modules family,    *)
(* familyMember and user.                                                  *)
(*                                                                         *)
(* A request is a Worker that makes one database call per step; everything *)
(* it has checked may have changed when it writes.                         *)
(***************************************************************************)
EXTENDS Naturals, FiniteSets

CONSTANTS
  User,        \* user ids; a user's email is its own
  Family,      \* family ids
  Name,        \* family names
  Worker,      \* requests in flight at the same time
  MaxRequests, \* bound: requests
  None         \* no row, no request

VARIABLES
  users,       \* users[u]: the row of u, or None
  families,    \* families[f]: the row of f with its members, or None
  pc, job,     \* pc[w], job[w]: next call and local state of request w
  requests,
  overlapped   \* history: some request has started while another was in flight

tables == <<users, families>>
vars == <<users, families, pc, job, requests, overlapped>>

\* separate is hasSeparateAccount: FALSE for an account its family manages.
UserRow == [live : BOOLEAN, separate : BOOLEAN]
Role == {"none", "MEMBER", "OWNER"}
FamilyRow == [name : Name, live : BOOLEAN, role : [User -> Role]]

Op == {"createFamily", "updateFamily", "deleteFamily", "addMember", "remove", "addOwner",
       "setIndependent", "updateUser", "deleteUser"}

\* by: the user who asks, or None for an admin.  user: the other user it is
\* about.  flag: the value to be written.
Job == [op : Op, by : User \cup {None}, family : Family \cup {None}, user : User \cup {None},
        name : Name \cup {None}, flag : BOOLEAN]

PC == {"idle", "user", "family", "name", "actor", "target", "email", "control", "write"}

ASSUME FamilyAssumption ==
  /\ MaxRequests \in Nat
  /\ None \notin UserRow /\ None \notin FamilyRow /\ None \notin Job
  /\ None \notin User /\ None \notin Family /\ None \notin Name

Init ==
  /\ users \in [User -> {None, [live |-> TRUE, separate |-> TRUE]}]
  /\ families = [f \in Family |-> None]
  /\ pc = [w \in Worker |-> "idle"] /\ job = [w \in Worker |-> None]
  /\ requests = 0 /\ overlapped = FALSE

Live(u) == users[u] # None /\ users[u].live
Exists(f) == families[f] # None /\ families[f].live
RoleIn(f, u) == families[f].role[u]
NameTaken(n) == \E f \in Family : Exists(f) /\ families[f].name = n

\* isOwnerOfMember: in some family, not necessarily the one the request names.
OwnerOfMember(a, u) ==
  \E f \in Family : Exists(f) /\ RoleIn(f, a) = "OWNER" /\ RoleIn(f, u) # "none"

Goto(w, l) == pc' = [pc EXCEPT ![w] = l]
Respond(w) == Goto(w, "idle") /\ job' = [job EXCEPT ![w] = None]
At(w, op, l) == pc[w] = l /\ job[w].op = op

\* A call that only decides whether the request goes on.
Check(w, op, l, holds, next) ==
  /\ At(w, op, l)
  /\ IF holds THEN Goto(w, next) /\ UNCHANGED job ELSE Respond(w)
  /\ UNCHANGED <<tables, requests, overlapped>>

\* The last write of a request.
Written(w) == Respond(w) /\ UNCHANGED <<requests, overlapped>>
SetRole(f, u, r) ==
  families' = [families EXCEPT ![f] = [families[f] EXCEPT !.role[u] = r]]

Start(w, by, l) ==
  /\ pc[w] = "idle" /\ requests < MaxRequests
  /\ requests' = requests + 1
  /\ by # None => Live(by)
  /\ overlapped' = (overlapped \/ \E v \in Worker \ {w} : pc[v] # "idle")
  /\ Goto(w, l)
  /\ UNCHANGED tables

-----------------------------------------------------------------------------
(* Families.  Any user may rename or delete any family.                    *)

CreateFamilyStart(w, u, n) ==
  /\ Start(w, u, "user")
  /\ job' = [job EXCEPT ![w] = [op |-> "createFamily", by |-> u, family |-> None,
                                user |-> None, name |-> n, flag |-> FALSE]]

\* The creator is the first owner.
CreateFamily(w) ==
  LET u == job[w].by
      n == job[w].name
  IN
  \/ Check(w, "createFamily", "user", Live(u) /\ users[u].separate, "name")
  \/ Check(w, "createFamily", "name", ~NameTaken(n), "write")
  \/ /\ At(w, "createFamily", "write")
     /\ \E f \in Family :
          /\ families[f] = None
          /\ families' = [families EXCEPT ![f] =
                            [name |-> n, live |-> TRUE,
                             role |-> [v \in User |-> IF v = u THEN "OWNER" ELSE "none"]]]
     /\ UNCHANGED users /\ Written(w)

ChangeFamilyStart(w, op, u, f, n) ==
  /\ families[f] # None
  /\ Start(w, u, "family")
  /\ job' = [job EXCEPT ![w] = [op |-> op, by |-> u, family |-> f,
                                user |-> None, name |-> n, flag |-> FALSE]]

UpdateFamily(w) ==
  LET f == job[w].family
      n == job[w].name
  IN
  \/ Check(w, "updateFamily", "family", Exists(f),
           IF families[f].name = n THEN "write" ELSE "name")
  \/ Check(w, "updateFamily", "name", ~NameTaken(n), "write")
  \/ /\ At(w, "updateFamily", "write")
     /\ families' = [families EXCEPT ![f] = [families[f] EXCEPT !.name = n]]
     /\ UNCHANGED users /\ Written(w)

DeleteFamily(w) ==
  LET f == job[w].family
  IN
  \/ Check(w, "deleteFamily", "family", Exists(f), "write")
  \/ /\ At(w, "deleteFamily", "write")
     /\ families' = [families EXCEPT ![f] = [families[f] EXCEPT !.live = FALSE]]
     /\ UNCHANGED users /\ Written(w)

-----------------------------------------------------------------------------
(* Members.  u names the family and the user the request is about.         *)

MemberStart(w, op, a, f, u, b) ==
  /\ families[f] # None
  /\ Start(w, a, "family")
  /\ job' = [job EXCEPT ![w] = [op |-> op, by |-> a, family |-> f, user |-> u,
                                name |-> None, flag |-> b]]

\* Mutated form: the two inserts are not in one transaction, and the second is
\* tried although the first failed.
AddMemberApart(w) ==
  LET f == job[w].family
      u == job[w].user
  IN
  /\ At(w, "addMember", "write")
  /\ SetRole(f, u, "MEMBER")
  /\ \/ users[u] = None /\ users' = [users EXCEPT ![u] = [live |-> TRUE, separate |-> FALSE]]
     \/ UNCHANGED users
  /\ Written(w)

\* The transaction of addFamilyMember: it fails when the email's row exists, be
\* it a deleted one.  job.flag: as an owner.
AddMemberWrite(w) ==
  LET f == job[w].family
      u == job[w].user
  IN
  /\ At(w, "addMember", "write")
  /\ \/ /\ users[u] = None
        /\ users' = [users EXCEPT ![u] = [live |-> TRUE, separate |-> FALSE]]
        /\ SetRole(f, u, IF job[w].flag THEN "OWNER" ELSE "MEMBER")
     \/ UNCHANGED tables
  /\ Written(w)

AddMember(w) ==
  LET f == job[w].family
      a == job[w].by
  IN
  \/ Check(w, "addMember", "family", Exists(f), "actor")
  \/ Check(w, "addMember", "actor", RoleIn(f, a) = "OWNER", "email")
  \/ Check(w, "addMember", "email", ~Live(job[w].user), "write")
  \/ AddMemberWrite(w)

\* Mutated form: an owner may remove themselves.
MayRemoveSelf(f, a, u) == RoleIn(f, a) = "OWNER"

MayRemove(f, a, u) == RoleIn(f, a) = "OWNER" /\ a # u

\* removeFamilyMember
Remove(w) ==
  LET f == job[w].family
      a == job[w].by
      u == job[w].user
  IN
  \/ Check(w, "remove", "family", Exists(f), "actor")
  \/ Check(w, "remove", "actor", MayRemove(f, a, u), "target")
  \/ Check(w, "remove", "target", RoleIn(f, u) # "none", "write")
  \/ /\ At(w, "remove", "write")
     /\ SetRole(f, u, "none")
     /\ UNCHANGED users /\ Written(w)

\* addFamilyOwner; the update touches nothing when the member has gone.
AddOwner(w) ==
  LET f == job[w].family
      a == job[w].by
      u == job[w].user
  IN
  \/ Check(w, "addOwner", "family", Exists(f), "actor")
  \/ Check(w, "addOwner", "actor", RoleIn(f, a) = "OWNER" /\ a # u, "target")
  \/ Check(w, "addOwner", "target", RoleIn(f, u) # "none", "write")
  \/ /\ At(w, "addOwner", "write")
     /\ SetRole(f, u, IF RoleIn(f, u) = "none" THEN "none" ELSE "OWNER")
     /\ UNCHANGED users /\ Written(w)

-----------------------------------------------------------------------------
(* Independence.                                                           *)

\* Writes of a user's row are refused once it is deleted.
WriteSeparate(w) ==
  LET u == job[w].user
  IN  /\ users' = IF Live(u) THEN [users EXCEPT ![u] = [users[u] EXCEPT !.separate = job[w].flag]]
                  ELSE users
      /\ UNCHANGED families /\ Written(w)

\* Mutated form: owners may take over an account that is independent.
ManagesAny(u) == Live(u)

Manages(u) == Live(u) /\ ~users[u].separate

\* updateOwnerIndependentStatus and the service of users behind it, which reads
\* the row before it asks for the ownership.
SetIndependent(w) ==
  LET f == job[w].family
      a == job[w].by
      u == job[w].user
  IN
  \/ Check(w, "setIndependent", "family", Exists(f), "actor")
  \/ Check(w, "setIndependent", "actor", RoleIn(f, a) = "OWNER", "target")
  \/ Check(w, "setIndependent", "target", RoleIn(f, u) # "none" /\ a # u, "user")
  \/ Check(w, "setIndependent", "user", Manages(u), "control")
  \/ Check(w, "setIndependent", "control", OwnerOfMember(a, u), "write")
  \/ At(w, "setIndependent", "write") /\ WriteSeparate(w)

UserStart(w, op, a, u, b) ==
  /\ users[u] # None
  /\ Start(w, a, "user")
  /\ job' = [job EXCEPT ![w] = [op |-> op, by |-> a, family |-> None, user |-> u,
                                name |-> None, flag |-> b]]

\* updateUser with hasSeparateAccount in the body: by the user or an admin, with
\* no condition on the age.
UpdateUser(w) ==
  LET u == job[w].user
  IN
  \/ Check(w, "updateUser", "user", Live(u) /\ job[w].by \in {u, None}, "write")
  \/ At(w, "updateUser", "write") /\ WriteSeparate(w)

\* deleteUser, by the user or an admin; the memberships stay.
DeleteUser(w) ==
  LET u == job[w].user
  IN
  \/ Check(w, "deleteUser", "user", Live(u) /\ job[w].by \in {u, None}, "write")
  \/ /\ At(w, "deleteUser", "write")
     /\ users' = [users EXCEPT ![u] = [users[u] EXCEPT !.live = FALSE]]
     /\ UNCHANGED families /\ Written(w)

-----------------------------------------------------------------------------
Requests(w) ==
  \E u \in User :
    \/ \E n \in Name : CreateFamilyStart(w, u, n)
    \/ \E f \in Family :
         \/ \E n \in Name : ChangeFamilyStart(w, "updateFamily", u, f, n)
         \/ ChangeFamilyStart(w, "deleteFamily", u, f, None)
         \/ \E v \in User :
              \/ \E b \in BOOLEAN : MemberStart(w, "addMember", u, f, v, b)
              \/ MemberStart(w, "remove", u, f, v, FALSE)
              \/ MemberStart(w, "addOwner", u, f, v, FALSE)
              \/ \E b \in BOOLEAN : MemberStart(w, "setIndependent", u, f, v, b)
    \/ \E a \in {u, None} :
         \/ \E b \in BOOLEAN : UserStart(w, "updateUser", a, u, b)
         \/ UserStart(w, "deleteUser", a, u, FALSE)

Serve(w) ==
  \/ CreateFamily(w)
  \/ UpdateFamily(w)
  \/ DeleteFamily(w)
  \/ AddMember(w)
  \/ Remove(w)
  \/ AddOwner(w)
  \/ SetIndependent(w)
  \/ UpdateUser(w)
  \/ DeleteUser(w)

Next == \E w \in Worker : Requests(w) \/ Serve(w)

Spec == Init /\ [][Next]_vars

-----------------------------------------------------------------------------
\* The last line: nobody is a member who has no account.
TypeOK ==
  /\ users \in [User -> UserRow \cup {None}]
  /\ families \in [Family -> FamilyRow \cup {None}]
  /\ pc \in [Worker -> PC]
  /\ job \in [Worker -> Job \cup {None}]
  /\ requests \in 0..MaxRequests /\ overlapped \in BOOLEAN
  /\ \A w \in Worker : pc[w] = "idle" <=> job[w] = None
  /\ \A f \in Family, u \in User : families[f] # None /\ RoleIn(f, u) # "none" => users[u] # None

\* As long as requests have not overlapped, every family has an owner, whoever was
\* added, promoted and removed, and no two families have the same name.  (Two
\* owners who remove each other at the same time leave a family that nobody can
\* manage; two creations or renamings at the same time may share a name.)
FamiliesKept ==
  ~overlapped =>
    /\ \A f \in Family : families[f] # None => \E u \in User : RoleIn(f, u) = "OWNER"
    /\ \A f, g \in Family : f # g /\ Exists(f) /\ Exists(g) => families[f].name # families[g].name

\* As long as requests have not overlapped, an account that is independent goes
\* back to its family only by a request of its user or of an admin.  (An owner's
\* request that has read the managed account reverts an activation in between.)
IndependenceKept ==
  [][\A u \in User :
       Live(u) /\ users[u].separate /\ ~users'[u].separate =>
         \/ overlapped
         \/ \E w \in Worker : pc[w] = "write" /\ pc'[w] = "idle" /\ job[w].op = "updateUser"
                              /\ job[w].user = u /\ job[w].by \in {u, None}]_vars

=============================================================================
