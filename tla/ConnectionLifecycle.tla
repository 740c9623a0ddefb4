------------------------ MODULE ConnectionLifecycle ------------------------
(***************************************************************************)
(* What the connection API promises about two users: one relation per      *)
(* pair, asked for by one of them, answered by the other, withdrawn by the *)
(* one who asked, dissolved by either.  This holds until requests overlap: *)
(* then every pair is CONTESTED and nothing more is promised.              *)
(***************************************************************************)
CONSTANTS User, None

VARIABLE rel   \* rel[{u, v}]: the status of the pair and who asked last

Pair == {{u, v} : u \in User, v \in User} \ {{u} : u \in User}

Init == rel = [p \in Pair |-> [status |-> "NONE", requester |-> None]]

\* u asks v: only when nothing is pending and they are not connected.
Ask(u, p) ==
  /\ u \in p
  /\ rel[p].status \in {"NONE", "REJECTED", "CANCELED"}
  /\ rel' = [rel EXCEPT ![p] = [status |-> "PENDING", requester |-> u]]

\* The user who was asked answers.
Answer(u, p) ==
  /\ u \in p
  /\ rel[p].status = "PENDING"
  /\ rel[p].requester # u
  /\ \E s \in {"ACCEPTED", "REJECTED"} : rel' = [rel EXCEPT ![p].status = s]

\* The user who asked takes the request back.
Withdraw(u, p) ==
  /\ rel[p].status = "PENDING"
  /\ rel[p].requester = u
  /\ rel' = [rel EXCEPT ![p].status = "CANCELED"]

\* Either of two connected users ends the connection.
Dissolve(u, p) ==
  /\ u \in p
  /\ rel[p].status = "ACCEPTED"
  /\ rel' = [rel EXCEPT ![p].status = "CANCELED"]

\* Two requests were in flight at the same time.
Contest == rel' = [p \in Pair |-> [status |-> "CONTESTED", requester |-> None]]

Next ==
  \/ Contest
  \/ \E u \in User, p \in Pair :
       Ask(u, p) \/ Answer(u, p) \/ Withdraw(u, p) \/ Dissolve(u, p)

Spec == Init /\ [][Next]_rel

=============================================================================
