----------------------- MODULE EventApplicationProofs -----------------------
(***************************************************************************)
(* Proofs about EventApplication for any sets of users, events and         *)
(* concurrent requests and any number of restarts.                         *)
(***************************************************************************)
EXTENDS EventApplication, FiniteSetTheorems, TLAPS

-----------------------------------------------------------------------------
(* Type correctness.                                                       *)

LEMMA InitTypeOK == Init => TypeOK
BY BoundAssumption DEF Init, TypeOK, PC, Key

LEMMA NextTypeOK == TypeOK /\ [Next]_vars => TypeOK'
<1> SUFFICES ASSUME TypeOK, [Next]_vars PROVE TypeOK'
  OBVIOUS
<1> USE NoneAssumption, BoundAssumption DEF TypeOK, PC, Goto, Respond
<1>1. ASSUME NEW w \in Worker, NEW u \in User, NEW e \in Event, ApplyStart(w, u, e)
      PROVE  TypeOK'
  BY <1>1 DEF ApplyStart, Job, Key
<1>2. ASSUME NEW w \in Worker, NEW u \in User, NEW k \in Key, WithdrawStart(w, u, k)
      PROVE  TypeOK'
  BY <1>2 DEF WithdrawStart, Job
<1>3. ASSUME NEW w \in Worker, ApplyLoadEvent(w) PROVE TypeOK'
  BY <1>3 DEF ApplyLoadEvent
<1>4. ASSUME NEW w \in Worker, ApplyInsert(w) PROVE TypeOK'
  <2>1. job[w] \in Job
    BY <1>4 DEF ApplyInsert
  <2> QED
    BY <1>4, <2>1 DEF ApplyInsert, Job
<1>5. ASSUME NEW w \in Worker, ApplyReward(w) PROVE TypeOK'
  <2>1. job[w].key[1] \in User
    BY <1>5 DEF ApplyReward, Job, Key
  <2> QED
    BY <1>5, <2>1 DEF ApplyReward, ApplyPoints
<1>6. ASSUME NEW w \in Worker, ApplyNotify(w) PROVE TypeOK'
  <2>1. job[w].key \in Key
    BY <1>6 DEF ApplyNotify, Job
  <2> QED
    BY <1>6, <2>1 DEF ApplyNotify
<1>7. ASSUME NEW w \in Worker, WithdrawLoad(w) PROVE TypeOK'
  BY <1>7 DEF WithdrawLoad, MayWithdraw
<1>8. ASSUME NEW w \in Worker, WithdrawWrite(w) PROVE TypeOK'
  <2>1. job[w].key \in Key
    BY <1>8 DEF WithdrawWrite, Job
  <2>2. \A v \in Worker : pc[v] # "idle" => job[v].key \in Key
    BY DEF Job
  <2> QED
    BY <1>8, <2>1, <2>2 DEF WithdrawWrite
<1>9. ASSUME NEW e \in Event, NEW s \in {"open", "disabled", "deleted"}, SetEvent(e, s)
      PROVE  TypeOK'
  BY <1>9 DEF SetEvent
<1>10. ASSUME NEW u \in User, DeleteUser(u) PROVE TypeOK'
  BY <1>10 DEF DeleteUser
<1>11. CASE Crash
  <2>1. \A u \in User : Rewarding(u) \subseteq Worker
    BY DEF Rewarding
  <2>2. \A u \in User : Cardinality(Rewarding(u)) \in Nat
    BY <2>1, FiniteAssumption, FS_Subset, FS_CardinalityType
  <2>3. lost' \in [User -> Nat]
    BY <1>11, <2>2 DEF Crash
  <2> QED
    BY <1>11, <2>3 DEF Crash
<1>12. CASE UNCHANGED vars
  BY <1>12 DEF vars
<1> QED
  BY <1>1, <1>2, <1>3, <1>4, <1>5, <1>6, <1>7, <1>8, <1>9, <1>10, <1>11, <1>12 DEF Next

-----------------------------------------------------------------------------
(* What requests in flight may rely on, and what it gives.                 *)

LEMMA NextInFlight ==
  TypeOK /\ InFlight /\ OneNoticePerApplication /\ [Next]_vars => InFlight'
<1> SUFFICES ASSUME TypeOK, InFlight, OneNoticePerApplication, [Next]_vars
             PROVE  InFlight'
  OBVIOUS
<1>1. TypeOK'
  BY NextTypeOK
<1> USE DEF InFlight, PC, Goto, Respond, Notifies
<1>2. ASSUME NEW w \in Worker, NEW u \in User, NEW e \in Event, ApplyStart(w, u, e)
      PROVE  InFlight'
  BY <1>2 DEF ApplyStart, TypeOK
<1>3. ASSUME NEW w \in Worker, NEW u \in User, NEW k \in Key, WithdrawStart(w, u, k)
      PROVE  InFlight'
  BY <1>3 DEF WithdrawStart, TypeOK
<1>4. ASSUME NEW w \in Worker, ApplyLoadEvent(w) PROVE InFlight'
  <2>1. job[w].key[2] \in Event
    BY <1>4 DEF ApplyLoadEvent, TypeOK, Job, Key
  <2> QED
    BY <1>4, <2>1 DEF ApplyLoadEvent, TypeOK
<1>5. ASSUME NEW w \in Worker, ApplyInsert(w) PROVE InFlight'
  <2>1. job[w].key \in Key
    BY <1>5 DEF ApplyInsert, TypeOK, Job
  <2>2. row[job[w].key] = "none" => notices[job[w].key] = 0
    BY <2>1 DEF OneNoticePerApplication, TypeOK
  <2>3. \A v \in Worker :
          pc[v] \in {"reward", "notify"} => row[job[v].key] # "none"
    BY DEF TypeOK
  <2> QED
    BY <1>5, <2>1, <2>2, <2>3 DEF ApplyInsert, TypeOK
<1>6. ASSUME NEW w \in Worker, ApplyReward(w) PROVE InFlight'
  BY <1>6 DEF ApplyReward, TypeOK
<1>7. ASSUME NEW w \in Worker, ApplyNotify(w) PROVE InFlight'
  <2>1. \A v \in Worker : pc[v] # "idle" => job[v].key \in Key
    BY DEF TypeOK, Job
  <2> QED
    BY <1>7, <2>1 DEF ApplyNotify, TypeOK
<1>8. ASSUME NEW w \in Worker, WithdrawLoad(w) PROVE InFlight'
  BY <1>8 DEF WithdrawLoad, MayWithdraw, TypeOK
<1>9. ASSUME NEW w \in Worker, WithdrawWrite(w) PROVE InFlight'
  BY <1>9 DEF WithdrawWrite, TypeOK
<1>10. ASSUME NEW e \in Event, NEW s \in {"open", "disabled", "deleted"}, SetEvent(e, s)
       PROVE  InFlight'
  BY <1>10 DEF SetEvent, TypeOK
<1>11. ASSUME NEW u \in User, DeleteUser(u) PROVE InFlight'
  BY <1>11 DEF DeleteUser
<1>12. CASE Crash
  BY <1>12 DEF Crash
<1>13. CASE UNCHANGED vars
  BY <1>13 DEF vars
<1> QED
  BY <1>2, <1>3, <1>4, <1>5, <1>6, <1>7, <1>8, <1>9, <1>10, <1>11, <1>12, <1>13 DEF Next

LEMMA NextNotices ==
  TypeOK /\ InFlight /\ OneNoticePerApplication /\ [Next]_vars
    => OneNoticePerApplication'
<1> SUFFICES ASSUME TypeOK, InFlight, OneNoticePerApplication, [Next]_vars, NEW k \in Key
             PROVE  notices'[k] <= IF creator'[k[2]] # k[1] /\ row'[k] # "none" THEN 1 ELSE 0
  BY DEF OneNoticePerApplication
<1>1. creator' = creator
  BY DEF Next, vars, ApplyStart, WithdrawStart, ApplyLoadEvent, ApplyInsert, ApplyReward,
         ApplyNotify, WithdrawLoad, WithdrawWrite, SetEvent, DeleteUser, Crash
<1>2. notices[k] <= IF creator[k[2]] # k[1] /\ row[k] # "none" THEN 1 ELSE 0
  BY DEF OneNoticePerApplication
<1>3. row[k] # "none" => row'[k] # "none"
  BY DEF Next, vars, ApplyStart, WithdrawStart, ApplyLoadEvent, ApplyInsert, ApplyReward,
         ApplyNotify, WithdrawLoad, WithdrawWrite, SetEvent, DeleteUser, Crash, TypeOK
<1>4. CASE notices' = notices
  BY <1>1, <1>2, <1>3, <1>4 DEF TypeOK
<1>5. ASSUME NEW w \in Worker, ApplyNotify(w)
      PROVE  notices'[k] <= IF creator'[k[2]] # k[1] /\ row'[k] # "none" THEN 1 ELSE 0
  <2>1. /\ notices[job[w].key] = 0
        /\ Notifies(job[w].key)
        /\ row[job[w].key] # "none"
    BY <1>5 DEF ApplyNotify, InFlight, TypeOK
  <2>2. CASE k = job[w].key
    BY <1>1, <1>3, <1>5, <2>1, <2>2 DEF ApplyNotify, Notifies, TypeOK
  <2>3. CASE k # job[w].key
    BY <1>1, <1>2, <1>3, <1>5, <2>3 DEF ApplyNotify, TypeOK
  <2> QED
    BY <2>2, <2>3
<1> QED
  BY <1>4, <1>5
     DEF Next, vars, ApplyStart, WithdrawStart, ApplyLoadEvent, ApplyInsert, ApplyReward,
         WithdrawLoad, WithdrawWrite, SetEvent, DeleteUser, Crash

LEMMA NextWasOpen ==
  TypeOK /\ InFlight /\ AppliedWasOpen /\ [Next]_vars => AppliedWasOpen'
<1> SUFFICES ASSUME TypeOK, InFlight, AppliedWasOpen, [Next]_vars,
                    NEW k \in Key, row'[k] # "none"
             PROVE  k[2] \in wasOpen'
  BY DEF AppliedWasOpen
<1>1. wasOpen \subseteq wasOpen'
  BY DEF Next, vars, ApplyStart, WithdrawStart, ApplyLoadEvent, ApplyInsert, ApplyReward,
         ApplyNotify, WithdrawLoad, WithdrawWrite, SetEvent, DeleteUser, Crash
<1>2. CASE row[k] # "none"
  BY <1>1, <1>2 DEF AppliedWasOpen
<1>3. CASE row[k] = "none"
  <2>1. PICK w \in Worker : ApplyInsert(w) \/ WithdrawWrite(w)
    BY <1>3 DEF Next, vars, ApplyStart, WithdrawStart, ApplyLoadEvent, ApplyReward,
                ApplyNotify, WithdrawLoad, SetEvent, DeleteUser, Crash
  <2>2. job[w].key = k
    BY <1>3, <2>1 DEF ApplyInsert, WithdrawWrite, TypeOK
  <2>3. pc[w] = "insert"
    BY <1>3, <2>1, <2>2 DEF ApplyInsert, WithdrawWrite, TypeOK
  <2> QED
    BY <1>1, <2>2, <2>3 DEF InFlight
<1> QED
  BY <1>2, <1>3

-----------------------------------------------------------------------------
(* The score.                                                              *)

\* Both counts of the score invariant are numbers.
LEMMA Counts ==
  ASSUME NEW u \in User
  PROVE  /\ IsFiniteSet(Rewarding(u)) /\ Cardinality(Rewarding(u)) \in Nat
         /\ IsFiniteSet(RowsOf(u)) /\ Cardinality(RowsOf(u)) \in Nat
<1>1. Rewarding(u) \subseteq Worker /\ RowsOf(u) \subseteq Event
  BY DEF Rewarding, RowsOf
<1>2. IsFiniteSet(Rewarding(u)) /\ IsFiniteSet(RowsOf(u))
  BY <1>1, FiniteAssumption, FS_Subset
<1> QED
  BY <1>2, FS_CardinalityType

\* The balance of one user.
Balance(u) ==
  score[u] + ApplyPoints * (Cardinality(Rewarding(u)) + lost[u])
    = ApplyPoints * Cardinality(RowsOf(u))

\* A step that inserts no row, pays nothing and loses nothing.
LEMMA BalanceKept ==
  ASSUME NEW u \in User, Balance(u), score' = score, lost' = lost,
         Rewarding(u)' = Rewarding(u), RowsOf(u)' = RowsOf(u)
  PROVE  Balance(u)'
BY DEF Balance

LEMMA NextScore ==
  TypeOK /\ ScoreCountsApplications /\ [Next]_vars => ScoreCountsApplications'
<1> SUFFICES ASSUME TypeOK, ScoreCountsApplications, [Next]_vars, NEW u \in User
             PROVE  Balance(u)'
  BY DEF ScoreCountsApplications, Balance
<1>1. Balance(u)
  BY DEF ScoreCountsApplications, Balance
<1>2. /\ score[u] \in Nat /\ lost[u] \in Nat
      /\ \A v \in Worker : pc[v] # "idle" => job[v] \in Job
  BY DEF TypeOK
<1> USE DEF Goto, Respond
<1>3. ASSUME NEW w \in Worker, NEW v \in User, NEW e \in Event, ApplyStart(w, v, e)
      PROVE  Balance(u)'
  <2>1. Rewarding(u)' = Rewarding(u) /\ RowsOf(u)' = RowsOf(u)
    BY <1>3 DEF ApplyStart, Rewarding, RowsOf, TypeOK
  <2> QED
    BY <1>1, <1>3, <2>1, BalanceKept DEF ApplyStart
<1>4. ASSUME NEW w \in Worker, NEW v \in User, NEW k \in Key, WithdrawStart(w, v, k)
      PROVE  Balance(u)'
  <2>1. Rewarding(u)' = Rewarding(u) /\ RowsOf(u)' = RowsOf(u)
    BY <1>4 DEF WithdrawStart, Rewarding, RowsOf, TypeOK
  <2> QED
    BY <1>1, <1>4, <2>1, BalanceKept DEF WithdrawStart
<1>5. ASSUME NEW w \in Worker, ApplyLoadEvent(w) PROVE Balance(u)'
  <2>1. Rewarding(u)' = Rewarding(u) /\ RowsOf(u)' = RowsOf(u)
    BY <1>5 DEF ApplyLoadEvent, Rewarding, RowsOf, TypeOK
  <2> QED
    BY <1>1, <1>5, <2>1, BalanceKept DEF ApplyLoadEvent
<1>6. ASSUME NEW w \in Worker, ApplyInsert(w) PROVE Balance(u)'
  <2> DEFINE k == job[w].key
  <2>1. k \in Key /\ k = <<k[1], k[2]>> /\ k[1] \in User /\ k[2] \in Event
    BY <1>2, <1>6 DEF ApplyInsert, Job, Key
  <2>2. score' = score /\ lost' = lost
    BY <1>6 DEF ApplyInsert
  <2>3. CASE row[k] # "none" \/ k[1] # u
    <3>1. Rewarding(u)' = Rewarding(u)
      BY <1>6, <2>3 DEF ApplyInsert, Rewarding, TypeOK
    <3>2. RowsOf(u)' = RowsOf(u)
      BY <1>6, <2>1, <2>3 DEF ApplyInsert, RowsOf, TypeOK, Key
    <3> QED
      BY <1>1, <2>2, <3>1, <3>2, BalanceKept
  <2>4. CASE row[k] = "none" /\ k[1] = u
    <3>1. Rewarding(u)' = Rewarding(u) \cup {w} /\ w \notin Rewarding(u)
      BY <1>6, <2>4 DEF ApplyInsert, Rewarding, TypeOK
    <3>2. RowsOf(u)' = RowsOf(u) \cup {k[2]} /\ k[2] \notin RowsOf(u)
      <4>1. row' = [row EXCEPT ![k] = "applied"]
        BY <1>6, <2>4 DEF ApplyInsert
      <4>2. k = <<u, k[2]>>
        BY <2>1, <2>4
      <4>3. \A e \in Event : row'[<<u, e>>] = IF e = k[2] THEN "applied" ELSE row[<<u, e>>]
        BY <2>1, <4>1, <4>2 DEF TypeOK, Key
      <4>4. row[<<u, k[2]>>] = "none"
        BY <2>4, <4>2
      <4> HIDE DEF k
      <4> QED
        BY <2>1, <4>3, <4>4 DEF RowsOf
    <3>3. Cardinality(Rewarding(u)') = Cardinality(Rewarding(u)) + 1
      BY <3>1, Counts, FS_AddElement
    <3>4. Cardinality(RowsOf(u)') = Cardinality(RowsOf(u)) + 1
      BY <3>2, Counts, FS_AddElement
    <3> QED
      BY <1>1, <1>2, <2>2, <3>3, <3>4, Counts DEF Balance, ApplyPoints
  <2> QED
    BY <2>3, <2>4
<1>7. ASSUME NEW w \in Worker, ApplyReward(w) PROVE Balance(u)'
  <2>1. RowsOf(u)' = RowsOf(u)
    BY <1>7 DEF ApplyReward, RowsOf
  <2>2. CASE job[w].key[1] # u
    <3>1. Rewarding(u)' = Rewarding(u)
      BY <1>7, <2>2 DEF ApplyReward, Rewarding, TypeOK
    <3>2. score'[u] = score[u] /\ lost'[u] = lost[u]
      BY <1>7, <2>2 DEF ApplyReward, TypeOK
    <3> QED
      BY <1>1, <2>1, <3>1, <3>2 DEF Balance
  <2>3. CASE job[w].key[1] = u
    <3>1. Rewarding(u)' = Rewarding(u) \ {w} /\ w \in Rewarding(u)
      BY <1>7, <2>3 DEF ApplyReward, Rewarding, TypeOK
    <3>2. Cardinality(Rewarding(u)') = Cardinality(Rewarding(u)) - 1
      BY <3>1, Counts, FS_RemoveElement
    <3>3. \/ score'[u] = score[u] + ApplyPoints /\ lost'[u] = lost[u]
          \/ score'[u] = score[u] /\ lost'[u] = lost[u] + 1
      BY <1>7, <2>3 DEF ApplyReward, TypeOK
    <3> QED
      BY <1>1, <1>2, <2>1, <3>2, <3>3, Counts DEF Balance, ApplyPoints
  <2> QED
    BY <2>2, <2>3
<1>8. ASSUME NEW w \in Worker, ApplyNotify(w) PROVE Balance(u)'
  <2>1. Rewarding(u)' = Rewarding(u) /\ RowsOf(u)' = RowsOf(u)
    BY <1>8 DEF ApplyNotify, Rewarding, RowsOf, TypeOK
  <2> QED
    BY <1>1, <1>8, <2>1, BalanceKept DEF ApplyNotify
<1>9. ASSUME NEW w \in Worker, WithdrawLoad(w) PROVE Balance(u)'
  <2>1. Rewarding(u)' = Rewarding(u) /\ RowsOf(u)' = RowsOf(u)
    BY <1>9 DEF WithdrawLoad, Rewarding, RowsOf, TypeOK
  <2> QED
    BY <1>1, <1>9, <2>1, BalanceKept DEF WithdrawLoad
<1>10. ASSUME NEW w \in Worker, WithdrawWrite(w) PROVE Balance(u)'
  <2>1. Rewarding(u)' = Rewarding(u)
    BY <1>10 DEF WithdrawWrite, Rewarding, TypeOK
  <2>2. row[job[w].key] # "none"
    BY <1>10 DEF WithdrawWrite, TypeOK
  <2>3. \A k \in Key : row'[k] = "none" <=> row[k] = "none"
    BY <1>10, <2>2 DEF WithdrawWrite, TypeOK
  <2>4. RowsOf(u)' = RowsOf(u)
    BY <2>3 DEF RowsOf, Key
  <2> QED
    BY <1>1, <1>10, <2>1, <2>4, BalanceKept DEF WithdrawWrite
<1>11. ASSUME NEW e \in Event, NEW s \in {"open", "disabled", "deleted"}, SetEvent(e, s)
       PROVE  Balance(u)'
  BY <1>1, <1>11 DEF SetEvent, Balance, Rewarding, RowsOf
<1>12. ASSUME NEW v \in User, DeleteUser(v) PROVE Balance(u)'
  BY <1>1, <1>12 DEF DeleteUser, Balance, Rewarding, RowsOf
<1>13. CASE Crash
  <2>1. Rewarding(u)' = {}
    BY <1>13 DEF Crash, Rewarding
  <2>2. Cardinality(Rewarding(u)') = 0
    BY <2>1, FS_EmptySet
  <2>3. score'[u] = score[u] /\ lost'[u] = lost[u] + Cardinality(Rewarding(u))
    BY <1>13 DEF Crash
  <2>4. RowsOf(u)' = RowsOf(u)
    BY <1>13 DEF Crash, RowsOf
  <2> QED
    BY <1>1, <1>2, <2>2, <2>3, <2>4, Counts DEF Balance, ApplyPoints
<1>14. CASE UNCHANGED vars
  BY <1>1, <1>14 DEF vars, Balance, Rewarding, RowsOf
<1> QED
  BY <1>3, <1>4, <1>5, <1>6, <1>7, <1>8, <1>9, <1>10, <1>11, <1>12, <1>13, <1>14 DEF Next

-----------------------------------------------------------------------------
(* The theorems.                                                           *)

\* The inductive invariant: the promises and what requests in flight rely on.
IInv ==
  /\ TypeOK
  /\ InFlight
  /\ OneNoticePerApplication
  /\ AppliedWasOpen
  /\ ScoreCountsApplications

LEMMA InitIInv == Init => IInv
<1> SUFFICES ASSUME Init PROVE IInv
  OBVIOUS
<1>1. TypeOK
  BY InitTypeOK
<1>2. InFlight /\ OneNoticePerApplication /\ AppliedWasOpen
  BY DEF Init, InFlight, OneNoticePerApplication, AppliedWasOpen, Key
<1>3. ASSUME NEW u \in User PROVE Balance(u)
  <2>1. Rewarding(u) = {} /\ RowsOf(u) = {}
    BY DEF Init, Rewarding, RowsOf, Key
  <2>2. score[u] = 0 /\ lost[u] = 0
    BY DEF Init
  <2> QED
    BY <2>1, <2>2, FS_EmptySet DEF Balance, ApplyPoints
<1> QED
  BY <1>1, <1>2, <1>3 DEF IInv, ScoreCountsApplications, Balance

LEMMA NextIInv == IInv /\ [Next]_vars => IInv'
BY NextTypeOK, NextInFlight, NextNotices, NextWasOpen, NextScore DEF IInv

\* At every moment of every run, whatever requests overlap, fail or are cut
\* off by a restart, all parts of the invariant hold together.
THEOREM Invariance == Spec => []IInv
BY InitIInv, NextIInv, PTL DEF Spec

\* The tables and requests are well formed: a request that rewards,
\* announces or withdraws an application names a row that exists.
THEOREM TypeCorrect == Spec => []TypeOK
<1>1. IInv => TypeOK
  BY DEF IInv
<1> QED
  BY <1>1, Invariance, PTL

\* createEventApplication and cancelEventApplication: every application is
\* paid once and only once, or its points are in flight or were lost.
THEOREM ScoreTheorem == Spec => []ScoreCountsApplications
<1>1. IInv => ScoreCountsApplications
  BY DEF IInv
<1> QED
  BY <1>1, Invariance, PTL

\* The creator of an event hears of an application at most once, and of no
\* application that is its own or was not saved.
THEOREM NoticeTheorem == Spec => []OneNoticePerApplication
<1>1. IInv => OneNoticePerApplication
  BY DEF IInv
<1> QED
  BY <1>1, Invariance, PTL

\* Nobody gets into an event that was never open.
THEOREM WasOpenTheorem == Spec => []AppliedWasOpen
<1>1. IInv => AppliedWasOpen
  BY DEF IInv
<1> QED
  BY <1>1, Invariance, PTL

\* A row changes once after its insert, from applied to withdrawn, by a
\* request of the user who applied: not by an admin, not by the creator, and
\* not by a second application of the same user.
THEOREM WithdrawTheorem == Spec => WithdrawnByOwner
<1> DEFINE Step(k) ==
      row'[k] # row[k] /\ row[k] # "none" =>
        /\ row[k] = "applied" /\ row'[k] = "withdrawn"
        /\ \E w \in Worker : /\ pc[w] = "withdraw"
                             /\ job[w].key = k /\ job[w].user = k[1]
<1>1. ASSUME IInv, [Next]_vars, NEW k \in Key PROVE Step(k)
  <2>1. SUFFICES ASSUME row'[k] # row[k], row[k] # "none" PROVE Step(k)
    OBVIOUS
  <2>2. PICK w \in Worker : ApplyInsert(w) \/ WithdrawWrite(w)
    BY <1>1, <2>1 DEF Next, vars, ApplyStart, WithdrawStart, ApplyLoadEvent, ApplyReward,
                ApplyNotify, WithdrawLoad, SetEvent, DeleteUser, Crash
  <2>3. WithdrawWrite(w) /\ job[w].key = k
    BY <1>1, <2>1, <2>2 DEF ApplyInsert, WithdrawWrite, IInv, TypeOK
  <2>4. row[k] \in {"none", "applied", "withdrawn"} /\ row'[k] = "withdrawn"
    BY <1>1, <2>3 DEF WithdrawWrite, IInv, TypeOK
  <2> QED
    BY <1>1, <2>1, <2>3, <2>4 DEF WithdrawWrite, IInv, InFlight
<1>2. IInv /\ [Next]_vars => [\A k \in Key : Step(k)]_vars
  BY <1>1
<1> QED
  BY <1>2, Invariance, PTL DEF Spec, WithdrawnByOwner
=============================================================================
