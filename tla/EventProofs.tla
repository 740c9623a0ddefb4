---------------------------- MODULE EventProofs ----------------------------
(***************************************************************************)
(* Proofs about modules/event.  First EventEdit, for any sets of users,    *)
(* contents, bodies and concurrent requests, any number of requests and of *)
(* failed calls; then AgeBands, for any age rows: the filter of a band and *)
(* the band that is inferred; the lists of Feeds for any events, queries   *)
(* and size of a page; and the chain of RepeatEvent, for every length of   *)
(* the round of names, every horizon and any number of failures, restarts  *)
(* and edits.                                                              *)
(***************************************************************************)
EXTENDS EventEdit, Feeds, RepeatEvent, FiniteSetTheorems, SequenceTheorems, TLAPS

-----------------------------------------------------------------------------
(* Types, those of the requests in flight included.                        *)

Cover == Nat \cup {Outside}
RowType ==
  [version : Nat, content : Content, active : BOOLEAN, cover : Nat \cup {Outside},
   verified : BOOLEAN, disabled : BOOLEAN, deleted : BOOLEAN]
SnapshotType ==
  [version : Nat, content : Content, active : BOOLEAN, cover : Cover,
   repeat : Frequency \cup {None}, window : Window]
PatchJob ==
  [op : {"patch"}, user : {None}, patch : PatchType, flag : {None}, oldCover : Cover \cup {None},
   before : SnapshotType \cup {None}, newCover : Nat \cup {None},
   created : Nat \cup {None}, url : Cover, effect : SUBSET Column]

\* Calls made before the upload, after the snapshot, and after the row is written.
EarlyPC == {"bare", "audit", "validate", "upload"}
WrittenPC == TryPC \ {"update"}
SnapPC == {"validate", "upload", "rollback"} \cup TryPC
LoadedPC == SnapPC \cup {"audit"}
PatchPC == LoadedPC \cup {"bare"}

\* The local state j of a request whose next call is l.
JobOK(l, j) ==
  /\ l \in PatchPC => j \in PatchJob
  /\ l \in LoadedPC => j.oldCover \in Cover
  /\ l \in SnapPC => j.before \in SnapshotType
  /\ l \in EarlyPC => j.newCover = None
  /\ l \in PatchPC /\ j.newCover # None => j.patch.cover = "file"
  /\ l = "upload" => j.patch.cover = "file"
  /\ l = "update" /\ j.patch.cover = "file" => j.newCover # None
  /\ l = "repeat" => j.patch.repeat # "absent"
  /\ l = "window" => j.patch.window # None
  /\ l = "dropOld" => j.newCover # None
  /\ l \in {"toggleFind", "toggleWrite"} => j.flag \in BOOLEAN

\* The versions kept in the history.
TrackedType == {Tracked(r) : r \in RowType}

TypeInv ==
  /\ TypeOK
  /\ past \in Seq(TrackedType)
  /\ \A w \in Worker : JobOK(pc[w], job[w])

\* An image that clients can name is an image, or a URL outside the bucket.
LEMMA KnownCover ==
  ASSUME past \in Seq(TrackedType), NEW i \in Known
  PROVE  i \in Cover
<1>1. CASE i = Outside
  BY <1>1 DEF Cover
<1>2. ASSUME NEW v \in 1..Len(past), i = past[v].cover PROVE i \in Cover
  <2>1. past[v] \in TrackedType
    OBVIOUS
  <2>2. PICK r \in RowType : past[v] = Tracked(r)
    BY <2>1 DEF TrackedType
  <2>3. i = r.cover
    BY <1>2, <2>2 DEF Tracked, Patched, Column
  <2> QED
    BY <2>3 DEF RowType, Cover
<1> QED
  BY <1>1, <1>2 DEF Known

\* Request w goes on to the call l with the local state j; the others stay.
Goes(w, l, j) ==
  /\ l \in PC /\ pc' = [pc EXCEPT ![w] = l]
  /\ DOMAIN job' = Worker /\ job'[w] = j
  /\ \A v \in Worker \ {w} : job'[v] = job[v]

LEMMA FrameOK ==
  ASSUME TypeInv, NEW w \in Worker, NEW l, NEW j, Goes(w, l, j), JobOK(l, j)
  PROVE  /\ pc' \in [Worker -> PC] /\ DOMAIN job' = Worker
         /\ \A v \in Worker : JobOK(pc'[v], job'[v])
<1>1. pc \in [Worker -> PC] /\ DOMAIN job = Worker /\ \A v \in Worker : JobOK(pc[v], job[v])
  BY DEF TypeInv, TypeOK
<1>2. pc'[w] = l /\ \A v \in Worker \ {w} : pc'[v] = pc[v]
  BY <1>1 DEF Goes
<1>3. \A v \in Worker : JobOK(pc'[v], job'[v])
  BY <1>1, <1>2, Zenon DEF Goes
<1> QED
  BY <1>1, <1>3 DEF Goes

\* An assignment to one request's local state, and none.
LEMMA GoesTo ==
  ASSUME TypeInv, NEW w \in Worker, NEW l \in PC, Goto(w, l)
  PROVE  /\ \A j : job' = [job EXCEPT ![w] = j] => Goes(w, l, j)
         /\ job' = job => Goes(w, l, job[w])
BY DEF TypeInv, TypeOK, Goes, Goto

LEMMA NextCall ==
  ASSUME NEW j
  PROVE  /\ FromLog(j) \in {"log", "reward"}
         /\ FromDrop(j) \in {"dropOld", "log", "reward"}
         /\ FromDrop(j) = "dropOld" => j.newCover # None
         /\ FromVerify(j) \in {"verify", "dropOld", "log", "reward"}
         /\ FromVerify(j) = "dropOld" => j.newCover # None
         /\ FromWindow(j) \in {"window", "verify", "dropOld", "log", "reward"}
         /\ FromWindow(j) = "dropOld" => j.newCover # None
         /\ FromWindow(j) = "window" => j.patch.window # None
         /\ FromRepeat(j) \in {"repeat", "window", "verify", "dropOld", "log", "reward"}
         /\ FromRepeat(j) = "dropOld" => j.newCover # None
         /\ FromRepeat(j) = "window" => j.patch.window # None
         /\ FromRepeat(j) = "repeat" => j.patch.repeat # "absent"
BY DEF FromLog, FromDrop, FromVerify, FromWindow, FromRepeat

\* The columns an update writes are values of their types.
LEMMA NewValueOK ==
  ASSUME NEW j \in PatchJob
  PROVE  /\ InPatch(j, "content") => NewValue(j, "content") \in Content
         /\ InPatch(j, "active") => NewValue(j, "active") \in BOOLEAN
         /\ NewValue(j, "cover") \in Cover
<1>1. j.patch \in PatchType /\ j.newCover \in Nat \cup {None} /\ j.url \in Nat \cup {Outside}
  BY DEF PatchJob, Cover
<1> QED
  BY <1>1, EventEditAssumption DEF PatchType, InPatch, NewValue, Cover

\* What the two writes of several columns make of a row.
LEMMA WrittenRow ==
  ASSUME NEW r \in RowType, NEW v \in Nat, NEW c \in Content, NEW a \in BOOLEAN, NEW i \in Cover
  PROVE  [r EXCEPT !.version = v, !.content = c, !.active = a, !.cover = i] \in RowType
BY DEF RowType, Cover

LEMMA ToggledRow ==
  ASSUME NEW r \in RowType, NEW v \in Nat, NEW b \in BOOLEAN
  PROVE  [r EXCEPT !.disabled = b, !.version = v] \in RowType
BY DEF RowType

LEMMA InitTypeInv == Init => TypeInv
<1> SUFFICES ASSUME Init PROVE TypeInv
  OBVIOUS
<1>1. TypeOK
  <2>1. PICK c \in Content, i \in {0, Outside}, f \in Frequency \cup {None}, s \in Window :
           /\ row = [version |-> 1, content |-> c, active |-> TRUE, cover |-> i,
                     verified |-> FALSE, disabled |-> FALSE, deleted |-> FALSE]
           /\ repeat = f /\ window = s
    BY DEF Init
  <2>2. row.cover = i /\ objects = {row.cover} \ {Outside}
    BY <2>1 DEF Init
  <2>3. objects \subseteq Nat
    BY <2>2
  <2>4. row \in RowType
    BY <2>1 DEF RowType
  <2> QED
    BY <2>1, <2>3, <2>4 DEF Init, TypeOK, PC
<1>2. \A w \in Worker : JobOK(pc[w], job[w])
  BY DEF Init, JobOK, PatchPC, LoadedPC, SnapPC, TryPC, EarlyPC
<1>3. past \in Seq(TrackedType)
  <2> DEFINE t == Tracked(row)
  <2>1. past = <<t>> /\ row \in RowType
    BY <1>1 DEF Init, TypeOK, RowType
  <2>2. t \in TrackedType
    BY <2>1 DEF TrackedType
  <2> HIDE DEF t
  <2> QED
    BY <2>1, <2>2
<1> QED
  BY <1>1, <1>2, <1>3 DEF TypeInv

\* One more version in the history.
LEMMA OneMore ==
  ASSUME past \in Seq(TrackedType), NEW r \in RowType
  PROVE  Append(past, Tracked(r)) \in Seq(TrackedType)
<1> DEFINE t == Tracked(r)
<1>1. t \in TrackedType
  BY DEF TrackedType
<1> HIDE DEF t
<1>2. Append(past, t) \in Seq(TrackedType)
  BY <1>1
<1> QED
  BY <1>2 DEF t

LEMMA PcCases ==
  /\ TryPC = {"update"} \cup WrittenPC
  /\ PC = PatchPC \cup {"idle", "toggleFind", "toggleWrite", "deleteLoad", "deleteWrite"}
BY DEF PC, PatchPC, LoadedPC, SnapPC, TryPC, WrittenPC

LEMMA NextTypeInv == TypeInv /\ [Next]_vars => TypeInv'
<1> SUFFICES ASSUME TypeInv, [Next]_vars PROVE TypeInv'
  OBVIOUS
<1> DEFINE Others ==
      /\ row \in RowType
      /\ repeat \in Frequency \cup {None}
      /\ window \in Window
      /\ objects \subseteq Nat
      /\ uploads \in Nat /\ rewards \in Nat /\ notices \in Nat
      /\ requests \in Nat /\ faults \in Nat /\ overlapped \in BOOLEAN
      /\ given \subseteq {"other", "gone"} /\ past \in Seq(TrackedType)
<1>0. TypeOK /\ Others /\ pc \in [Worker -> PC] /\ DOMAIN job = Worker
      /\ \A w \in Worker : JobOK(pc[w], job[w])
  BY DEF TypeInv, TypeOK, RowType
<1>1. ASSUME NEW w \in Worker, NEW l \in PC, NEW j, Goes(w, l, j), JobOK(l, j), Others'
      PROVE  TypeInv'
  BY <1>1, FrameOK DEF TypeInv, TypeOK, RowType
<1> USE DEF PC, PatchPC, LoadedPC, SnapPC, TryPC, EarlyPC
<1>2. ASSUME NEW w \in Worker, NEW l \in PC, NEW j, Start(w, l), JobOK(l, j),
             job' = [job EXCEPT ![w] = j]
      PROVE  TypeInv'
  <2>1. Goes(w, l, j)
    BY <1>2, GoesTo DEF Start
  <2>2. overlapped' \in BOOLEAN
    BY <1>0, <1>2 DEF Start
  <2>3. Others'
    BY <1>0, <1>2, <2>2 DEF Start
  <2> QED
    BY <1>1, <1>2, <2>1, <2>3
<1>3. ASSUME NEW w \in Worker, Respond(w), Others' PROVE TypeInv'
  <2>1. Goes(w, "idle", None)
    BY <1>3, GoesTo DEF Respond
  <2>2. JobOK("idle", None)
    BY DEF JobOK
  <2> QED
    BY <1>1, <1>3, <2>1, <2>2
<1>4. ASSUME NEW w \in Worker, NEW l \in PC, Goto(w, l), job' = job, JobOK(l, job[w]), Others'
      PROVE  TypeInv'
  BY <1>1, <1>4, GoesTo
<1>5. ASSUME NEW w \in Worker, NEW p \in Patch, NEW i \in Known, PatchStart(w, p, i)
      PROVE  TypeInv'
  <2> DEFINE j == [NewJob("patch", None, p, None) EXCEPT !.url = i]
  <2>1. i \in Cover
    BY <1>0, KnownCover
  <2>2. j = [op |-> "patch", user |-> None, patch |-> p, flag |-> None, oldCover |-> None,
             before |-> None, newCover |-> None, created |-> None, url |-> i, effect |-> {}]
    BY DEF NewJob
  <2>3. j \in PatchJob /\ j.newCover = None
    BY <2>1, <2>2, EventEditAssumption DEF PatchJob
  <2> HIDE DEF j
  <2>4. JobOK("bare", j)
    BY <2>3 DEF JobOK
  <2>5. job' = [job EXCEPT ![w] = j]
    BY <1>5 DEF PatchStart, j
  <2> QED
    BY <1>2, <1>5, <2>4, <2>5 DEF PatchStart
<1>6. ASSUME NEW w \in Worker, NEW u \in User, NEW b \in BOOLEAN, ToggleStart(w, u, b)
      PROVE  TypeInv'
  <2>1. JobOK("toggleFind", NewJob("toggle", None, None, b))
    BY DEF JobOK, NewJob
  <2> QED
    BY <1>2, <1>6, <2>1 DEF ToggleStart
<1>7. ASSUME NEW w \in Worker, NEW u \in User, DeleteStart(w, u) PROVE TypeInv'
  <2>1. JobOK("deleteLoad", NewJob("delete", u, None, None))
    BY DEF JobOK, NewJob
  <2> QED
    BY <1>2, <1>7, <2>1 DEF DeleteStart
<1>8. ASSUME NEW w \in Worker, PatchLoad(w) PROVE TypeInv'
  <2>1. Others'
    BY <1>0, <1>8 DEF PatchLoad, tables
  <2>2. CASE Respond(w)
    BY <1>3, <2>1, <2>2
  <2>3. ASSUME Goto(w, "audit"), job' = [job EXCEPT ![w].oldCover = row.cover] PROVE TypeInv'
    <3>1. job[w] \in PatchJob /\ job[w].newCover = None /\ row.cover \in Cover
      BY <1>0, <1>8 DEF PatchLoad, JobOK, Cover, RowType
    <3>2. JobOK("audit", [job[w] EXCEPT !.oldCover = row.cover])
      BY <3>1 DEF JobOK, PatchJob
    <3>3. Goes(w, "audit", [job[w] EXCEPT !.oldCover = row.cover])
      BY <1>0, <2>3, GoesTo
    <3> QED
      BY <1>1, <2>1, <3>2, <3>3
  <2> QED
    BY <1>8, <2>2, <2>3 DEF PatchLoad
<1>9. ASSUME NEW w \in Worker, PatchSnapshot(w) PROVE TypeInv'
  <2>1. Others'
    BY <1>0, <1>9 DEF PatchSnapshot, tables
  <2>2. CASE Respond(w)
    BY <1>3, <2>1, <2>2
  <2>3. ASSUME NEW b, Goto(w, "validate"), job' = [job EXCEPT ![w].before = b],
               b = [version |-> row.version, content |-> row.content, active |-> row.active,
                    cover |-> row.cover, repeat |-> repeat, window |-> window]
        PROVE  TypeInv'
    <3>1. job[w] \in PatchJob /\ job[w].newCover = None /\ job[w].oldCover \in Cover
      BY <1>0, <1>9 DEF PatchSnapshot, JobOK
    <3>2. b \in SnapshotType
      BY <1>0, <2>3 DEF SnapshotType, Cover, RowType
    <3>3. JobOK("validate", [job[w] EXCEPT !.before = b])
      BY <3>1, <3>2 DEF JobOK, PatchJob
    <3>4. Goes(w, "validate", [job[w] EXCEPT !.before = b])
      BY <1>0, <2>3, GoesTo
    <3> QED
      BY <1>1, <2>1, <3>3, <3>4
  <2> QED
    BY <1>9, <2>2, <2>3 DEF PatchSnapshot
<1>10. ASSUME NEW w \in Worker, PatchValidate(w) PROVE TypeInv'
  <2>1. Others'
    BY <1>0, <1>10 DEF PatchValidate, tables
  <2>2. CASE Respond(w)
    BY <1>3, <2>1, <2>2
  <2>3. ASSUME NEW l \in {"upload", "update"}, Goto(w, l), job' = job,
               l = "upload" <=> job[w].patch.cover = "file"
        PROVE  TypeInv'
    <3>1. JobOK(l, job[w])
      BY <1>0, <1>10, <2>3 DEF PatchValidate, JobOK
    <3> QED
      BY <1>4, <2>1, <2>3, <3>1
  <2> QED
    BY <1>10, <2>2, <2>3 DEF PatchValidate
<1>11. ASSUME NEW w \in Worker, PatchUpload(w) PROVE TypeInv'
  <2>1. Others'
    BY <1>0, <1>11 DEF PatchUpload
  <2>2. job[w] \in PatchJob /\ job[w].oldCover \in Cover /\ job[w].before \in SnapshotType
    BY <1>0, <1>11 DEF PatchUpload, JobOK
  <2>3. uploads \in Nat /\ uploads # None
    BY <1>0, EventEditAssumption
  <2>3a. job[w].patch.cover = "file"
    BY <1>0, <1>11 DEF PatchUpload, JobOK
  <2>4. JobOK("update", [job[w] EXCEPT !.newCover = uploads])
    BY <2>2, <2>3, <2>3a DEF JobOK, PatchJob
  <2>5. Goes(w, "update", [job[w] EXCEPT !.newCover = uploads])
    BY <1>0, <1>11, GoesTo DEF PatchUpload
  <2> QED
    BY <1>1, <2>1, <2>4, <2>5
<1>12. ASSUME NEW w \in Worker, PatchUpdate(w) PROVE TypeInv'
  <2> DEFINE j == job[w]
             new == [row EXCEPT
                       !.version = @ + 1,
                       !.content = IF InPatch(j, "content") THEN NewValue(j, "content") ELSE @,
                       !.active  = IF InPatch(j, "active") THEN NewValue(j, "active") ELSE @,
                       !.cover   = IF InPatch(j, "cover") THEN NewValue(j, "cover") ELSE @]
             e == {f \in Column : new[f] # row[f]}
  <2>1. /\ row' = new
        /\ job' = [job EXCEPT ![w].created = new.version, ![w].effect = e]
        /\ Goto(w, FromRepeat(j))
    BY <1>12 DEF PatchUpdate
  <2>2. j \in PatchJob /\ j.oldCover \in Cover /\ j.before \in SnapshotType
        /\ (j.newCover # None => j.patch.cover = "file")
    BY <1>0, <1>12 DEF PatchUpdate, JobOK
  <2>3. new \in RowType
    <3> DEFINE c == IF InPatch(j, "content") THEN NewValue(j, "content") ELSE row.content
               a == IF InPatch(j, "active") THEN NewValue(j, "active") ELSE row.active
               i == IF InPatch(j, "cover") THEN NewValue(j, "cover") ELSE row.cover
    <3>1. c \in Content /\ a \in BOOLEAN /\ i \in Cover /\ row.version + 1 \in Nat
      BY <1>0, <2>2, NewValueOK DEF Cover, RowType
    <3>2. new = [row EXCEPT !.version = row.version + 1, !.content = c, !.active = a, !.cover = i]
      OBVIOUS
    <3> HIDE DEF c, a, i, new
    <3> QED
      BY <1>0, <3>1, <3>2, WrittenRow
  <2>4. Others'
    <3>1. past' = Append(past, Tracked(new)) /\ given' = given \cup URLKinds(j)
      BY <1>12 DEF PatchUpdate
    <3>2. past' \in Seq(TrackedType)
      BY <1>0, <2>3, <3>1, OneMore
    <3>3. given' \subseteq {"other", "gone"}
      BY <1>0, <3>1 DEF URLKinds
    <3> QED
      BY <1>0, <1>12, <2>1, <2>3, <3>2, <3>3 DEF PatchUpdate
  <2>5. new.version \in Nat /\ e \in SUBSET Column
    <3> HIDE DEF new
    <3> QED
      BY <2>3 DEF RowType
  <2> HIDE DEF new, e
  <2> DEFINE k == [j EXCEPT !.created = new.version, !.effect = e]
  <2>6. k \in PatchJob /\ k.oldCover = j.oldCover /\ k.before = j.before
        /\ k.newCover = j.newCover /\ k.patch = j.patch
    BY <2>2, <2>5 DEF PatchJob
  <2>7. Goes(w, FromRepeat(j), k)
    BY <1>0, <2>1, NextCall DEF Goes, Goto
  <2> HIDE DEF k
  <2>8. JobOK(FromRepeat(j), k) /\ FromRepeat(j) \in PC
    BY <2>2, <2>6, NextCall DEF JobOK
  <2> QED
    BY <1>1, <2>4, <2>7, <2>8
<1>13. ASSUME NEW w \in Worker, PatchRepeat(w) PROVE TypeInv'
  <2>1. job[w] \in PatchJob /\ job[w].patch.repeat # "absent"
    BY <1>0, <1>13 DEF PatchRepeat, JobOK
  <2>2. repeat' \in Frequency \cup {None}
    BY <1>13, <2>1 DEF PatchRepeat, PatchJob, PatchType
  <2>3. Others'
    BY <1>0, <1>13, <2>2 DEF PatchRepeat
  <2>4. JobOK(FromWindow(job[w]), job[w]) /\ FromWindow(job[w]) \in PC
    BY <1>0, <1>13, NextCall DEF PatchRepeat, JobOK
  <2> QED
    BY <1>4, <1>13, <2>3, <2>4 DEF PatchRepeat
<1>14. ASSUME NEW w \in Worker, PatchWindow(w) PROVE TypeInv'
  <2>1. job[w] \in PatchJob /\ job[w].patch.window # None
    BY <1>0, <1>14 DEF PatchWindow, JobOK
  <2>2. window' \in Window
    BY <1>14, <2>1 DEF PatchWindow, PatchJob, PatchType
  <2>3. Others'
    BY <1>0, <1>14, <2>2 DEF PatchWindow
  <2>4. JobOK(FromVerify(job[w]), job[w]) /\ FromVerify(job[w]) \in PC
    BY <1>0, <1>14, NextCall DEF PatchWindow, JobOK
  <2> QED
    BY <1>4, <1>14, <2>3, <2>4 DEF PatchWindow
<1>15. ASSUME NEW w \in Worker, PatchVerify(w) PROVE TypeInv'
  <2>1. Others'
    BY <1>0, <1>15 DEF PatchVerify, tables
  <2>2. ASSUME NEW l \in {"rollback", "notify", "mark"}, Goto(w, l), job' = job PROVE TypeInv'
    <3>1. JobOK(l, job[w])
      BY <1>0, <1>15 DEF PatchVerify, JobOK
    <3> QED
      BY <1>4, <2>1, <2>2, <3>1
  <2> QED
    BY <1>15, <2>2 DEF PatchVerify
<1>16. ASSUME NEW w \in Worker, PatchMark(w) PROVE TypeInv'
  <2>1. Others'
    BY <1>0, <1>16 DEF PatchMark, RowType
  <2> DEFINE k == [job[w] EXCEPT !.effect = job[w].effect \cup {"verified"}]
  <2>2. job[w] \in PatchJob /\ JobOK("notify", job[w])
    BY <1>0, <1>16 DEF PatchMark, JobOK
  <2>3. JobOK("notify", k)
    <3>1. job[w].effect \cup {"verified"} \in SUBSET Column
      BY <2>2 DEF PatchJob, Column
    <3> DEFINE e == job[w].effect \cup {"verified"}
    <3> HIDE DEF e
    <3>2. k = [job[w] EXCEPT !.effect = e] /\ e \in SUBSET Column
      BY <3>1 DEF e
    <3>3. k \in PatchJob /\ k.oldCover = job[w].oldCover /\ k.before = job[w].before
          /\ k.newCover = job[w].newCover /\ k.patch = job[w].patch
      BY <2>2, <3>2 DEF PatchJob
    <3> HIDE DEF k
    <3> QED
      BY <2>2, <3>3 DEF JobOK
  <2>4. Goes(w, "notify", k)
    BY <1>0, <1>16, GoesTo DEF PatchMark
  <2> HIDE DEF k
  <2> QED
    BY <1>1, <2>1, <2>3, <2>4
<1>17. ASSUME NEW w \in Worker, PatchNotify(w) PROVE TypeInv'
  <2>1. Others'
    BY <1>0, <1>17 DEF PatchNotify
  <2>2. JobOK(FromDrop(job[w]), job[w]) /\ FromDrop(job[w]) \in PC
    BY <1>0, <1>17, NextCall DEF PatchNotify, JobOK
  <2> QED
    BY <1>4, <1>17, <2>1, <2>2 DEF PatchNotify
<1>18. ASSUME NEW w \in Worker, PatchDropOldCover(w) PROVE TypeInv'
  <2>1. Others'
    BY <1>0, <1>18 DEF PatchDropOldCover
  <2>2. JobOK(FromLog(job[w]), job[w]) /\ FromLog(job[w]) \in PC
    BY <1>0, <1>18, NextCall DEF PatchDropOldCover, JobOK
  <2> QED
    BY <1>4, <1>18, <2>1, <2>2 DEF PatchDropOldCover
<1>19. ASSUME NEW w \in Worker, PatchLog(w) PROVE TypeInv'
  <2>1. Others'
    BY <1>0, <1>19 DEF PatchLog
  <2>2. JobOK("reward", job[w])
    BY <1>0, <1>19 DEF PatchLog, JobOK
  <2> QED
    BY <1>4, <1>19, <2>1, <2>2 DEF PatchLog
<1>20. ASSUME NEW w \in Worker, PatchReward(w) PROVE TypeInv'
  <2>1. Others'
    BY <1>0, <1>20 DEF PatchReward
  <2> QED
    BY <1>3, <1>20, <2>1 DEF PatchReward
<1>21. ASSUME NEW w \in Worker, PatchRollback(w) PROVE TypeInv'
  <2>1. Others'
    BY <1>0, <1>21 DEF PatchRollback
  <2> QED
    BY <1>3, <1>21, <2>1 DEF PatchRollback
<1>22. ASSUME NEW w \in Worker, ToggleFind(w) PROVE TypeInv'
  <2>1. Others'
    BY <1>0, <1>22 DEF ToggleFind, tables
  <2>2. JobOK("toggleWrite", job[w])
    BY <1>0, <1>22 DEF ToggleFind, JobOK
  <2> QED
    BY <1>3, <1>4, <1>22, <2>1, <2>2 DEF ToggleFind
<1>23. ASSUME NEW w \in Worker, ToggleWrite(w) PROVE TypeInv'
  <2>1. job[w].flag \in BOOLEAN
    BY <1>0, <1>23 DEF ToggleWrite, JobOK
  <2>2. Others'
    <3> DEFINE b == job[w].flag
    <3>1. row' = [row EXCEPT !.disabled = b, !.version = row.version + 1]
      BY <1>23 DEF ToggleWrite
    <3> HIDE DEF b
    <3>2. b \in BOOLEAN
      BY <2>1 DEF b
    <3>3. row' \in RowType
      <4>1. row.version + 1 \in Nat
        BY <1>0 DEF RowType
      <4> QED
        BY <1>0, <3>1, <3>2, <4>1, ToggledRow
    <3>4. past' \in Seq(TrackedType)
      BY <1>0, <1>23, OneMore DEF ToggleWrite
    <3> QED
      BY <1>0, <1>23, <3>3, <3>4 DEF ToggleWrite
  <2> QED
    BY <1>3, <1>23, <2>2 DEF ToggleWrite
<1>24. ASSUME NEW w \in Worker, DeleteLoad(w) PROVE TypeInv'
  <2>1. Others'
    BY <1>0, <1>24 DEF DeleteLoad, tables
  <2>2. JobOK("deleteWrite", job[w])
    BY DEF JobOK
  <2> QED
    BY <1>3, <1>4, <1>24, <2>1, <2>2 DEF DeleteLoad
<1>25. ASSUME NEW w \in Worker, DeleteWrite(w) PROVE TypeInv'
  <2>1. Others'
    BY <1>0, <1>25 DEF DeleteWrite, RowType
  <2> QED
    BY <1>3, <1>25, <2>1 DEF DeleteWrite
<1>26. ASSUME NEW w \in Worker, Fault(w) PROVE TypeInv'
  <2>1. Others'
    BY <1>0, <1>26 DEF Fault, tables
  <2>2. CASE pc[w] \in TryPC /\ job[w].newCover # None
    <3>1. JobOK("rollback", job[w])
      BY <1>0, <2>2 DEF JobOK
    <3> QED
      BY <1>4, <1>26, <2>1, <2>2, <3>1 DEF Fault
  <2> QED
    BY <1>3, <1>26, <2>1, <2>2 DEF Fault
<1>27. CASE UNCHANGED vars
  BY <1>27 DEF TypeInv, TypeOK, vars
<1> QED
  BY <1>5, <1>6, <1>7, <1>8, <1>9, <1>10, <1>11, <1>12, <1>13, <1>14, <1>15, <1>16, <1>17,
     <1>18, <1>19, <1>20, <1>21, <1>22, <1>23, <1>24, <1>25, <1>26, <1>27 DEF Next

-----------------------------------------------------------------------------
(* Every log, reward and notice is backed by an increment of the version.  *)

\* The requests that will still log, pay and announce a row they have written.
LoggingPC == WrittenPC \ {"reward"}
NoticingPC == {"repeat", "window", "verify", "mark", "notify"}
Calling(S) == {w \in Worker : pc[w] \in S}

LogType == {LogOf(j) : j \in PatchJob}

Backed(n, S) == IsFiniteSet(Calling(S)) /\ n + Cardinality(Calling(S)) < row.version

CountInv ==
  /\ logs \in Seq(LogType)
  /\ Backed(Len(logs), LoggingPC)
  /\ Backed(rewards, WrittenPC)
  /\ Backed(notices, NoticingPC)
  /\ notices > 0 => row.verified
  /\ \A w \in Worker : pc[w] = "notify" => row.verified

\* One request's step seen by a counter that goes from n to m and by the calls S
\* before it: it is left alone, or the version is raised, or the call is made.
Counts(w, l, S, n, m) ==
  \/ m = n /\ row'.version = row.version /\ (l \in S => pc[w] \in S)
  \/ m = n /\ row'.version = row.version + 1
  \/ m = n + 1 /\ row'.version = row.version /\ pc[w] \in S /\ l \notin S

LEMMA CallingStep ==
  ASSUME pc \in [Worker -> PC], NEW w \in Worker, NEW l, pc' = [pc EXCEPT ![w] = l],
         NEW S, IsFiniteSet(Calling(S))
  PROVE  /\ IsFiniteSet(Calling(S)')
         /\ Cardinality(Calling(S)) \in Nat /\ Cardinality(Calling(S)') \in Nat
         /\ Cardinality(Calling(S)') <= Cardinality(Calling(S)) + 1
         /\ (l \in S => pc[w] \in S) => Cardinality(Calling(S)') <= Cardinality(Calling(S))
         /\ pc[w] \in S /\ l \notin S => Cardinality(Calling(S)') + 1 <= Cardinality(Calling(S))
<1>1. Calling(S)' \subseteq Calling(S) \cup {w}
  BY DEF Calling
<1>2. (l \in S => pc[w] \in S) => Calling(S)' \subseteq Calling(S)
  BY DEF Calling
<1>3. pc[w] \in S /\ l \notin S => w \in Calling(S) /\ Calling(S)' = Calling(S) \ {w}
  BY DEF Calling
<1> DEFINE P == Calling(S)
           Q == Calling(S)'
<1> HIDE DEF P, Q
<1>4. IsFiniteSet(P) /\ Q \subseteq P \cup {w}
      /\ ((l \in S => pc[w] \in S) => Q \subseteq P)
      /\ (pc[w] \in S /\ l \notin S => w \in P /\ Q = P \ {w})
  BY <1>1, <1>2, <1>3 DEF P, Q
<1>5. IsFiniteSet(P \cup {w}) /\ Cardinality(P) \in Nat
      /\ Cardinality(P \cup {w}) = IF w \in P THEN Cardinality(P) ELSE Cardinality(P) + 1
  BY <1>4, FS_AddElement, FS_CardinalityType
<1>6. IsFiniteSet(Q) /\ Cardinality(Q) <= Cardinality(P \cup {w}) /\ Cardinality(Q) \in Nat
  BY <1>4, <1>5, FS_Subset, FS_CardinalityType
<1>7. Q \subseteq P => Cardinality(Q) <= Cardinality(P)
  BY <1>4, FS_Subset
<1>8. w \in P => Cardinality(P \ {w}) = Cardinality(P) - 1
  BY <1>4, FS_RemoveElement
<1>9. /\ IsFiniteSet(Q)
      /\ Cardinality(P) \in Nat /\ Cardinality(Q) \in Nat
      /\ Cardinality(Q) <= Cardinality(P) + 1
      /\ (l \in S => pc[w] \in S) => Cardinality(Q) <= Cardinality(P)
      /\ pc[w] \in S /\ l \notin S => Cardinality(Q) + 1 <= Cardinality(P)
  <2> DEFINE c == Cardinality(P)
             d == Cardinality(Q)
             e == Cardinality(P \cup {w})
  <2>1. c \in Nat /\ d \in Nat /\ d <= e /\ e \in {c, c + 1}
    BY <1>5, <1>6
  <2>2. Q \subseteq P => d <= c
    BY <1>7
  <2>3. pc[w] \in S /\ l \notin S => d = c - 1
    BY <1>4, <1>8
  <2> HIDE DEF c, d, e
  <2>4. d <= c + 1 /\ (pc[w] \in S /\ l \notin S => d + 1 <= c)
    BY <2>1, <2>3
  <2>5. (l \in S => pc[w] \in S) => d <= c
    BY <1>4, <2>2, Zenon
  <2> QED
    BY <1>6, <2>1, <2>4, <2>5 DEF c, d
<1> QED
  BY <1>9 DEF P, Q

LEMMA BackedStep ==
  ASSUME pc \in [Worker -> PC], row.version \in Nat, NEW w \in Worker, NEW l,
         pc' = [pc EXCEPT ![w] = l], NEW S, NEW n \in Nat, NEW m, Backed(n, S),
         Counts(w, l, S, n, m)
  PROVE  IsFiniteSet(Calling(S)') /\ m + Cardinality(Calling(S)') < row'.version
<1>1. IsFiniteSet(Calling(S)) /\ n + Cardinality(Calling(S)) < row.version
  BY DEF Backed
<1> DEFINE c == Cardinality(Calling(S))
           d == Cardinality(Calling(S)')
<1>2. /\ IsFiniteSet(Calling(S)') /\ c \in Nat /\ d \in Nat /\ d <= c + 1
      /\ (l \in S => pc[w] \in S) => d <= c
      /\ pc[w] \in S /\ l \notin S => d + 1 <= c
  BY <1>1, CallingStep
<1>3. n + c < row.version
  BY <1>1
<1> HIDE DEF c, d
<1>4. m + d < row'.version
  BY <1>2, <1>3 DEF Counts
<1> QED
  BY <1>2, <1>4 DEF d

LEMMA InitCountInv == Init => CountInv
<1> SUFFICES ASSUME Init PROVE CountInv
  OBVIOUS
<1>1. \A w \in Worker : pc[w] = "idle"
  BY DEF Init
<1>2. Calling(LoggingPC) = {} /\ Calling(WrittenPC) = {} /\ Calling(NoticingPC) = {}
  BY <1>1 DEF Calling, LoggingPC, WrittenPC, NoticingPC, TryPC
<1>3. IsFiniteSet({}) /\ Cardinality({}) = 0
  BY FS_EmptySet
<1>4. row.version = 1 /\ logs = <<>> /\ rewards = 0 /\ notices = 0
  BY DEF Init
<1> QED
  BY <1>1, <1>2, <1>3, <1>4 DEF CountInv, Backed

LEMMA NextCountInv == TypeInv /\ CountInv /\ [Next]_vars => CountInv'
<1> SUFFICES ASSUME TypeInv, CountInv, [Next]_vars PROVE CountInv'
  OBVIOUS
<1>0. /\ pc \in [Worker -> PC] /\ row \in RowType /\ rewards \in Nat /\ notices \in Nat
      /\ logs \in Seq(LogType) /\ Len(logs) \in Nat /\ row.version \in Nat
      /\ row.verified \in BOOLEAN
      /\ \A w \in Worker : JobOK(pc[w], job[w])
      /\ (notices > 0 => row.verified)
      /\ \A w \in Worker : pc[w] = "notify" => row.verified
  BY DEF TypeInv, TypeOK, CountInv, RowType
<1>1. ASSUME NEW w \in Worker, NEW l, pc' = [pc EXCEPT ![w] = l], logs' \in Seq(LogType),
             Counts(w, l, LoggingPC, Len(logs), Len(logs')),
             Counts(w, l, WrittenPC, rewards, rewards'),
             Counts(w, l, NoticingPC, notices, notices'),
             notices' > 0 => row'.verified, row.verified => row'.verified,
             l = "notify" => row'.verified
      PROVE  CountInv'
  <2>1. Backed(Len(logs), LoggingPC) /\ Backed(rewards, WrittenPC) /\ Backed(notices, NoticingPC)
    BY DEF CountInv
  <2>2. Backed(Len(logs), LoggingPC)'
    BY <1>0, <1>1, <2>1, BackedStep DEF Backed
  <2>3. Backed(rewards, WrittenPC)'
    BY <1>0, <1>1, <2>1, BackedStep DEF Backed
  <2>4. Backed(notices, NoticingPC)'
    BY <1>0, <1>1, <2>1, BackedStep DEF Backed
  <2>5. \A v \in Worker : pc'[v] = "notify" => row'.verified
    BY <1>0, <1>1
  <2> QED
    BY <1>1, <2>2, <2>3, <2>4, <2>5 DEF CountInv
<1> USE DEF Goto, Respond, Start, LoggingPC, NoticingPC, WrittenPC, TryPC, tables
<1>2. ASSUME NEW w \in Worker, NEW l, pc' = [pc EXCEPT ![w] = l],
             l \in WrittenPC => pc[w] \in WrittenPC,
             l \in LoggingPC => pc[w] \in LoggingPC, l \in NoticingPC => pc[w] \in NoticingPC,
             l = "notify" => row'.verified,
             row'.version \in {row.version, row.version + 1}, row.verified => row'.verified,
             UNCHANGED <<logs, rewards, notices>>
      PROVE  CountInv'
  <2>1. Counts(w, l, LoggingPC, Len(logs), Len(logs'))
    BY <1>2 DEF Counts
  <2>2. Counts(w, l, WrittenPC, rewards, rewards')
    BY <1>2 DEF Counts
  <2>3. Counts(w, l, NoticingPC, notices, notices')
    BY <1>2 DEF Counts
  <2> QED
    BY <1>0, <1>1, <1>2, <2>1, <2>2, <2>3
<1>3. ASSUME NEW w \in Worker, NEW p \in Patch, NEW i \in Known, PatchStart(w, p, i)
      PROVE  CountInv'
  BY <1>0, <1>2, <1>3 DEF PatchStart
<1>4. ASSUME NEW w \in Worker, PatchLoad(w) PROVE CountInv'
  BY <1>0, <1>2, <1>4 DEF PatchLoad
<1>5. ASSUME NEW w \in Worker, PatchSnapshot(w) PROVE CountInv'
  BY <1>0, <1>2, <1>5 DEF PatchSnapshot
<1>6. ASSUME NEW w \in Worker, PatchValidate(w) PROVE CountInv'
  BY <1>0, <1>2, <1>6 DEF PatchValidate
<1>7. ASSUME NEW w \in Worker, PatchUpload(w) PROVE CountInv'
  BY <1>0, <1>2, <1>7 DEF PatchUpload
<1>8. ASSUME NEW w \in Worker, PatchUpdate(w) PROVE CountInv'
  <2> DEFINE l == FromRepeat(job[w])
  <2>1. row'.version = row.version + 1 /\ row'.verified = row.verified
    BY <1>0, <1>8 DEF PatchUpdate, RowType
  <2>2. pc' = [pc EXCEPT ![w] = l] /\ UNCHANGED <<logs, rewards, notices>>
    BY <1>8 DEF PatchUpdate
  <2>3. l # "notify"
    BY NextCall
  <2> HIDE DEF l
  <2>4. Counts(w, l, LoggingPC, Len(logs), Len(logs'))
    BY <2>1, <2>2 DEF Counts
  <2>5. Counts(w, l, WrittenPC, rewards, rewards')
    BY <2>1, <2>2 DEF Counts
  <2>6. Counts(w, l, NoticingPC, notices, notices')
    BY <2>1, <2>2 DEF Counts
  <2> QED
    BY <1>0, <1>1, <2>1, <2>2, <2>3, <2>4, <2>5, <2>6
<1>9. ASSUME NEW w \in Worker, PatchRepeat(w) PROVE CountInv'
  <2>1. FromWindow(job[w]) \in {"window", "verify", "dropOld", "log", "reward"}
    BY NextCall
  <2> QED
    BY <1>0, <1>2, <1>9, <2>1 DEF PatchRepeat
<1>10. ASSUME NEW w \in Worker, PatchWindow(w) PROVE CountInv'
  <2>1. FromVerify(job[w]) \in {"verify", "dropOld", "log", "reward"}
    BY NextCall
  <2> QED
    BY <1>0, <1>2, <1>10, <2>1 DEF PatchWindow
<1>11. ASSUME NEW w \in Worker, PatchVerify(w) PROVE CountInv'
  BY <1>0, <1>2, <1>11 DEF PatchVerify
<1>12. ASSUME NEW w \in Worker, PatchMark(w) PROVE CountInv'
  <2>1. row'.version = row.version /\ row'.verified
    BY <1>0, <1>12 DEF PatchMark, RowType
  <2> QED
    BY <1>0, <1>2, <1>12, <2>1 DEF PatchMark
<1>13. ASSUME NEW w \in Worker, PatchNotify(w) PROVE CountInv'
  <2> DEFINE l == FromDrop(job[w])
  <2>1. l \in {"dropOld", "log", "reward"}
    BY NextCall
  <2>2. /\ pc' = [pc EXCEPT ![w] = l] /\ pc[w] = "notify" /\ notices' = notices + 1
        /\ UNCHANGED <<row, logs, rewards>>
    BY <1>13 DEF PatchNotify
  <2> HIDE DEF l
  <2>4. Counts(w, l, LoggingPC, Len(logs), Len(logs'))
    BY <2>1, <2>2 DEF Counts
  <2>5. Counts(w, l, WrittenPC, rewards, rewards')
    BY <2>1, <2>2 DEF Counts
  <2>6. Counts(w, l, NoticingPC, notices, notices')
    BY <2>1, <2>2 DEF Counts
  <2> QED
    BY <1>0, <1>1, <2>1, <2>2, <2>4, <2>5, <2>6
<1>14. ASSUME NEW w \in Worker, PatchDropOldCover(w) PROVE CountInv'
  <2>1. FromLog(job[w]) \in {"log", "reward"}
    BY NextCall
  <2> QED
    BY <1>0, <1>2, <1>14, <2>1 DEF PatchDropOldCover
<1>15. ASSUME NEW w \in Worker, PatchLog(w) PROVE CountInv'
  <2>1. job[w] \in PatchJob
    BY <1>0, <1>15 DEF PatchLog, JobOK, PatchPC, LoadedPC, SnapPC
  <2>2. LogOf(job[w]) \in LogType
    BY <2>1 DEF LogType
  <2>3. /\ pc' = [pc EXCEPT ![w] = "reward"] /\ pc[w] = "log"
        /\ logs' = Append(logs, LogOf(job[w]))
        /\ UNCHANGED <<row, rewards, notices>>
    BY <1>15 DEF PatchLog
  <2>3a. logs' \in Seq(LogType) /\ Len(logs') = Len(logs) + 1
    BY <1>0, <2>2, <2>3
  <2>4. Counts(w, "reward", LoggingPC, Len(logs), Len(logs'))
    BY <2>3, <2>3a DEF Counts
  <2>5. Counts(w, "reward", WrittenPC, rewards, rewards')
    BY <2>3 DEF Counts
  <2>6. Counts(w, "reward", NoticingPC, notices, notices')
    BY <2>3 DEF Counts
  <2> QED
    BY <1>0, <1>1, <2>3, <2>3a, <2>4, <2>5, <2>6
<1>16. ASSUME NEW w \in Worker, PatchReward(w) PROVE CountInv'
  <2>3. /\ pc' = [pc EXCEPT ![w] = "idle"] /\ pc[w] = "reward"
        /\ rewards' = rewards + 1 /\ UNCHANGED <<row, logs, notices>>
    BY <1>16 DEF PatchReward
  <2>4. Counts(w, "idle", LoggingPC, Len(logs), Len(logs'))
    BY <2>3 DEF Counts
  <2>5. Counts(w, "idle", WrittenPC, rewards, rewards')
    BY <2>3 DEF Counts
  <2>6. Counts(w, "idle", NoticingPC, notices, notices')
    BY <2>3 DEF Counts
  <2> QED
    BY <1>0, <1>1, <2>3, <2>4, <2>5, <2>6
<1>17. ASSUME NEW w \in Worker, PatchRollback(w) PROVE CountInv'
  BY <1>0, <1>2, <1>17 DEF PatchRollback
<1>18. ASSUME NEW w \in Worker, NEW u \in User, NEW b \in BOOLEAN, ToggleStart(w, u, b)
       PROVE  CountInv'
  BY <1>0, <1>2, <1>18 DEF ToggleStart
<1>19. ASSUME NEW w \in Worker, ToggleFind(w) PROVE CountInv'
  BY <1>0, <1>2, <1>19 DEF ToggleFind
<1>20. ASSUME NEW w \in Worker, ToggleWrite(w) PROVE CountInv'
  <2>1. row'.version = row.version + 1 /\ row'.verified = row.verified
    BY <1>0, <1>20 DEF ToggleWrite, RowType
  <2> QED
    BY <1>0, <1>2, <1>20, <2>1 DEF ToggleWrite
<1>21. ASSUME NEW w \in Worker, NEW u \in User, DeleteStart(w, u) PROVE CountInv'
  BY <1>0, <1>2, <1>21 DEF DeleteStart
<1>22. ASSUME NEW w \in Worker, DeleteLoad(w) PROVE CountInv'
  BY <1>0, <1>2, <1>22 DEF DeleteLoad
<1>23. ASSUME NEW w \in Worker, DeleteWrite(w) PROVE CountInv'
  <2>1. row'.version = row.version /\ row'.verified = row.verified
    BY <1>0, <1>23 DEF DeleteWrite, RowType
  <2> QED
    BY <1>0, <1>2, <1>23, <2>1 DEF DeleteWrite
<1>24. ASSUME NEW w \in Worker, Fault(w) PROVE CountInv'
  BY <1>0, <1>2, <1>24 DEF Fault
<1>25. CASE UNCHANGED vars
  BY <1>25 DEF CountInv, Backed, Calling, vars
<1> QED
  BY <1>3, <1>4, <1>5, <1>6, <1>7, <1>8, <1>9, <1>10, <1>11, <1>12, <1>13, <1>14, <1>15,
     <1>16, <1>17, <1>18, <1>19, <1>20, <1>21, <1>22, <1>23, <1>24, <1>25 DEF Next

LEMMA CountInvEnough == TypeInv /\ CountInv => OneLogAndRewardPerWrite
<1> SUFFICES ASSUME TypeInv, CountInv PROVE OneLogAndRewardPerWrite
  OBVIOUS
<1>1. row.version \in Nat /\ rewards \in Nat /\ notices \in Nat /\ Len(logs) \in Nat
  BY DEF TypeInv, TypeOK, CountInv
<1>2. ASSUME NEW n \in Nat, NEW S, Backed(n, S) PROVE n < row.version
  <2>1. Cardinality(Calling(S)) \in Nat /\ n + Cardinality(Calling(S)) < row.version
    BY <1>2, FS_CardinalityType DEF Backed
  <2> QED
    BY <1>1, <2>1
<1>3. Backed(Len(logs), LoggingPC) /\ Backed(rewards, WrittenPC) /\ Backed(notices, NoticingPC)
      /\ (notices > 0 => row.verified)
  BY DEF CountInv
<1> QED
  BY <1>1, <1>2, <1>3 DEF OneLogAndRewardPerWrite

-----------------------------------------------------------------------------
(* The cover of a live event is in the bucket.                             *)

\* The calls of an edit between the write of the row and the deletion of the image
\* it replaced, that included.
DroppingPC == {"repeat", "window", "verify", "mark", "notify", "dropOld"}

\* What holds of a request by itself, its local state being j and its next call l:
\* images it only names are known, and the one it is about to store is not.
CoverOK(l, j) ==
  /\ l \in LoadedPC => j.oldCover \in Known
  /\ l \in PatchPC => j.url \in Known
  /\ l \in PatchPC /\ j.newCover # None => j.newCover < uploads
  /\ l = "rollback" /\ faults = 0 => row.deleted
  /\ l \in DroppingPC /\ j.newCover # None /\ "gone" \notin given
       => j.oldCover # row.cover \/ j.oldCover = Outside
  /\ l = "update" /\ j.newCover # None => j.newCover \in objects /\ j.newCover \notin Known

\* The image the request (l, j) is about to store is not the one that the request
\* (m, k) has uploaded.
NotNew(l, j, m, k) ==
  l = "update" /\ j.newCover # None /\ m \in PatchPC => k.newCover # j.newCover

CoverInv ==
  /\ row.cover \in Known
  /\ \A i \in Known \ {Outside} : i < uploads
  /\ NoDanglingCover
  /\ \A w \in Worker : CoverOK(pc[w], job[w])
  /\ \A v, w \in Worker : v # w => NotNew(pc[v], job[v], pc[w], job[w])

\* What one more version adds to the images that clients can name.
LEMMA KnownNow ==
  ASSUME past \in Seq(TrackedType), NEW r \in RowType, past' = Append(past, Tracked(r))
  PROVE  Known' = Known \cup {r.cover}
<1> DEFINE t == Tracked(r)
<1>1. t \in TrackedType /\ t.cover = r.cover
  BY DEF TrackedType, Tracked, Patched, Column
<1>2. past' = Append(past, t)
  OBVIOUS
<1> HIDE DEF t
<1>3. /\ Len(past) \in Nat /\ Len(past') = Len(past) + 1 /\ past'[Len(past) + 1] = t
      /\ \A v \in 1..Len(past) : past'[v] = past[v]
  BY <1>1, <1>2
<1>4. {past'[v].cover : v \in 1..Len(past')} = {past[v].cover : v \in 1..Len(past)} \cup {t.cover}
  <2>1. ASSUME NEW v \in 1..Len(past')
        PROVE  past'[v].cover \in {past[u].cover : u \in 1..Len(past)} \cup {t.cover}
    <3>1. v \in 1..Len(past) \/ v = Len(past) + 1
      BY <1>3
    <3> QED
      BY <1>3, <3>1
  <2>2. ASSUME NEW v \in 1..Len(past)
        PROVE  past[v].cover \in {past'[u].cover : u \in 1..Len(past')}
    BY <1>3
  <2>3. t.cover \in {past'[u].cover : u \in 1..Len(past')}
    BY <1>3
  <2> QED
    BY <2>1, <2>2, <2>3
<1> QED
  BY <1>1, <1>4 DEF Known

LEMMA InitCoverInv == Init => CoverInv
<1> SUFFICES ASSUME Init PROVE CoverInv
  OBVIOUS
<1>1. \A w \in Worker : pc[w] = "idle"
  BY DEF Init
<1>2. row.cover \in {0, Outside} /\ objects = {row.cover} \ {Outside} /\ uploads = 1
  BY DEF Init
<1>3. NoDanglingCover
  BY <1>2 DEF NoDanglingCover
<1>4. \A w \in Worker : CoverOK(pc[w], job[w])
  BY <1>1 DEF CoverOK, PatchPC, LoadedPC, SnapPC, WrittenPC, TryPC, DroppingPC
<1>5. \A v, w \in Worker : NotNew(pc[v], job[v], pc[w], job[w])
  BY <1>1 DEF NotNew
<1>6. Known = {Outside, row.cover}
  <2> DEFINE t == Tracked(row)
  <2>1. past = <<t>> /\ t.cover = row.cover
    BY DEF Init, Tracked, Patched, Column
  <2> HIDE DEF t
  <2> QED
    BY <2>1 DEF Known
<1>7. row.cover \in Known /\ \A i \in Known \ {Outside} : i < uploads
  BY <1>2, <1>6
<1> QED
  BY <1>3, <1>4, <1>5, <1>7 DEF CoverInv

\* A step of w that neither reads the row's cover nor writes it nor uploads one;
\* the images it deletes are not those that the others rely on.
LEMMA CoverKept ==
  ASSUME TypeInv, CoverInv, NEW w \in Worker, NEW l, NEW j, Goes(w, l, j),
         row'.cover = row.cover, row.deleted => row'.deleted, uploads' = uploads,
         Known' = Known, given' = given, faults' = 0 => faults = 0,
         l \in LoadedPC => pc[w] \in LoadedPC /\ j.oldCover = job[w].oldCover,
         l \in PatchPC => j.url \in Known,
         l \in PatchPC => \/ j.newCover = None
                          \/ pc[w] \in PatchPC /\ j.newCover = job[w].newCover,
         l \in DroppingPC => pc[w] \in DroppingPC,
         l = "update" => j.newCover = None,
         l = "rollback" /\ faults' = 0 => row'.deleted,
         \A v \in Worker \ {w} : pc[v] = "update" /\ job[v].newCover \in objects
                                   => job[v].newCover \in objects',
         NoDanglingCover'
  PROVE  CoverInv'
<1>1. pc \in [Worker -> PC] /\ pc'[w] = l /\ job'[w] = j
      /\ \A v \in Worker \ {w} : pc'[v] = pc[v] /\ job'[v] = job[v]
  BY DEF Goes, TypeInv, TypeOK
<1>2. ASSUME NEW v \in Worker PROVE CoverOK(pc[v], job[v])'
  <2>1. CoverOK(pc[v], job[v])
    BY DEF CoverInv
  <2>2. CASE v = w
    <3>1. DroppingPC \subseteq LoadedPC /\ LoadedPC \subseteq PatchPC
      BY DEF PatchPC, LoadedPC, SnapPC, TryPC, DroppingPC
    <3>2. l \in LoadedPC => j.oldCover \in Known
      BY <2>1, <2>2 DEF CoverOK
    <3>3. l \in PatchPC /\ j.newCover # None => j.newCover < uploads
      BY <2>1, <2>2 DEF CoverOK
    <3>4. l \in DroppingPC /\ j.newCover # None /\ "gone" \notin given
            => j.oldCover # row.cover \/ j.oldCover = Outside
      BY <2>1, <2>2, <3>1 DEF CoverOK
    <3> QED
      BY <1>1, <2>2, <3>2, <3>3, <3>4 DEF CoverOK
  <2>3. CASE v # w
    BY <1>1, <2>1, <2>3 DEF CoverOK
  <2> QED
    BY <2>2, <2>3
<1>3. ASSUME NEW u \in Worker, NEW v \in Worker, u # v
      PROVE  NotNew(pc[u], job[u], pc[v], job[v])'
  <2>1. NotNew(pc[u], job[u], pc[v], job[v])
    BY <1>3 DEF CoverInv
  <2> QED
    BY <1>1, <1>3, <2>1 DEF NotNew
<1>4. row'.cover \in Known' /\ \A i \in Known' \ {Outside} : i < uploads'
  BY DEF CoverInv
<1> QED
  BY <1>2, <1>3, <1>4 DEF CoverInv

LEMMA NextCoverInv == TypeInv /\ CoverInv /\ [Next]_vars => CoverInv'
<1> SUFFICES ASSUME TypeInv, CoverInv, [Next]_vars PROVE CoverInv'
  OBVIOUS
<1>0. /\ pc \in [Worker -> PC] /\ row \in RowType /\ DOMAIN job = Worker
      /\ row.cover \in Cover /\ row.deleted \in BOOLEAN
      /\ objects \subseteq Nat /\ uploads \in Nat /\ faults \in Nat
      /\ past \in Seq(TrackedType)
      /\ \A w \in Worker : JobOK(pc[w], job[w]) /\ CoverOK(pc[w], job[w])
      /\ row.cover \in Known /\ Outside \in Known
  BY DEF TypeInv, TypeOK, RowType, CoverInv, Cover, Known
<1>1. /\ NoDanglingCover
      /\ \A v, w \in Worker : v # w => NotNew(pc[v], job[v], pc[w], job[w])
      /\ \A i \in Known \ {Outside} : i < uploads
      /\ \A i \in Known : i \in Cover
  BY <1>0, KnownCover DEF CoverInv
<1>K. past' = past => Known' = Known
  BY DEF Known
<1> DEFINE Covers == <<objects, uploads, faults, given, past>>
<1> USE DEF tables
\* Steps that write no cover.
<1>2. ASSUME NEW w \in Worker, NEW l, NEW j, Goes(w, l, j),
             UNCHANGED <<objects, uploads, faults, given>>, Known' = Known,
             row'.cover = row.cover, row.deleted => row'.deleted,
             l \in LoadedPC => pc[w] \in LoadedPC /\ j.oldCover = job[w].oldCover,
             l \in PatchPC => j.url \in Known,
             l \in PatchPC => \/ j.newCover = None
                              \/ pc[w] \in PatchPC /\ j.newCover = job[w].newCover,
             l \in DroppingPC => pc[w] \in DroppingPC, l = "update" => j.newCover = None,
             l = "rollback" => row'.deleted
      PROVE  CoverInv'
  <2>1. NoDanglingCover'
    BY <1>0, <1>1, <1>2 DEF NoDanglingCover
  <2> QED
    BY <1>2, <2>1, CoverKept
\* A new request, an answered one, and one that goes on as it is.
<1>3. ASSUME NEW w \in Worker, NEW l \in {"bare", "toggleFind", "deleteLoad"}, NEW j, Start(w, l),
             job' = [job EXCEPT ![w] = j], l = "bare" => j.newCover = None /\ j.url \in Known
      PROVE  CoverInv'
  <2>1. Goes(w, l, j) /\ UNCHANGED Covers /\ row' = row
    BY <1>3, GoesTo DEF Start, PC
  <2>2. l \notin LoadedPC /\ l \notin DroppingPC /\ l # "update" /\ l # "rollback"
        /\ (l \in PatchPC => l = "bare")
    BY DEF LoadedPC, SnapPC, DroppingPC, TryPC, PatchPC
  <2> QED
    BY <1>2, <1>3, <1>K, <2>1, <2>2
<1>4. ASSUME NEW w \in Worker, Respond(w), UNCHANGED <<objects, uploads, faults, given>>,
             Known' = Known, row'.cover = row.cover, row.deleted => row'.deleted
      PROVE  CoverInv'
  <2>1. Goes(w, "idle", None)
    BY <1>4, GoesTo DEF Respond, PC
  <2> QED
    BY <1>2, <1>4, <2>1 DEF LoadedPC, SnapPC, DroppingPC, TryPC, PatchPC
<1>5. ASSUME NEW w \in Worker, NEW l \in PC, Goto(w, l), job' = job, UNCHANGED Covers,
             row'.cover = row.cover, row.deleted => row'.deleted,
             l \in LoadedPC => pc[w] \in LoadedPC,
             l \in PatchPC => pc[w] \in PatchPC,
             l \in DroppingPC => pc[w] \in DroppingPC, l = "update" => job[w].newCover = None,
             l = "rollback" => row'.deleted
      PROVE  CoverInv'
  <2>1. Goes(w, l, job[w])
    BY <1>5, GoesTo
  <2>2. l \in PatchPC => job[w].url \in Known
    BY <1>0, <1>5 DEF CoverOK
  <2> QED
    BY <1>2, <1>5, <1>K, <2>1, <2>2
<1> USE DEF DroppingPC, TryPC, PatchPC, LoadedPC, SnapPC, PC
<1>6. ASSUME NEW w \in Worker, NEW p \in Patch, NEW i \in Known, PatchStart(w, p, i)
      PROVE  CoverInv'
  <2> DEFINE j == [NewJob("patch", None, p, None) EXCEPT !.url = i]
  <2>1. j.newCover = None /\ j.url = i
    BY DEF NewJob
  <2>2. Start(w, "bare") /\ job' = [job EXCEPT ![w] = j]
    BY <1>6 DEF PatchStart
  <2> HIDE DEF j
  <2> QED
    BY <1>3, <2>1, <2>2
<1>7. ASSUME NEW w \in Worker, PatchLoad(w) PROVE CoverInv'
  <2>0. pc[w] = "bare" /\ job[w] \in PatchJob /\ job[w].newCover = None
        /\ UNCHANGED <<row, objects, uploads, faults, given, past>>
    BY <1>0, <1>7 DEF PatchLoad, JobOK, EarlyPC
  <2>1. CASE Respond(w)
    BY <1>4, <1>K, <2>0, <2>1
  <2>2. ASSUME Goto(w, "audit"), job' = [job EXCEPT ![w].oldCover = row.cover] PROVE CoverInv'
    <3> DEFINE j == [job[w] EXCEPT !.oldCover = row.cover]
    <3>1. Goes(w, "audit", j)
      BY <1>0, <2>2, GoesTo
    <3>2. j.oldCover = row.cover /\ j.newCover = None /\ j.url = job[w].url
      BY <2>0 DEF PatchJob
    <3> HIDE DEF j
    <3>3. pc'[w] = "audit" /\ job'[w] = j
          /\ \A v \in Worker \ {w} : pc'[v] = pc[v] /\ job'[v] = job[v]
      BY <1>0, <3>1 DEF Goes
    <3>4. Known' = Known
      BY <1>K, <2>0
    <3>5. ASSUME NEW v \in Worker PROVE CoverOK(pc[v], job[v])'
      <4>1. CoverOK(pc[v], job[v])
        BY <1>0
      <4>2. CASE v = w
        BY <1>0, <2>0, <3>2, <3>3, <3>4, <4>1, <4>2 DEF CoverOK
      <4>3. CASE v # w
        BY <2>0, <3>3, <3>4, <4>1, <4>3 DEF CoverOK
      <4> QED
        BY <4>2, <4>3
    <3>6. ASSUME NEW u \in Worker, NEW v \in Worker, u # v
          PROVE  NotNew(pc[u], job[u], pc[v], job[v])'
      <4>1. NotNew(pc[u], job[u], pc[v], job[v])
        BY <1>1, <3>6
      <4> QED
        BY <2>0, <3>2, <3>3, <3>6, <4>1 DEF NotNew
    <3>7. NoDanglingCover' /\ row'.cover \in Known' /\ \A i \in Known' \ {Outside} : i < uploads'
      BY <1>0, <1>1, <2>0, <3>4 DEF NoDanglingCover
    <3> QED
      BY <3>5, <3>6, <3>7 DEF CoverInv
  <2> QED
    BY <1>7, <2>1, <2>2 DEF PatchLoad
<1>8. ASSUME NEW w \in Worker, PatchSnapshot(w) PROVE CoverInv'
  <2>0. pc[w] = "audit" /\ job[w] \in PatchJob
        /\ UNCHANGED <<row, objects, uploads, faults, given, past>>
    BY <1>0, <1>8 DEF PatchSnapshot, JobOK
  <2>1. CASE Respond(w)
    BY <1>4, <1>K, <2>0, <2>1
  <2>2. ASSUME NEW b, Goto(w, "validate"), job' = [job EXCEPT ![w].before = b] PROVE CoverInv'
    <3> DEFINE j == [job[w] EXCEPT !.before = b]
    <3>1. Goes(w, "validate", j)
      BY <1>0, <2>2, GoesTo
    <3>2. job[w].newCover = None /\ job[w].url \in Known
      BY <1>0, <2>0 DEF JobOK, EarlyPC, CoverOK
    <3>3. j.oldCover = job[w].oldCover /\ j.newCover = None /\ j.url \in Known
      BY <2>0, <3>2 DEF PatchJob
    <3> HIDE DEF j
    <3> QED
      BY <1>2, <1>K, <2>0, <3>1, <3>3
  <2> QED
    BY <1>8, <2>1, <2>2 DEF PatchSnapshot
<1>9. ASSUME NEW w \in Worker, PatchValidate(w) PROVE CoverInv'
  <2>1. job[w].newCover = None
    BY <1>0, <1>9 DEF PatchValidate, JobOK, EarlyPC
  <2> QED
    BY <1>4, <1>5, <1>9, <1>K, <2>1 DEF PatchValidate
<1>10. ASSUME NEW w \in Worker, PatchUpload(w) PROVE CoverInv'
  <2> DEFINE j == [job[w] EXCEPT !.newCover = uploads]
  <2>1. Goes(w, "update", j)
    BY <1>0, <1>10, GoesTo DEF PatchUpload
  <2>2. pc[w] = "upload" /\ job[w] \in PatchJob
        /\ objects' = objects \cup {uploads} /\ uploads' = uploads + 1
        /\ UNCHANGED <<row, faults, given, past>>
    BY <1>0, <1>10 DEF PatchUpload, JobOK
  <2>3. j.oldCover = job[w].oldCover /\ j.newCover = uploads /\ j.url = job[w].url
    BY <2>2 DEF PatchJob
  <2> HIDE DEF j
  <2>4. pc'[w] = "update" /\ job'[w] = j
        /\ \A v \in Worker \ {w} : pc'[v] = pc[v] /\ job'[v] = job[v]
    BY <1>0, <2>1 DEF Goes
  <2>5. \A v \in Worker :
          pc[v] \in PatchPC => job[v].newCover \in Nat \cup {None} /\ job[v].newCover # uploads
    <3> SUFFICES ASSUME NEW v \in Worker, pc[v] \in PatchPC
                 PROVE  job[v].newCover \in Nat \cup {None} /\ job[v].newCover # uploads
      OBVIOUS
    <3>1. /\ job[v].newCover \in Nat \cup {None}
          /\ job[v].newCover # None => job[v].newCover < uploads
      BY <1>0 DEF JobOK, CoverOK, PatchJob
    <3>2. uploads # None
      BY <1>0, EventEditAssumption
    <3> QED
      BY <1>0, <3>1, <3>2
  <2>6. uploads \notin Known /\ Known' = Known
    <3>1. uploads # Outside
      BY <1>0, EventEditAssumption
    <3> QED
      BY <1>0, <1>1, <1>K, <2>2, <3>1
  <2>7. ASSUME NEW v \in Worker PROVE CoverOK(pc[v], job[v])'
    <3>1. CoverOK(pc[v], job[v])
      BY <1>0
    <3>2. CASE v = w
      BY <1>0, <2>2, <2>3, <2>4, <2>6, <3>1, <3>2 DEF CoverOK
    <3>3. CASE v # w
      <4>1. pc'[v] = pc[v] /\ job'[v] = job[v]
        BY <2>4, <3>3
      <4>2. pc[v] \in PatchPC => job[v].newCover \in Nat \cup {None}
        BY <2>5
      <4>3. pc[v] \in PatchPC /\ job[v].newCover # None => job[v].newCover < uploads'
        BY <1>0, <2>2, <3>1, <4>2 DEF CoverOK
      <4> QED
        BY <2>2, <2>6, <3>1, <4>1, <4>3 DEF CoverOK
    <3> QED
      BY <3>2, <3>3
  <2>9. ASSUME NEW u \in Worker, NEW v \in Worker, u # v
        PROVE  NotNew(pc[u], job[u], pc[v], job[v])'
    <3>1. NotNew(pc[u], job[u], pc[v], job[v]) /\ CoverOK(pc[u], job[u])
      BY <1>0, <1>1, <2>9
    <3> QED
      BY <2>2, <2>3, <2>4, <2>5, <2>9, <3>1 DEF NotNew
  <2>10. NoDanglingCover' /\ row'.cover \in Known' /\ \A i \in Known' \ {Outside} : i < uploads'
    <3>1. NoDanglingCover' /\ row'.cover \in Known'
      BY <1>0, <1>1, <2>2, <2>6 DEF NoDanglingCover
    <3>2. ASSUME NEW i \in Known \ {Outside} PROVE i < uploads + 1
      <4>1. i \in Nat /\ i < uploads
        BY <1>1, <3>2 DEF Cover
      <4> QED
        BY <1>0, <4>1
    <3> QED
      BY <2>2, <2>6, <3>1, <3>2
  <2> QED
    BY <2>7, <2>9, <2>10 DEF CoverInv
<1>11. ASSUME NEW w \in Worker, PatchUpdate(w) PROVE CoverInv'
  <2> DEFINE l == FromRepeat(job[w])
  <2>0. row' \in RowType
    BY NextTypeInv DEF TypeInv, TypeOK, RowType
  <2>1. /\ pc[w] = "update" /\ Goto(w, l) /\ UNCHANGED <<objects, uploads, faults>>
        /\ row'.deleted = row.deleted
        /\ row'.cover = IF InPatch(job[w], "cover") THEN NewValue(job[w], "cover") ELSE row.cover
        /\ past' = Append(past, Tracked(row'))
        /\ given' = given \cup URLKinds(job[w])
    BY <1>0, <1>11 DEF PatchUpdate, RowType
  <2>2. job[w] \in PatchJob /\ job[w].oldCover \in Known /\ job[w].url \in Known
        /\ (job[w].newCover # None => job[w].patch.cover = "file")
        /\ job[w].patch.cover \in {"absent", "file", "url"}
        /\ (job[w].patch.cover = "file" => job[w].newCover # None)
    BY <1>0, <2>1 DEF JobOK, CoverOK, PatchJob, PatchType
  <2>3. PICK j : Goes(w, l, j) /\ j.oldCover = job[w].oldCover /\ j.newCover = job[w].newCover
                 /\ j.url = job[w].url
    <3>1. PICK x, y : job' = [job EXCEPT ![w].created = x, ![w].effect = y]
      BY <1>11 DEF PatchUpdate
    <3>2. l \in PC
      BY NextCall
    <3>3. Goes(w, l, [job[w] EXCEPT !.created = x, !.effect = y])
      BY <1>0, <2>1, <3>1, <3>2 DEF Goes, Goto
    <3>4. [job[w] EXCEPT !.created = x, !.effect = y].oldCover = job[w].oldCover
          /\ [job[w] EXCEPT !.created = x, !.effect = y].newCover = job[w].newCover
          /\ [job[w] EXCEPT !.created = x, !.effect = y].url = job[w].url
      BY <2>2 DEF PatchJob
    <3> QED
      BY <3>3, <3>4
  <2>3a. l \in PatchPC /\ l # "rollback" /\ l # "update"
    BY NextCall
  <2> HIDE DEF l
  <2>4. pc'[w] = l /\ job'[w] = j /\ \A v \in Worker \ {w} : pc'[v] = pc[v] /\ job'[v] = job[v]
    BY <1>0, <2>3 DEF Goes
  <2>5. Known' = Known \cup {row'.cover}
    BY <1>0, <2>0, <2>1, KnownNow
  \* The row keeps its cover, gets a URL, or gets the image just uploaded.
  <2>6. \/ row'.cover = row.cover /\ j.newCover = None
        \/ row'.cover = j.url /\ job[w].patch.cover = "url" /\ j.newCover = None
        \/ row'.cover = j.newCover /\ j.newCover # None
    BY <2>1, <2>2, <2>3 DEF InPatch, NewValue
  <2>7. j.newCover # None => /\ j.newCover \in objects /\ j.newCover \in Nat /\ j.newCover < uploads
                             /\ j.newCover \notin Known /\ row'.cover = j.newCover
    BY <1>0, <2>1, <2>2, <2>3 DEF CoverOK, InPatch, NewValue
  <2>8. row'.cover \in Known \/ (j.newCover # None /\ row'.cover = j.newCover)
    BY <1>0, <2>2, <2>3, <2>6
  <2>9. "gone" \notin given' => "gone" \notin given
    BY <2>1
  \* What is about to be deleted is not named without its being recorded.
  <2>10. ASSUME NEW v \in Worker \ {w}, pc[v] \in DroppingPC, job[v].newCover # None,
                "gone" \notin given'
         PROVE  job[v].oldCover # row'.cover \/ job[v].oldCover = Outside
    <3>1. CoverOK(pc[v], job[v]) /\ "gone" \notin given
      BY <1>0, <2>9, <2>10
    <3>2. CASE row'.cover = row.cover
      BY <2>10, <3>1, <3>2 DEF CoverOK
    <3>3. CASE row'.cover = j.newCover /\ j.newCover # None
      BY <2>7, <2>10, <3>1, <3>3 DEF CoverOK
    <3>4. CASE row'.cover = j.url /\ job[w].patch.cover = "url"
      <4>1. ~Doomed(j.url) \/ j.url = Outside
        BY <2>1, <2>3, <2>10, <3>4 DEF URLKinds
      <4>2. job[v].oldCover = j.url => Doomed(j.url)
        BY <2>10 DEF Doomed
      <4> QED
        BY <3>4, <4>1, <4>2
    <3> QED
      BY <2>6, <3>2, <3>3, <3>4
  <2>11. ASSUME NEW v \in Worker PROVE CoverOK(pc[v], job[v])'
    <3>1. CoverOK(pc[v], job[v])
      BY <1>0
    <3>2. CASE v = w
      <4>1. j.oldCover \in Known' /\ j.url \in Known'
            /\ (j.newCover # None => j.newCover < uploads')
        BY <2>1, <2>2, <2>3, <2>5, <2>7
      <4>2. j.newCover # None => j.oldCover # row'.cover
        BY <2>2, <2>3, <2>7
      <4>3. pc'[v] = l /\ job'[v] = j
        BY <2>4, <3>2
      <4> QED
        BY <2>3a, <4>1, <4>2, <4>3 DEF CoverOK
    <3>3. CASE v # w
      <4>1. pc'[v] = pc[v] /\ job'[v] = job[v]
        BY <2>4, <3>3
      <4>2. pc[v] \in DroppingPC /\ job[v].newCover # None /\ "gone" \notin given'
              => job[v].oldCover # row'.cover \/ job[v].oldCover = Outside
        BY <2>10, <3>3
      <4>3. pc[v] = "update" /\ job[v].newCover # None => job[v].newCover \notin Known'
        <5> SUFFICES ASSUME pc[v] = "update", job[v].newCover # None
                     PROVE  job[v].newCover \notin Known'
          OBVIOUS
        <5>1. job[v].newCover \notin Known
          BY <3>1 DEF CoverOK
        <5>2. NotNew(pc[v], job[v], pc[w], job[w])
          BY <1>1, <3>3
        <5>3. job[w].newCover # job[v].newCover
          BY <2>1, <5>2 DEF NotNew
        <5> QED
          BY <2>3, <2>5, <2>8, <5>1, <5>3
      <4> QED
        BY <2>1, <2>5, <3>1, <4>1, <4>2, <4>3 DEF CoverOK
    <3> QED
      BY <3>2, <3>3
  <2>12. ASSUME NEW u \in Worker, NEW v \in Worker, u # v
         PROVE  NotNew(pc[u], job[u], pc[v], job[v])'
    <3>1. NotNew(pc[u], job[u], pc[v], job[v])
      BY <1>1, <2>12
    <3> QED
      BY <2>1, <2>3, <2>3a, <2>4, <2>12, <3>1 DEF NotNew
  <2>13. NoDanglingCover'
    <3> SUFFICES ASSUME faults = 0, ~row.deleted, "gone" \notin given'
                 PROVE  row'.cover \in objects \cup {Outside}
      BY <2>1 DEF NoDanglingCover
    <3>1. CASE row'.cover = row.cover
      BY <1>1, <2>9, <3>1 DEF NoDanglingCover
    <3>2. CASE row'.cover = j.newCover /\ j.newCover # None
      BY <2>7, <3>2
    <3>3. CASE row'.cover = j.url /\ job[w].patch.cover = "url"
      BY <2>1, <2>3, <3>3 DEF URLKinds
    <3> QED
      BY <2>6, <3>1, <3>2, <3>3
  <2>14. row'.cover \in Known' /\ \A i \in Known' \ {Outside} : i < uploads'
    BY <1>1, <2>1, <2>5, <2>7, <2>8
  <2> QED
    BY <2>11, <2>12, <2>13, <2>14 DEF CoverInv
<1>12. ASSUME NEW w \in Worker, PatchRepeat(w) PROVE CoverInv'
  <2>1. FromWindow(job[w]) \in {"window", "verify", "dropOld", "log", "reward"}
    BY NextCall
  <2> QED
    BY <1>5, <1>12, <2>1 DEF PatchRepeat
<1>13. ASSUME NEW w \in Worker, PatchWindow(w) PROVE CoverInv'
  <2>1. FromVerify(job[w]) \in {"verify", "dropOld", "log", "reward"}
    BY NextCall
  <2> QED
    BY <1>5, <1>13, <2>1 DEF PatchWindow
<1>14. ASSUME NEW w \in Worker, PatchVerify(w) PROVE CoverInv'
  BY <1>5, <1>14 DEF PatchVerify
<1>15. ASSUME NEW w \in Worker, PatchMark(w) PROVE CoverInv'
  <2> DEFINE k == [job[w] EXCEPT !.effect = job[w].effect \cup {"verified"}]
  <2>1. /\ pc[w] = "mark" /\ row'.cover = row.cover /\ row'.deleted = row.deleted
        /\ UNCHANGED Covers /\ job[w] \in PatchJob
    BY <1>0, <1>15 DEF PatchMark, RowType, JobOK
  <2>2. Goes(w, "notify", k)
    BY <1>0, <1>15, GoesTo DEF PatchMark
  <2>3. k.oldCover = job[w].oldCover /\ k.newCover = job[w].newCover /\ k.url = job[w].url
    BY <2>1 DEF PatchJob
  <2>4. job[w].url \in Known
    BY <1>0, <2>1 DEF CoverOK
  <2> HIDE DEF k
  <2> QED
    BY <1>2, <1>K, <2>1, <2>2, <2>3, <2>4
<1>16. ASSUME NEW w \in Worker, PatchNotify(w) PROVE CoverInv'
  <2>1. FromDrop(job[w]) \in {"dropOld", "log", "reward"}
    BY NextCall
  <2> QED
    BY <1>5, <1>16, <2>1 DEF PatchNotify
<1>17. ASSUME NEW w \in Worker, PatchDropOldCover(w) PROVE CoverInv'
  <2>1. FromLog(job[w]) \in {"log", "reward"}
    BY NextCall
  <2>2. /\ pc[w] = "dropOld" /\ objects' = objects \ {job[w].oldCover} /\ Goto(w, FromLog(job[w]))
        /\ UNCHANGED <<row, uploads, faults, job, given, past>>
    BY <1>17 DEF PatchDropOldCover
  <2>3. Goes(w, FromLog(job[w]), job[w])
    BY <2>1, <2>2, GoesTo
  <2>4. "gone" \notin given => job[w].oldCover # row.cover \/ job[w].oldCover = Outside
    BY <1>0, <2>2 DEF CoverOK, JobOK
  <2>5. NoDanglingCover'
    BY <1>1, <2>2, <2>4 DEF NoDanglingCover
  <2>6. ASSUME NEW v \in Worker \ {w}, pc[v] = "update", job[v].newCover \in objects
        PROVE  job[v].newCover \in objects'
    <3>1. job[v].newCover # None
      BY <1>0, <2>6, EventEditAssumption
    <3>2. job[v].newCover \notin Known /\ job[w].oldCover \in Known
      BY <1>0, <2>2, <2>6, <3>1 DEF CoverOK
    <3> QED
      BY <2>2, <2>6, <3>2
  <2>7. job[w].url \in Known /\ Known' = Known
    BY <1>0, <1>K, <2>2 DEF CoverOK
  <2> QED
    BY <1>0, <2>1, <2>2, <2>3, <2>5, <2>6, <2>7, CoverKept
<1>18. ASSUME NEW w \in Worker, PatchLog(w) PROVE CoverInv'
  BY <1>5, <1>18 DEF PatchLog
<1>19. ASSUME NEW w \in Worker, PatchReward(w) PROVE CoverInv'
  BY <1>4, <1>K, <1>19 DEF PatchReward
<1>20. ASSUME NEW w \in Worker, PatchRollback(w) PROVE CoverInv'
  <2>1. /\ pc[w] = "rollback" /\ objects' = objects \ {job[w].newCover} /\ Respond(w)
        /\ UNCHANGED <<row, uploads, faults, given, past>>
    BY <1>20 DEF PatchRollback
  <2>2. Goes(w, "idle", None)
    BY <2>1, GoesTo DEF Respond
  <2>3. faults = 0 => row.deleted
    BY <1>0, <2>1 DEF CoverOK
  <2>4. NoDanglingCover'
    BY <2>1, <2>3 DEF NoDanglingCover
  <2>5. ASSUME NEW v \in Worker \ {w}, pc[v] = "update", job[v].newCover \in objects
        PROVE  job[v].newCover \in objects'
    <3>1. NotNew(pc[v], job[v], pc[w], job[w])
      BY <1>1
    <3>2. job[v].newCover # None
      BY <1>0, <2>5, EventEditAssumption
    <3> QED
      BY <2>1, <2>5, <3>1, <3>2 DEF NotNew
  <2> QED
    BY <1>0, <1>K, <2>1, <2>2, <2>4, <2>5, CoverKept
<1>21. ASSUME NEW w \in Worker, NEW u \in User, NEW b \in BOOLEAN, ToggleStart(w, u, b)
       PROVE  CoverInv'
  BY <1>3, <1>21 DEF ToggleStart
<1>22. ASSUME NEW w \in Worker, ToggleFind(w) PROVE CoverInv'
  BY <1>4, <1>5, <1>K, <1>22 DEF ToggleFind
<1>23. ASSUME NEW w \in Worker, ToggleWrite(w) PROVE CoverInv'
  <2>1. row'.cover = row.cover /\ row'.deleted = row.deleted
    BY <1>0, <1>23 DEF ToggleWrite, RowType
  <2>2. Known' = Known
    <3>1. Known' = Known \cup {row.cover}
      BY <1>0, <1>23, KnownNow DEF ToggleWrite
    <3> QED
      BY <1>0, <3>1
  <2> QED
    BY <1>4, <1>23, <2>1, <2>2 DEF ToggleWrite
<1>24. ASSUME NEW w \in Worker, NEW u \in User, DeleteStart(w, u) PROVE CoverInv'
  BY <1>3, <1>24 DEF DeleteStart
<1>25. ASSUME NEW w \in Worker, DeleteLoad(w) PROVE CoverInv'
  BY <1>4, <1>5, <1>K, <1>25 DEF DeleteLoad
<1>26. ASSUME NEW w \in Worker, DeleteWrite(w) PROVE CoverInv'
  <2>1. row'.cover = row.cover /\ row'.deleted
    BY <1>0, <1>26 DEF DeleteWrite, RowType
  <2> QED
    BY <1>4, <1>K, <1>26, <2>1 DEF DeleteWrite
<1>27. ASSUME NEW w \in Worker, Fault(w) PROVE CoverInv'
  <2>1. faults' = faults + 1 /\ faults' # 0 /\ UNCHANGED <<row, objects, uploads, given, past>>
    BY <1>0, <1>27 DEF Fault
  <2>2. NoDanglingCover'
    BY <2>1 DEF NoDanglingCover
  <2>3. CASE pc[w] \in TryPC /\ Goto(w, "rollback") /\ job' = job
    <3>1. Goes(w, "rollback", job[w])
      BY <2>3, GoesTo
    <3>2. job[w].url \in Known
      BY <1>0, <2>3 DEF CoverOK
    <3> QED
      BY <1>K, <2>1, <2>2, <2>3, <3>1, <3>2, CoverKept
  <2>4. CASE Respond(w)
    <3>1. Goes(w, "idle", None)
      BY <2>4, GoesTo DEF Respond
    <3> QED
      BY <1>K, <2>1, <2>2, <3>1, CoverKept
  <2> QED
    BY <1>27, <2>3, <2>4 DEF Fault
<1>28. CASE UNCHANGED vars
  BY <1>0, <1>1, <1>28 DEF CoverInv, CoverOK, NotNew, NoDanglingCover, Known, vars
<1> QED
  BY <1>6, <1>7, <1>8, <1>9, <1>10, <1>11, <1>12, <1>13, <1>14, <1>15, <1>16, <1>17, <1>18,
     <1>19, <1>20, <1>21, <1>22, <1>23, <1>24, <1>25, <1>26, <1>27, <1>28 DEF Next

-----------------------------------------------------------------------------
(* Requests that do not overlap.                                           *)

Alone == ~overlapped =>
  \A v, w \in Worker : pc[v] # "idle" /\ pc[w] # "idle" => v = w

\* The step of a request w is its first one, or w was in flight before.
Steps(w) ==
  /\ \A v \in Worker \ {w} : pc'[v] = pc[v] /\ job'[v] = job[v]
  /\ \/ /\ pc[w] = "idle" /\ pc'[w] \in {"bare", "toggleFind", "deleteLoad"}
        /\ overlapped \/ (\E v \in Worker \ {w} : pc[v] # "idle") => overlapped'
     \/ pc[w] # "idle" /\ (overlapped => overlapped')

\* What request w may do.
Act(w) ==
  \/ \E p \in Patch, i \in Known : PatchStart(w, p, i)
  \/ \E u \in User, b \in BOOLEAN : ToggleStart(w, u, b)
  \/ \E u \in User : DeleteStart(w, u)
  \/ PatchLoad(w) \/ PatchSnapshot(w) \/ PatchValidate(w) \/ PatchUpload(w) \/ PatchUpdate(w)
  \/ PatchRepeat(w) \/ PatchWindow(w) \/ PatchVerify(w) \/ PatchMark(w) \/ PatchNotify(w)
  \/ PatchDropOldCover(w) \/ PatchLog(w) \/ PatchReward(w) \/ PatchRollback(w)
  \/ ToggleFind(w) \/ ToggleWrite(w) \/ DeleteLoad(w) \/ DeleteWrite(w) \/ Fault(w)

LEMMA NextActs == Next => \E w \in Worker : Act(w)
BY DEF Next, Act

LEMMA ActSteps ==
  ASSUME TypeInv, NEW w \in Worker, Act(w)
  PROVE  Steps(w)
<1>0. pc \in [Worker -> PC] /\ DOMAIN job = Worker
  BY DEF TypeInv, TypeOK
<1>1. ASSUME NEW l \in {"bare", "toggleFind", "deleteLoad"}, NEW j, Start(w, l),
             job' = [job EXCEPT ![w] = j]
      PROVE  Steps(w)
  <2>1. overlapped \/ (\E v \in Worker \ {w} : pc[v] # "idle") => overlapped'
    BY <1>1, Zenon DEF Start
  <2>2. /\ \A v \in Worker \ {w} : pc'[v] = pc[v] /\ job'[v] = job[v]
        /\ pc[w] = "idle" /\ pc'[w] \in {"bare", "toggleFind", "deleteLoad"}
    BY <1>0, <1>1 DEF Start, Goto
  <2> QED
    BY <2>1, <2>2, Zenon DEF Steps
<1>2. ASSUME NEW l, pc[w] # "idle", Goto(w, l), overlapped' = overlapped,
             \A v \in Worker \ {w} : job'[v] = job[v]
      PROVE  Steps(w)
  <2>1. overlapped => overlapped'
    BY <1>2, Zenon
  <2>2. \A v \in Worker \ {w} : pc'[v] = pc[v] /\ job'[v] = job[v]
    BY <1>0, <1>2 DEF Goto
  <2> QED
    BY <1>2, <2>1, <2>2, Zenon DEF Steps
<1>4. CASE \E p \in Patch, i \in Known : PatchStart(w, p, i)
  BY <1>1, <1>4 DEF PatchStart
<1>5. CASE \E u \in User, b \in BOOLEAN : ToggleStart(w, u, b)
  BY <1>1, <1>5 DEF ToggleStart
<1>6. CASE \E u \in User : DeleteStart(w, u)
  BY <1>1, <1>6 DEF DeleteStart
<1>7. CASE PatchLoad(w) \/ PatchSnapshot(w) \/ PatchValidate(w) \/ PatchUpload(w) \/ PatchUpdate(w)
  <2>1. pc[w] # "idle" /\ overlapped' = overlapped /\ \E l : Goto(w, l)
    BY <1>7 DEF PatchLoad, PatchSnapshot, PatchValidate, PatchUpload, PatchUpdate, Respond
  <2>2. \A v \in Worker \ {w} : job'[v] = job[v]
    BY <1>0, <1>7 DEF PatchLoad, PatchSnapshot, PatchValidate, PatchUpload, PatchUpdate, Respond
  <2> QED
    BY <1>2, <2>1, <2>2
<1>8. CASE PatchRepeat(w) \/ PatchWindow(w) \/ PatchVerify(w) \/ PatchNotify(w)
           \/ PatchDropOldCover(w) \/ PatchLog(w)
  BY <1>2, <1>8 DEF PatchRepeat, PatchWindow, PatchVerify, PatchNotify,
                    PatchDropOldCover, PatchLog
<1>9. CASE PatchMark(w) \/ PatchReward(w) \/ PatchRollback(w) \/ ToggleWrite(w) \/ DeleteWrite(w)
  BY <1>0, <1>2, <1>9 DEF PatchMark, PatchReward, PatchRollback, ToggleWrite, DeleteWrite, Respond
<1>10. CASE ToggleFind(w) \/ DeleteLoad(w) \/ Fault(w)
  <2>1. pc[w] # "idle" /\ overlapped' = overlapped /\ \E l : Goto(w, l)
    BY <1>10 DEF ToggleFind, DeleteLoad, Fault, Respond
  <2>2. \A v \in Worker \ {w} : job'[v] = job[v]
    BY <1>0, <1>10 DEF ToggleFind, DeleteLoad, Fault, Respond
  <2> QED
    BY <1>2, <2>1, <2>2
<1> QED
  BY <1>4, <1>5, <1>6, <1>7, <1>8, <1>9, <1>10 DEF Act

LEMMA StepsAlone ==
  ASSUME Alone, NEW w \in Worker, Steps(w)
  PROVE  /\ Alone'
         /\ ~overlapped' => ~overlapped /\ \A v \in Worker \ {w} : pc[v] = "idle" /\ pc'[v] = "idle"
<1>1. ~overlapped' => ~overlapped /\ \A v \in Worker \ {w} : pc[v] = "idle" /\ pc'[v] = "idle"
  <2>1. ASSUME ~overlapped' PROVE ~overlapped
    BY <2>1, Zenon DEF Steps
  <2>2. ASSUME ~overlapped', NEW v \in Worker \ {w} PROVE pc[v] = "idle" /\ pc'[v] = "idle"
    <3>1. pc'[v] = pc[v] /\ (pc[w] = "idle" => pc[v] = "idle")
      BY <2>2, Zenon DEF Steps
    <3>2. pc[w] # "idle" /\ pc[v] # "idle" => v = w
      BY <2>1, <2>2, Zenon DEF Alone
    <3> QED
      BY <3>1, <3>2, Zenon
  <2> QED
    BY <2>1, <2>2, Zenon
<1>2. ASSUME ~overlapped', NEW u \in Worker, NEW v \in Worker, pc'[u] # "idle", pc'[v] # "idle"
      PROVE  u = v
  <2>1. \A x \in Worker \ {w} : pc'[x] = "idle"
    BY <1>1, <1>2
  <2> QED
    BY <1>2, <2>1
<1>3. Alone'
  BY <1>2, Zenon DEF Alone
<1> QED
  BY <1>1, <1>3

LEMMA NextAlone == TypeInv /\ Alone /\ [Next]_vars => Alone'
<1> SUFFICES ASSUME TypeInv, Alone, [Next]_vars PROVE Alone'
  OBVIOUS
<1>1. CASE Next
  BY <1>1, NextActs, ActSteps, StepsAlone
<1>2. CASE UNCHANGED vars
  BY <1>2 DEF Alone, vars
<1> QED
  BY <1>1, <1>2

-----------------------------------------------------------------------------
(* The edit logs tell the history.                                         *)

\* What holds of a request that no other overlaps: its snapshot is the current
\* version until it writes the row, and the version before it from then on.
ToldBy(l, j) ==
  /\ l \in LoadedPC \cup {"toggleWrite"} => ~row.deleted
  /\ l \in {"validate", "upload", "update"} =>
       /\ j.before.version = row.version
       /\ \A f \in Patched : j.before[f] = past[row.version][f]
  /\ l \in WrittenPC =>
       /\ j.before.version + 1 = row.version /\ j.before.version # 0
       /\ \A f \in Patched :
            /\ past[j.before.version][f] = j.before[f]
            /\ f \in ChangedFields(j) => past[row.version][f] # j.before[f]
       /\ j.effect \ {"verified"} # {} => ChangedFields(j) # {}

Told ==
  /\ ~row.deleted => past[row.version] = Tracked(row)
  /\ \A w \in Worker : ToldBy(pc[w], job[w])
  /\ LogFaithful
  /\ \A i \in 1..Len(logs) : logs[i].version \in 2..Len(past)

HistoryInv ==
  /\ past \in Seq(TrackedType) /\ Len(past) = row.version /\ row.version # 0
  /\ ~overlapped => Told

LEMMA InitHistoryInv == Init => HistoryInv
<1> SUFFICES ASSUME Init PROVE HistoryInv
  OBVIOUS
<1>0. TypeInv
  BY InitTypeInv
<1>1. row.version = 1 /\ row \in RowType /\ past = <<Tracked(row)>> /\ logs = <<>>
      /\ \A w \in Worker : pc[w] = "idle"
  BY <1>0 DEF Init, TypeInv, TypeOK, RowType
<1>2. past \in Seq(TrackedType) /\ Len(past) = 1 /\ past[1] = Tracked(row)
  <2> DEFINE t == Tracked(row)
  <2>1. t \in TrackedType /\ past = <<t>>
    BY <1>1 DEF TrackedType
  <2> HIDE DEF t
  <2>2. past \in Seq(TrackedType) /\ Len(past) = 1 /\ past[1] = t
    BY <2>1
  <2> QED
    BY <2>2 DEF t
<1>3. \A w \in Worker : ToldBy(pc[w], job[w])
  BY <1>1 DEF ToldBy, LoadedPC, SnapPC, WrittenPC, TryPC
<1>4. LogFaithful /\ \A i \in 1..Len(logs) : logs[i].version \in 2..Len(past)
  BY <1>1 DEF LogFaithful
<1> QED
  BY <1>1, <1>2, <1>3, <1>4 DEF HistoryInv, Told

\* A step that changes neither the tracked columns nor the version nor the logs.
LEMMA ToldKept ==
  ASSUME TypeInv, Told, NEW w \in Worker, \A v \in Worker \ {w} : pc'[v] = "idle",
         row'.version = row.version, row'.deleted = row.deleted, Tracked(row') = Tracked(row),
         past' = past, logs' = logs, ToldBy(pc[w], job[w])'
  PROVE  Told'
<1>1. Tracked(row)' = Tracked(row)
  BY DEF Tracked
<1>2. (~row.deleted => past[row.version] = Tracked(row))'
  BY <1>1 DEF Told
<1>3. ASSUME NEW v \in Worker PROVE ToldBy(pc[v], job[v])'
  <2>1. CASE v = w
    BY <2>1
  <2>2. CASE v # w
    BY <2>2 DEF ToldBy, LoadedPC, SnapPC, WrittenPC, TryPC
  <2> QED
    BY <2>1, <2>2
<1>4. LogFaithful' /\ (\A i \in 1..Len(logs) : logs[i].version \in 2..Len(past))'
  BY DEF Told, LogFaithful
<1> QED
  BY <1>2, <1>3, <1>4 DEF Told

\* A new version leaves what the logs say of the earlier ones true.
LEMMA LogsStay ==
  ASSUME Told, past \in Seq(TrackedType), NEW x \in TrackedType, past' = Append(past, x),
         logs' = logs
  PROVE  /\ Len(past') = Len(past) + 1 /\ past'[Len(past) + 1] = x
         /\ past' \in Seq(TrackedType)
         /\ \A i \in 1..Len(past) : past'[i] = past[i]
         /\ LogFaithful'
         /\ (\A i \in 1..Len(logs) : logs[i].version \in 2..Len(past))'
<1>1. /\ Len(past) \in Nat /\ Len(past') = Len(past) + 1 /\ past'[Len(past) + 1] = x
      /\ past' \in Seq(TrackedType)
      /\ \A i \in 1..Len(past) : past'[i] = past[i]
  OBVIOUS
<1>2. \A i \in 1..Len(logs) :
        /\ logs[i].version \in 2..Len(past)
        /\ past'[logs[i].version] = past[logs[i].version]
        /\ past'[logs[i].version - 1] = past[logs[i].version - 1]
  BY <1>1 DEF Told
<1>3. LogFaithful'
  BY <1>2 DEF Told, LogFaithful
<1> QED
  BY <1>1, <1>2, <1>3

\* The column of a snapshot, by name.
LEMMA TrackedColumns ==
  ASSUME NEW r
  PROVE  Tracked(r) = [f \in Patched |-> r[f]] /\ \A f \in Patched : Tracked(r)[f] = r[f]
BY DEF Tracked

\* What the update writes: each tracked column of the body, and one more version.
LEMMA UpdateRecorded ==
  ASSUME NEW w, PatchUpdate(w), row \in RowType
  PROVE  /\ past' = Append(past, Tracked(row'))
         /\ \A f \in Patched : row'[f] = IF InPatch(job[w], f) THEN NewValue(job[w], f) ELSE row[f]
         /\ row'.version = row.version + 1 /\ row'.deleted = row.deleted
<1> DEFINE j == job[w]
           new == [row EXCEPT
                     !.version = @ + 1,
                     !.content = IF InPatch(j, "content") THEN NewValue(j, "content") ELSE @,
                     !.active  = IF InPatch(j, "active") THEN NewValue(j, "active") ELSE @,
                     !.cover   = IF InPatch(j, "cover") THEN NewValue(j, "cover") ELSE @]
           c == IF InPatch(j, "content") THEN NewValue(j, "content") ELSE row.content
           a == IF InPatch(j, "active") THEN NewValue(j, "active") ELSE row.active
           i == IF InPatch(j, "cover") THEN NewValue(j, "cover") ELSE row.cover
<1>1. row' = new /\ past' = Append(past, Tracked(new))
  BY Zenon DEF PatchUpdate
<1>2. new = [row EXCEPT !.version = row.version + 1, !.content = c, !.active = a, !.cover = i]
  OBVIOUS
<1> HIDE DEF c, a, i, new
<1>3. new.content = c /\ new.active = a /\ new.cover = i
      /\ new.version = row.version + 1 /\ new.deleted = row.deleted
  BY <1>2 DEF RowType
<1>4. \A f \in Patched : new[f] = IF InPatch(j, f) THEN NewValue(j, f) ELSE row[f]
  BY <1>3 DEF c, a, i, Patched, Column
<1> QED
  BY <1>1, <1>3, <1>4, Zenon

\* What is logged depends on the body, the snapshot and the image uploaded.
LEMMA SameChanges ==
  ASSUME NEW j, NEW k, k.before = j.before, k.patch = j.patch, k.newCover = j.newCover,
         k.url = j.url
  PROVE  ChangedFields(k) = ChangedFields(j)
<1>1. \A f : InPatch(k, f) <=> InPatch(j, f)
  BY DEF InPatch
<1>2. \A f : NewValue(k, f) = NewValue(j, f)
  BY DEF NewValue
<1> QED
  BY <1>1, <1>2 DEF ChangedFields

LEMMA NextHistoryInv ==
  TypeInv /\ CountInv /\ Alone /\ HistoryInv /\ [Next]_vars => HistoryInv'
<1> SUFFICES ASSUME TypeInv, CountInv, Alone, HistoryInv, Next PROVE HistoryInv'
  <2>1. CASE UNCHANGED vars
    BY <2>1 DEF HistoryInv, Told, ToldBy, LogFaithful, vars
  <2> QED
    BY <2>1
<1>1. PICK w \in Worker : Act(w)
  BY NextActs
<1>2. TypeInv' /\ Steps(w)
  BY <1>1, NextTypeInv, ActSteps
<1>3. /\ row \in RowType /\ row' \in RowType /\ row.version \in Nat /\ row.deleted \in BOOLEAN
      /\ past \in Seq(TrackedType) /\ Len(past) = row.version /\ row.version # 0
      /\ pc \in [Worker -> PC] /\ DOMAIN job = Worker /\ JobOK(pc[w], job[w])
      /\ logs \in Seq(LogType)
  BY <1>2 DEF TypeInv, TypeOK, RowType, HistoryInv, CountInv
<1>4. \/ row'.version = row.version /\ past' = past
      \/ row'.version = row.version + 1 /\ past' = Append(past, Tracked(row'))
  <2>1. CASE PatchUpdate(w)
    BY <1>3, <2>1, UpdateRecorded
  <2>2. CASE ToggleWrite(w)
    <3>1. PICK b : row' = [row EXCEPT !.disabled = b, !.version = @ + 1]
      BY <2>2 DEF ToggleWrite
    <3>2. \A f \in Patched : row'[f] = row[f]
      BY <1>3, <3>1 DEF RowType, Patched, Column
    <3>3. Tracked(row') = Tracked(row)
      BY <3>2, TrackedColumns
    <3> QED
      BY <1>3, <2>2, <3>1, <3>3 DEF ToggleWrite, RowType
  <2>3. CASE ~PatchUpdate(w) /\ ~ToggleWrite(w)
    BY <1>1, <1>3, <2>3 DEF Act, PatchStart, ToggleStart, DeleteStart, Start, PatchLoad, PatchSnapshot,
         PatchValidate, PatchUpload, PatchRepeat, PatchWindow, PatchVerify, PatchMark, PatchNotify,
         PatchDropOldCover, PatchLog, PatchReward, PatchRollback, ToggleFind, DeleteLoad, DeleteWrite,
         Fault, tables, RowType
  <2> QED
    BY <2>1, <2>2, <2>3
<1>5. past' \in Seq(TrackedType) /\ Len(past') = row'.version /\ row'.version # 0
  <2> DEFINE t == Tracked(row')
  <2>1. t \in TrackedType
    BY <1>3 DEF TrackedType
  <2>2. \/ row'.version = row.version /\ past' = past
        \/ row'.version = row.version + 1 /\ past' = Append(past, t)
    BY <1>4
  <2> HIDE DEF t
  <2> QED
    BY <1>3, <2>1, <2>2
<1> SUFFICES ASSUME ~overlapped' PROVE Told'
  BY <1>5, Zenon DEF HistoryInv
<1>6. Told /\ \A v \in Worker \ {w} : pc[v] = "idle" /\ pc'[v] = "idle"
  <2>1. ~overlapped /\ \A v \in Worker \ {w} : pc[v] = "idle" /\ pc'[v] = "idle"
    BY <1>2, StepsAlone
  <2> QED
    BY <2>1, Zenon DEF HistoryInv
<1>7. ToldBy(pc[w], job[w]) /\ (~row.deleted => past[row.version] = Tracked(row))
  BY <1>6 DEF Told
<1> DEFINE Quiet == row' = row /\ past' = past /\ logs' = logs
<1>8. ASSUME Quiet, ToldBy(pc[w], job[w])' PROVE Told'
  BY <1>6, <1>8, ToldKept
<1> USE DEF LoadedPC, SnapPC, WrittenPC, TryPC, tables
<1>9. ASSUME NEW l \in {"idle", "bare", "toggleFind", "deleteLoad", "deleteWrite"}, pc'[w] = l
      PROVE  ToldBy(pc[w], job[w])'
  BY <1>9 DEF ToldBy
<1>10. ASSUME pc'[w] \in WrittenPC, pc[w] \in WrittenPC, job'[w] = job[w], row'.version = row.version,
              row'.deleted = row.deleted, past' = past
       PROVE  ToldBy(pc[w], job[w])'
  BY <1>7, <1>10 DEF ToldBy
<1>11. CASE \/ \E p \in Patch, i \in Known : PatchStart(w, p, i)
            \/ \E u \in User, b \in BOOLEAN : ToggleStart(w, u, b)
            \/ \E u \in User : DeleteStart(w, u)
  BY <1>3, <1>8, <1>9, <1>11 DEF PatchStart, ToggleStart, DeleteStart, Start, Goto
<1>12. CASE PatchLoad(w)
  <2>1. Quiet
    BY <1>12 DEF PatchLoad
  <2>2. CASE Respond(w)
    BY <1>3, <1>8, <1>9, <2>1, <2>2 DEF Respond, Goto
  <2>3. CASE ~row.deleted /\ Goto(w, "audit")
    <3>1. ToldBy(pc[w], job[w])'
      BY <1>3, <2>1, <2>3 DEF ToldBy, Goto
    <3> QED
      BY <1>8, <2>1, <3>1
  <2> QED
    BY <1>12, <2>2, <2>3 DEF PatchLoad
<1>13. CASE PatchSnapshot(w)
  <2>1. Quiet
    BY <1>13 DEF PatchSnapshot
  <2>2. CASE Respond(w)
    BY <1>3, <1>8, <1>9, <2>1, <2>2 DEF Respond, Goto
  <2>3. ASSUME NEW b, ~row.deleted, Goto(w, "validate"), job' = [job EXCEPT ![w].before = b],
               b = [version |-> row.version, content |-> row.content, active |-> row.active,
                    cover |-> row.cover, repeat |-> repeat, window |-> window]
        PROVE  Told'
    <3>1. job[w] \in PatchJob
      BY <1>3, <1>13 DEF PatchSnapshot, JobOK, PatchPC
    <3>2. pc'[w] = "validate" /\ job'[w].before = b
      BY <1>3, <2>3, <3>1 DEF Goto, PatchJob
    <3>3. b.version = row.version /\ \A f \in Patched : b[f] = row[f]
      BY <2>3 DEF Patched, Column
    <3>4. \A f \in Patched : b[f] = past[row.version][f]
      BY <1>7, <2>3, <3>3, TrackedColumns
    <3>5. ToldBy(pc[w], job[w])'
      BY <2>1, <2>3, <3>2, <3>3, <3>4 DEF ToldBy
    <3> QED
      BY <1>8, <2>1, <3>5
  <2> QED
    BY <1>13, <2>2, <2>3 DEF PatchSnapshot
<1>14. CASE PatchValidate(w)
  <2>1. Quiet
    BY <1>14 DEF PatchValidate
  <2>2. CASE Respond(w)
    BY <1>3, <1>8, <1>9, <2>1, <2>2 DEF Respond, Goto
  <2>3. ASSUME NEW l \in {"upload", "update"}, Goto(w, l), job' = job PROVE Told'
    <3>1. pc'[w] = l /\ pc[w] = "validate"
      BY <1>3, <1>14, <2>3 DEF Goto, PatchValidate
    <3>2. ToldBy(pc[w], job[w])'
      BY <1>7, <2>1, <2>3, <3>1 DEF ToldBy
    <3> QED
      BY <1>8, <2>1, <3>2
  <2> QED
    BY <1>14, <2>2, <2>3 DEF PatchValidate
<1>15. CASE PatchUpload(w)
  <2>1. Quiet
    BY <1>15 DEF PatchUpload
  <2>2. job[w] \in PatchJob
    BY <1>3, <1>15 DEF PatchUpload, JobOK, PatchPC
  <2>3. pc[w] = "upload" /\ pc'[w] = "update" /\ job'[w].before = job[w].before
    BY <1>3, <1>15, <2>2 DEF PatchUpload, Goto, PatchJob
  <2>4. ToldBy(pc[w], job[w])'
    BY <1>7, <2>1, <2>3 DEF ToldBy
  <2> QED
    BY <1>8, <2>1, <2>4
<1>16. CASE PatchUpdate(w)
  <2> DEFINE j == job[w]
             k == job'[w]
  <2>1. /\ pc[w] = "update" /\ pc'[w] = FromRepeat(j) /\ logs' = logs
        /\ past' = Append(past, Tracked(row'))
    <3>1. pc[w] = "update" /\ pc'[w] = FromRepeat(j) /\ logs' = logs
      BY <1>3, <1>16 DEF PatchUpdate, Goto
    <3>2. past' = Append(past, Tracked(row'))
      BY <1>3, <1>16, UpdateRecorded
    <3> QED
      BY <3>1, <3>2
  <2>2. j \in PatchJob
    BY <1>3, <2>1 DEF JobOK, PatchPC
  <2>3. /\ \A f \in Patched : row'[f] = IF InPatch(j, f) THEN NewValue(j, f) ELSE row[f]
        /\ row'.version = row.version + 1 /\ row'.deleted = row.deleted
    BY <1>3, <1>16, UpdateRecorded
  <2>4. /\ k.before = j.before /\ k.patch = j.patch /\ k.newCover = j.newCover
        /\ k.url = j.url /\ k.effect = {f \in Column : row'[f] # row[f]}
    BY <1>3, <1>16, <2>2 DEF PatchUpdate, PatchJob
  <2>5. ChangedFields(k) = ChangedFields(j)
    <3> HIDE DEF j, k
    <3> QED
      BY <2>4, SameChanges
  <2>6. /\ ~row.deleted /\ past[row.version] = Tracked(row) /\ j.before.version = row.version
        /\ \A f \in Patched : j.before[f] = row[f]
    <3>1. ~row.deleted /\ past[row.version] = Tracked(row) /\ j.before.version = row.version
          /\ \A f \in Patched : j.before[f] = past[row.version][f]
      BY <1>7, <2>1 DEF ToldBy
    <3> QED
      BY <3>1, TrackedColumns
  <2>7. Tracked(row') \in TrackedType
    BY <1>3 DEF TrackedType
  <2>8. /\ Len(past') = Len(past) + 1 /\ past'[Len(past) + 1] = Tracked(row')
        /\ \A i \in 1..Len(past) : past'[i] = past[i]
        /\ LogFaithful'
        /\ (\A i \in 1..Len(logs) : logs[i].version \in 2..Len(past))'
    BY <1>3, <1>6, <2>1, <2>7, LogsStay
  <2>9. past'[row'.version] = Tracked(row') /\ past'[row.version] = Tracked(row)
    BY <1>3, <2>3, <2>6, <2>8
  <2>10. \A f \in ChangedFields(j) \cap Patched : row'[f] # j.before[f]
    <3>1. \A f \in ChangedFields(j) \cap Patched : InPatch(j, f) /\ NewValue(j, f) # j.before[f]
      BY DEF ChangedFields, Patched, Column
    <3> QED
      BY <2>3, <3>1
  <2>11. k.effect \ {"verified"} # {} => ChangedFields(j) # {}
    <3>1. SUFFICES ASSUME k.effect \ {"verified"} # {} PROVE ChangedFields(j) # {}
      OBVIOUS
    <3>2. PICK f \in Patched : row'[f] # row[f]
      BY <2>4, <3>1 DEF Patched
    <3>3. InPatch(j, f) /\ NewValue(j, f) # j.before[f]
      BY <2>3, <2>6, <3>2
    <3>4. f \in ChangedFields(j)
      BY <3>2, <3>3 DEF ChangedFields, Patched
    <3> QED
      BY <3>4
  <2>12. \A f \in Patched : /\ past'[k.before.version][f] = k.before[f]
                            /\ f \in ChangedFields(k) => past'[row'.version][f] # k.before[f]
    BY <2>4, <2>5, <2>6, <2>9, <2>10, TrackedColumns
  <2>13. ToldBy(pc[w], job[w])'
    <3>1. FromRepeat(j) \in WrittenPC
      BY NextCall
    <3>2. k.before.version + 1 = row'.version /\ k.before.version # 0 /\ ~row'.deleted
      BY <1>3, <2>3, <2>4, <2>6
    <3>3. k.effect \ {"verified"} # {} => ChangedFields(k) # {}
      BY <2>5, <2>11
    <3>4. pc'[w] \in WrittenPC /\ pc'[w] \notin {"validate", "upload", "update"}
      BY <2>1, <3>1
    <3>5. k = job'[w]
      BY Zenon
    <3> HIDE DEF j, k, WrittenPC
    <3> QED
      BY <2>12, <3>2, <3>3, <3>4, <3>5, Zenon DEF ToldBy
  <2>14. \A v \in Worker : ToldBy(pc[v], job[v])'
    <3>1. ASSUME NEW v \in Worker, v # w PROVE ToldBy(pc[v], job[v])'
      BY <1>6, <3>1 DEF ToldBy
    <3> QED
      BY <2>13, <3>1
  <2> QED
    BY <2>8, <2>9, <2>14 DEF Told
<1>17. CASE PatchRepeat(w) \/ PatchWindow(w) \/ PatchNotify(w) \/ PatchDropOldCover(w)
  <2>1. Quiet /\ job' = job /\ pc[w] \in WrittenPC
    BY <1>17 DEF PatchRepeat, PatchWindow, PatchNotify, PatchDropOldCover
  <2>2. pc'[w] \in WrittenPC
    BY <1>3, <1>17, NextCall DEF PatchRepeat, PatchWindow, PatchNotify, PatchDropOldCover, Goto
  <2> QED
    BY <1>8, <1>10, <2>1, <2>2
<1>18. CASE PatchVerify(w)
  <2>1. ~row.deleted
    BY <1>7, <1>18 DEF ToldBy, PatchVerify
  <2>2. pc[w] = "verify" /\ pc'[w] \in {"notify", "mark"} /\ Quiet /\ job' = job
    BY <1>3, <1>18, <2>1 DEF PatchVerify, Goto
  <2> QED
    BY <1>8, <1>10, <2>2
<1>19. CASE PatchMark(w)
  <2>1. /\ pc[w] = "mark" /\ pc'[w] = "notify" /\ past' = past /\ logs' = logs
        /\ row' = [row EXCEPT !.verified = TRUE]
        /\ job'[w] = [job[w] EXCEPT !.effect = job[w].effect \cup {"verified"}]
        /\ job[w] \in PatchJob
    BY <1>3, <1>19 DEF PatchMark, Goto, JobOK, PatchPC
  <2>2. row'.version = row.version /\ row'.deleted = row.deleted /\ \A f \in Patched : row'[f] = row[f]
    BY <1>3, <2>1 DEF RowType, Patched, Column
  <2>3. Tracked(row') = Tracked(row)
    BY <2>2, TrackedColumns
  <2> DEFINE j == job[w]
             k == job'[w]
  <2>3a. /\ k.before = j.before /\ k.patch = j.patch /\ k.newCover = j.newCover /\ k.url = j.url
         /\ k.effect = j.effect \cup {"verified"}
    BY <2>1 DEF PatchJob
  <2>3b. ToldBy("mark", j)
    BY <1>7, <2>1
  <2>4. ToldBy(pc[w], job[w])'
    <3> HIDE DEF j, k
    <3>1. ChangedFields(k) = ChangedFields(j)
      BY <2>3a, SameChanges
    <3>2. (k.effect \ {"verified"} # {}) => (ChangedFields(k) # {})
      BY <2>3a, <2>3b, <3>1 DEF ToldBy
    <3>3. pc'[w] = "notify" /\ past' = past /\ row'.version = row.version /\ row'.deleted = row.deleted
      BY <2>1, <2>2
    <3>4. ~row.deleted /\ k.before.version + 1 = row.version /\ k.before.version # 0
          /\ \A f \in Patched :
               /\ past[k.before.version][f] = k.before[f]
               /\ f \in ChangedFields(k) => past[row.version][f] # k.before[f]
      BY <2>3a, <2>3b, <3>1 DEF ToldBy
    <3>5. k = job'[w]
      BY DEF k
    <3> QED
      BY <3>2, <3>3, <3>4, <3>5 DEF ToldBy
  <2> QED
    BY <1>6, <2>1, <2>2, <2>3, <2>4, ToldKept
<1>20. CASE PatchLog(w)
  <2> DEFINE j == job[w]
  <2>1. /\ pc[w] = "log" /\ pc'[w] = "reward" /\ job' = job /\ past' = past /\ row' = row
        /\ logs' = Append(logs, LogOf(j))
    BY <1>3, <1>20 DEF PatchLog, Goto
  <2>2. /\ j.before.version + 1 = row.version /\ j.before.version # 0
        /\ \A f \in Patched :
             /\ past[j.before.version][f] = j.before[f]
             /\ f \in ChangedFields(j) => past[row.version][f] # j.before[f]
    BY <1>7, <2>1 DEF ToldBy
  <2>3. j \in PatchJob /\ j.before.version \in Nat
    BY <1>3, <2>1 DEF JobOK, PatchPC, SnapshotType
  <2>4. LogOf(j) \in LogType
    BY <2>3 DEF LogType
  <2> DEFINE x == LogOf(j)
  <2>5. /\ x.version = row.version /\ DOMAIN x.previous = ChangedFields(j)
        /\ \A f \in Patched \cap ChangedFields(j) : x.previous[f] = j.before[f]
    BY <2>2 DEF LogOf
  <2>6. x.version \in 2..Len(past') /\ x.version - 1 = j.before.version
    BY <1>3, <2>1, <2>2, <2>3, <2>5
  <2> HIDE DEF x
  <2>7. x \in LogType /\ logs' = Append(logs, x)
    BY <2>1, <2>4 DEF x
  <2>8. /\ Len(logs') = Len(logs) + 1 /\ Len(logs) \in Nat
        /\ \A i \in 1..Len(logs') : logs'[i] = IF i = Len(logs) + 1 THEN x ELSE logs[i]
    BY <1>3, <2>7
  <2>9. LogFaithful'
    <3> SUFFICES ASSUME NEW i \in 1..Len(logs'), NEW f \in Patched \cap DOMAIN logs'[i].previous
                 PROVE  /\ past'[logs'[i].version - 1][f] = logs'[i].previous[f]
                        /\ past'[logs'[i].version][f] # logs'[i].previous[f]
      BY DEF LogFaithful
    <3>1. CASE i = Len(logs) + 1
      BY <2>1, <2>2, <2>5, <2>6, <2>8, <3>1
    <3>2. CASE i # Len(logs) + 1
      <4>1. i \in 1..Len(logs) /\ logs'[i] = logs[i]
        BY <2>8, <3>2
      <4> QED
        BY <1>6, <2>1, <4>1 DEF Told, LogFaithful
    <3> QED
      BY <3>1, <3>2
  <2>10. \A i \in 1..Len(logs') : logs'[i].version \in 2..Len(past')
    <3> SUFFICES ASSUME NEW i \in 1..Len(logs') PROVE logs'[i].version \in 2..Len(past')
      OBVIOUS
    <3>1. CASE i = Len(logs) + 1
      BY <2>6, <2>8, <3>1
    <3>2. CASE i # Len(logs) + 1
      <4>1. i \in 1..Len(logs) /\ logs'[i] = logs[i]
        BY <2>8, <3>2
      <4> QED
        BY <1>6, <2>1, <4>1 DEF Told
    <3> QED
      BY <3>1, <3>2
  <2>11. \A v \in Worker : ToldBy(pc[v], job[v])'
    <3>1. ToldBy(pc[w], job[w])'
      BY <1>10, <2>1
    <3>2. ASSUME NEW v \in Worker, v # w PROVE ToldBy(pc[v], job[v])'
      BY <1>6, <3>2 DEF ToldBy
    <3> QED
      BY <3>1, <3>2
  <2>12. (~row.deleted => past[row.version] = Tracked(row))'
    BY <1>7, <2>1
  <2> QED
    BY <2>9, <2>10, <2>11, <2>12 DEF Told
<1>21. CASE PatchReward(w) \/ PatchRollback(w)
  <2>1. Quiet /\ pc'[w] = "idle"
    BY <1>3, <1>21 DEF PatchReward, PatchRollback, Respond, Goto
  <2> QED
    BY <1>8, <1>9, <2>1
<1>22. CASE ToggleFind(w)
  <2>1. Quiet
    BY <1>22 DEF ToggleFind
  <2>2. CASE Respond(w)
    BY <1>3, <1>8, <1>9, <2>1, <2>2 DEF Respond, Goto
  <2>3. CASE ~row.deleted /\ Goto(w, "toggleWrite")
    <3>1. ToldBy(pc[w], job[w])'
      BY <1>3, <2>1, <2>3 DEF ToldBy, Goto
    <3> QED
      BY <1>8, <2>1, <3>1
  <2> QED
    BY <1>22, <2>2, <2>3 DEF ToggleFind
<1>23. CASE ToggleWrite(w)
  <2>1. /\ pc'[w] = "idle" /\ logs' = logs /\ past' = Append(past, Tracked(row))
    BY <1>3, <1>23 DEF ToggleWrite, Respond, Goto
  <2>2. PICK b : row' = [row EXCEPT !.disabled = b, !.version = @ + 1]
    BY <1>23 DEF ToggleWrite
  <2>3. row'.version = row.version + 1 /\ \A f \in Patched : row'[f] = row[f]
    BY <1>3, <2>2 DEF RowType, Patched, Column
  <2>4. Tracked(row') = Tracked(row)
    BY <2>3, TrackedColumns
  <2>5. Tracked(row) \in TrackedType
    BY <1>3 DEF TrackedType
  <2>6. /\ Len(past') = Len(past) + 1 /\ past'[Len(past) + 1] = Tracked(row)
        /\ LogFaithful'
        /\ (\A i \in 1..Len(logs) : logs[i].version \in 2..Len(past))'
    BY <1>3, <1>6, <2>1, <2>5, LogsStay
  <2>7. past'[row'.version] = Tracked(row')
    BY <1>3, <2>3, <2>4, <2>6
  <2>8. ASSUME NEW v \in Worker PROVE ToldBy(pc[v], job[v])'
    BY <1>6, <2>1 DEF ToldBy
  <2> QED
    BY <2>6, <2>7, <2>8 DEF Told
<1>24. CASE DeleteLoad(w)
  <2>1. Quiet /\ pc'[w] \in {"idle", "deleteWrite"}
    BY <1>3, <1>24 DEF DeleteLoad, Respond, Goto
  <2> QED
    BY <1>8, <1>9, <2>1
<1>25. CASE DeleteWrite(w)
  <2>1. pc'[w] = "idle" /\ past' = past /\ logs' = logs /\ row'.deleted
    BY <1>3, <1>25 DEF DeleteWrite, Respond, Goto, RowType
  <2>2. ASSUME NEW v \in Worker PROVE ToldBy(pc[v], job[v])'
    BY <1>6, <2>1 DEF ToldBy
  <2>3. LogFaithful' /\ (\A i \in 1..Len(logs) : logs[i].version \in 2..Len(past))'
    BY <1>6, <2>1 DEF Told, LogFaithful
  <2> QED
    BY <2>1, <2>2, <2>3 DEF Told
<1>26. CASE Fault(w)
  <2>1. Quiet
    BY <1>26 DEF Fault
  <2>2. CASE Respond(w)
    BY <1>3, <1>8, <1>9, <2>1, <2>2 DEF Respond, Goto
  <2>3. CASE pc[w] \in TryPC /\ Goto(w, "rollback") /\ job' = job
    <3>1. ToldBy(pc[w], job[w])'
      BY <1>3, <1>7, <2>1, <2>3 DEF ToldBy, Goto
    <3> QED
      BY <1>8, <2>1, <3>1
  <2> QED
    BY <1>26, <2>2, <2>3 DEF Fault
<1> QED
  BY <1>1, <1>11, <1>12, <1>13, <1>14, <1>15, <1>16, <1>17, <1>18, <1>19, <1>20, <1>21, <1>22,
     <1>23, <1>24, <1>25, <1>26 DEF Act

LEMMA HistoryInvEnough == HistoryInv => LogsTellHistory
<1> SUFFICES ASSUME HistoryInv, ~overlapped PROVE LogFaithful /\ ChangeIsLogged
  BY Zenon DEF LogsTellHistory
<1>1. Told
  BY Zenon DEF HistoryInv
<1>2. ChangeIsLogged
  BY <1>1 DEF ChangeIsLogged, Told, ToldBy, WrittenPC, TryPC
<1> QED
  BY <1>1, <1>2 DEF Told

-----------------------------------------------------------------------------
(* No image is left behind.                                                *)

\* No call has failed, no request has overlapped another, and no edit has named the
\* URL of another image.
Calm == faults = 0 /\ ~overlapped /\ "other" \notin given

\* What the bucket may hold at each call of the request in flight.
TidyBy(l, j) ==
  /\ l # "rollback"
  /\ l \in {"audit", "validate", "upload", "update"} => j.oldCover = row.cover
  /\ l = "update" /\ j.newCover # None => objects \subseteq {row.cover, j.newCover}
  /\ l \in NoticingPC \cup {"dropOld"} /\ j.newCover # None => objects \subseteq {row.cover, j.oldCover}
  /\ j.newCover = None \/ l \notin NoticingPC \cup {"update", "dropOld"} => objects \subseteq {row.cover}

OrphanInv ==
  Calm => /\ (\A w \in Worker : pc[w] = "idle") => objects \subseteq {row.cover}
          /\ \A w \in Worker : pc[w] # "idle" => TidyBy(pc[w], job[w])

LEMMA InitOrphanInv == Init => OrphanInv
<1> SUFFICES ASSUME Init PROVE OrphanInv
  OBVIOUS
<1>1. objects = {row.cover} \ {Outside} /\ \A w \in Worker : pc[w] = "idle"
  BY DEF Init
<1> QED
  BY <1>1 DEF OrphanInv

\* With no new cover there is nothing to delete before the log is written.
LEMMA DropsOnlyForNew ==
  ASSUME NEW j, j.newCover # None
  PROVE  /\ FromDrop(j) = "dropOld"
         /\ FromVerify(j) \in NoticingPC \cup {"dropOld"}
         /\ FromWindow(j) \in NoticingPC \cup {"dropOld"}
         /\ FromRepeat(j) \in NoticingPC \cup {"dropOld"}
BY DEF FromDrop, FromVerify, FromWindow, FromRepeat, NoticingPC

LEMMA NextOrphanInv ==
  TypeInv /\ Alone /\ HistoryInv /\ OrphanInv /\ [Next]_vars => OrphanInv'
<1> SUFFICES ASSUME TypeInv, Alone, HistoryInv, OrphanInv, Next PROVE OrphanInv'
  <2>1. CASE UNCHANGED vars
    BY <2>1 DEF OrphanInv, Calm, TidyBy, vars
  <2> QED
    BY <2>1
<1>1. PICK w \in Worker : Act(w)
  BY NextActs
<1>2. Steps(w)
  BY <1>1, ActSteps
<1>3. /\ row \in RowType /\ row.deleted \in BOOLEAN /\ objects \subseteq Nat /\ faults \in Nat
      /\ past \in Seq(TrackedType) /\ Len(past) \in Nat /\ uploads \in Nat
      /\ pc \in [Worker -> PC] /\ DOMAIN job = Worker /\ JobOK(pc[w], job[w])
  BY DEF TypeInv, TypeOK, RowType, HistoryInv
<1> SUFFICES ASSUME Calm'
             PROVE  /\ pc'[w] = "idle" => objects' \subseteq {row'.cover}
                    /\ pc'[w] # "idle" => TidyBy(pc[w], job[w])'
  <2>1. ASSUME NEW v \in Worker, v # w, Calm' PROVE pc'[v] = "idle"
    BY <1>2, <2>1, StepsAlone DEF Calm
  <2> QED
    BY <2>1 DEF OrphanInv
<1>4. \A v \in Worker \ {w} : pc[v] = "idle" /\ ~overlapped
  BY <1>2, StepsAlone DEF Calm
<1>5. ~overlapped
  BY <1>2, StepsAlone, Zenon DEF Calm
<1>6. faults' = faults \/ faults' = faults + 1
  BY <1>1 DEF Act, PatchStart, ToggleStart, DeleteStart, Start, PatchLoad, PatchSnapshot,
       PatchValidate, PatchUpload, PatchUpdate, PatchRepeat, PatchWindow, PatchVerify, PatchMark,
       PatchNotify, PatchDropOldCover, PatchLog, PatchReward, PatchRollback, ToggleFind, ToggleWrite,
       DeleteLoad, DeleteWrite, Fault
<1>7. given \subseteq given'
  BY <1>1 DEF Act, PatchStart, ToggleStart, DeleteStart, Start, PatchLoad, PatchSnapshot,
       PatchValidate, PatchUpload, PatchUpdate, PatchRepeat, PatchWindow, PatchVerify, PatchMark,
       PatchNotify, PatchDropOldCover, PatchLog, PatchReward, PatchRollback, ToggleFind, ToggleWrite,
       DeleteLoad, DeleteWrite, Fault
<1>8. Calm /\ faults' = 0
  <2>1. faults = 0 /\ faults' = 0
    BY <1>3, <1>6 DEF Calm
  <2> QED
    BY <1>5, <1>7, <2>1 DEF Calm
<1>9. (\A v \in Worker : pc[v] = "idle") => objects \subseteq {row.cover}
  BY <1>8, Zenon DEF OrphanInv
<1>10. pc[w] = "idle" => objects \subseteq {row.cover}
  <2>1. pc[w] = "idle" => \A v \in Worker : pc[v] = "idle"
    BY <1>4
  <2> QED
    BY <1>9, <2>1
<1>11. pc[w] # "idle" => TidyBy(pc[w], job[w])
  BY <1>8, Zenon DEF OrphanInv
<1>12. pc[w] \in LoadedPC => ~row.deleted
  BY <1>5, Zenon DEF HistoryInv, Told, ToldBy
<1> DEFINE Goal == /\ pc'[w] = "idle" => objects' \subseteq {row'.cover}
                   /\ pc'[w] # "idle" => TidyBy(pc[w], job[w])'
           Early == NoticingPC \cup {"update", "dropOld"}
\* A step to a call after which the bucket holds the current cover only.
<1>13. ASSUME objects' \subseteq {row'.cover}, pc'[w] # "rollback",
              pc'[w] \notin {"audit", "validate", "upload", "update"} \/ job'[w].oldCover = row'.cover
       PROVE  Goal
  BY <1>13 DEF TidyBy
<1>14. ASSUME UNCHANGED <<objects, row>>, pc[w] \in Early, pc'[w] \in NoticingPC \cup {"dropOld"},
              pc[w] # "update", job' = job
       PROVE  Goal
  BY <1>11, <1>14 DEF TidyBy, NoticingPC
<1> USE DEF tables, NoticingPC, TryPC, LoadedPC, SnapPC
<1>15. ASSUME UNCHANGED <<objects, row>>, pc[w] \notin Early,
              pc'[w] \notin {"audit", "validate", "upload", "update", "rollback"}
       PROVE  Goal
  <2>1. objects \subseteq {row.cover}
    BY <1>10, <1>11, <1>15 DEF TidyBy
  <2> QED
    BY <1>13, <1>15, <2>1
<1>16. CASE \/ \E p \in Patch, i \in Known : PatchStart(w, p, i)
            \/ \E u \in User, b \in BOOLEAN : ToggleStart(w, u, b)
            \/ \E u \in User : DeleteStart(w, u)
  BY <1>3, <1>15, <1>16 DEF PatchStart, ToggleStart, DeleteStart, Start, Goto
<1>17. CASE PatchLoad(w)
  <2>1. pc[w] = "bare" /\ UNCHANGED <<objects, row>>
    BY <1>17 DEF PatchLoad
  <2>2. CASE Respond(w)
    BY <1>3, <1>15, <2>1, <2>2 DEF Respond, Goto
  <2>3. ASSUME Goto(w, "audit"), job' = [job EXCEPT ![w].oldCover = row.cover] PROVE Goal
    <3>1. job[w] \in PatchJob
      BY <1>3, <2>1 DEF JobOK, PatchPC
    <3>2. pc'[w] = "audit" /\ job'[w].oldCover = row.cover
      BY <1>3, <2>3, <3>1 DEF Goto, PatchJob
    <3>3. objects \subseteq {row.cover}
      BY <1>11, <2>1 DEF TidyBy
    <3> QED
      BY <1>13, <2>1, <3>2, <3>3
  <2> QED
    BY <1>17, <2>2, <2>3 DEF PatchLoad
<1>18. CASE PatchSnapshot(w)
  <2>1. pc[w] = "audit" /\ UNCHANGED <<objects, row>>
    BY <1>18 DEF PatchSnapshot
  <2>2. CASE Respond(w)
    BY <1>3, <1>15, <2>1, <2>2 DEF Respond, Goto
  <2>3. ASSUME NEW b, Goto(w, "validate"), job' = [job EXCEPT ![w].before = b] PROVE Goal
    <3>1. job[w] \in PatchJob
      BY <1>3, <2>1 DEF JobOK, PatchPC
    <3>2. pc'[w] = "validate" /\ job'[w].oldCover = job[w].oldCover
      BY <1>3, <2>3, <3>1 DEF Goto, PatchJob
    <3>3. objects \subseteq {row.cover} /\ job[w].oldCover = row.cover
      BY <1>11, <2>1 DEF TidyBy
    <3> QED
      BY <1>13, <2>1, <3>2, <3>3
  <2> QED
    BY <1>18, <2>2, <2>3 DEF PatchSnapshot
<1>19. CASE PatchValidate(w)
  <2>1. pc[w] = "validate" /\ UNCHANGED <<objects, row>>
    BY <1>19 DEF PatchValidate
  <2>2. CASE Respond(w)
    BY <1>3, <1>15, <2>1, <2>2 DEF Respond, Goto
  <2>3. ASSUME NEW l \in {"upload", "update"}, Goto(w, l), job' = job PROVE Goal
    <3>1. pc'[w] = l
      BY <1>3, <2>3 DEF Goto
    <3>2. objects \subseteq {row.cover} /\ job[w].oldCover = row.cover
      BY <1>11, <2>1 DEF TidyBy
    <3> QED
      BY <1>13, <2>1, <2>3, <3>1, <3>2
  <2> QED
    BY <1>19, <2>2, <2>3 DEF PatchValidate
<1>20. CASE PatchUpload(w)
  <2>1. job[w] \in PatchJob
    BY <1>3, <1>20 DEF PatchUpload, JobOK, PatchPC
  <2>2. /\ pc[w] = "upload" /\ pc'[w] = "update" /\ job'[w].oldCover = job[w].oldCover
        /\ job'[w].newCover = uploads /\ row' = row /\ objects' = objects \cup {uploads}
    BY <1>3, <1>20, <2>1 DEF PatchUpload, Goto, PatchJob
  <2>3. objects \subseteq {row.cover} /\ job[w].oldCover = row.cover
    BY <1>11, <2>2 DEF TidyBy
  <2>4. uploads # None
    BY <1>3, EventEditAssumption
  <2> QED
    BY <2>2, <2>3, <2>4 DEF TidyBy
<1>21. CASE PatchUpdate(w)
  <2> DEFINE j == job[w]
             k == job'[w]
  <2>1. pc[w] = "update" /\ pc'[w] = FromRepeat(j) /\ objects' = objects
    BY <1>3, <1>21 DEF PatchUpdate, Goto
  <2>2. j \in PatchJob /\ (j.newCover # None => j.patch.cover = "file")
        /\ (j.patch.cover = "file" => j.newCover # None)
        /\ j.patch.cover \in {"absent", "file", "url"}
    BY <1>3, <2>1 DEF JobOK, PatchPC, PatchJob, PatchType
  <2>3. k.oldCover = j.oldCover /\ k.newCover = j.newCover
    BY <1>3, <1>21, <2>2 DEF PatchUpdate, PatchJob
  <2>4. row'.cover = IF InPatch(j, "cover") THEN NewValue(j, "cover") ELSE row.cover
    BY <1>3, <1>21, UpdateRecorded DEF Patched, Column
  <2>5. j.patch.cover = "url" => j.url = row.cover
    <3>1. given' = given \cup URLKinds(j)
      BY <1>21 DEF PatchUpdate
    <3> QED
      BY <3>1 DEF Calm, URLKinds
  <2>6. TidyBy("update", j)
    BY <1>11, <2>1
  <2>7. FromRepeat(j) \in WrittenPC
    BY NextCall DEF WrittenPC
  <2>7a. FromRepeat(j) \notin {"idle", "audit", "validate", "upload", "update", "rollback"}
    BY NextCall
  <2>8. CASE j.newCover = None
    <3>1. row'.cover = row.cover
      BY <2>2, <2>4, <2>5, <2>8 DEF InPatch, NewValue
    <3>2. objects' \subseteq {row'.cover}
      BY <2>1, <2>6, <2>8, <3>1 DEF TidyBy
    <3> QED
      BY <1>13, <2>1, <2>7a, <3>2
  <2>9. CASE j.newCover # None
    <3>1. row'.cover = j.newCover
      BY <2>2, <2>4, <2>9 DEF InPatch, NewValue
    <3>2. objects \subseteq {row.cover, j.newCover} /\ j.oldCover = row.cover
      BY <2>6, <2>9 DEF TidyBy
    <3>3. pc'[w] \in NoticingPC \cup {"dropOld"}
      BY <2>1, <2>9, DropsOnlyForNew
    <3>4. objects' \subseteq {row'.cover, k.oldCover} /\ k.newCover # None
      BY <2>1, <2>3, <2>9, <3>1, <3>2
    <3> HIDE DEF j, k
    <3> QED
      BY <3>3, <3>4 DEF TidyBy, k
  <2> QED
    BY <2>8, <2>9
<1>22. CASE PatchRepeat(w) \/ PatchWindow(w) \/ PatchNotify(w)
  <2>1. UNCHANGED <<objects, row>> /\ pc[w] \in NoticingPC /\ job' = job
    BY <1>22 DEF PatchRepeat, PatchWindow, PatchNotify
  <2>2. pc'[w] \in {FromWindow(job[w]), FromVerify(job[w]), FromDrop(job[w])}
    BY <1>3, <1>22 DEF PatchRepeat, PatchWindow, PatchNotify, Goto
  <2>3. CASE job[w].newCover = None
    <3>1. objects \subseteq {row.cover}
      BY <1>11, <2>1, <2>3 DEF TidyBy
    <3>2. pc'[w] \notin {"audit", "validate", "upload", "update", "rollback"}
      BY <2>2, NextCall
    <3> QED
      BY <1>13, <2>1, <3>1, <3>2
  <2>4. CASE job[w].newCover # None
    <3>1. pc'[w] \in NoticingPC \cup {"dropOld"}
      BY <2>2, <2>4, DropsOnlyForNew
    <3> QED
      BY <1>14, <2>1, <3>1
  <2> QED
    BY <2>3, <2>4
<1>23. CASE PatchVerify(w)
  <2>1. pc[w] = "verify" /\ UNCHANGED <<objects, row, job>>
    BY <1>23 DEF PatchVerify
  <2>2. pc'[w] \in {"notify", "mark"}
    BY <1>3, <1>12, <1>23, <2>1 DEF PatchVerify, Goto, WrittenPC
  <2> QED
    BY <1>14, <2>1, <2>2
<1>24. CASE PatchMark(w)
  <2>1. /\ pc[w] = "mark" /\ pc'[w] = "notify" /\ objects' = objects /\ row'.cover = row.cover
        /\ job'[w] = [job[w] EXCEPT !.effect = job[w].effect \cup {"verified"}]
        /\ job[w] \in PatchJob
    BY <1>3, <1>24 DEF PatchMark, Goto, RowType, JobOK, PatchPC
  <2>2. job'[w].oldCover = job[w].oldCover /\ job'[w].newCover = job[w].newCover
    BY <2>1 DEF PatchJob
  <2> QED
    BY <1>11, <2>1, <2>2 DEF TidyBy
<1>25. CASE PatchDropOldCover(w)
  <2>1. /\ pc[w] = "dropOld" /\ pc'[w] \in {"log", "reward"} /\ row' = row
        /\ objects' = objects \ {job[w].oldCover}
    BY <1>3, <1>25, NextCall DEF PatchDropOldCover, Goto
  <2>2. job[w].newCover # None
    BY <1>3, <2>1 DEF JobOK
  <2>3. objects \subseteq {row.cover, job[w].oldCover}
    BY <1>11, <2>1, <2>2 DEF TidyBy
  <2> QED
    BY <1>13, <2>1, <2>3
<1>26. CASE PatchLog(w)
  BY <1>3, <1>15, <1>26 DEF PatchLog, Goto
<1>27. CASE PatchReward(w)
  BY <1>3, <1>15, <1>27 DEF PatchReward, Respond, Goto
<1>28. CASE PatchRollback(w)
  BY <1>11, <1>28 DEF PatchRollback, TidyBy
<1>29. CASE ToggleFind(w)
  BY <1>3, <1>15, <1>29 DEF ToggleFind, Respond, Goto
<1>30. CASE ToggleWrite(w)
  <2>1. pc[w] = "toggleWrite" /\ pc'[w] = "idle" /\ objects' = objects
    BY <1>3, <1>30 DEF ToggleWrite, Respond, Goto
  <2>2. row'.cover = row.cover
    BY <1>3, <1>30 DEF ToggleWrite, RowType
  <2>3. objects \subseteq {row.cover}
    BY <1>11, <2>1 DEF TidyBy
  <2> QED
    BY <1>13, <2>1, <2>2, <2>3
<1>31. CASE DeleteLoad(w)
  BY <1>3, <1>15, <1>31 DEF DeleteLoad, Respond, Goto
<1>32. CASE DeleteWrite(w)
  <2>1. /\ pc[w] = "deleteWrite" /\ pc'[w] = "idle" /\ objects' = objects /\ row'.cover = row.cover
    BY <1>3, <1>32 DEF DeleteWrite, Respond, Goto, RowType
  <2>2. objects \subseteq {row.cover}
    BY <1>11, <2>1 DEF TidyBy
  <2> QED
    BY <1>13, <2>1, <2>2
<1>33. CASE Fault(w)
  BY <1>3, <1>8, <1>33 DEF Fault
<1> QED
  BY <1>1, <1>16, <1>17, <1>18, <1>19, <1>20, <1>21, <1>22, <1>23, <1>24, <1>25, <1>26, <1>27,
     <1>28, <1>29, <1>30, <1>31, <1>32, <1>33 DEF Act

LEMMA OrphanInvEnough == OrphanInv => NoOrphanCover
BY DEF OrphanInv, NoOrphanCover, Calm

-----------------------------------------------------------------------------
(* The theorems.                                                           *)

IInv == TypeInv /\ CountInv /\ CoverInv /\ Alone /\ HistoryInv /\ OrphanInv

\* The inductive invariant of the edits of one event.
THEOREM Invariance == Spec => []IInv
<1>1. Init => IInv
  <2>1. Init => Alone
    BY DEF Init, Alone
  <2> QED
    BY <2>1, InitTypeInv, InitCountInv, InitCoverInv, InitHistoryInv, InitOrphanInv DEF IInv
<1>2. IInv /\ [Next]_vars => IInv'
  BY NextTypeInv, NextCountInv, NextCoverInv, NextAlone, NextHistoryInv, NextOrphanInv DEF IInv
<1> QED
  BY <1>1, <1>2, PTL DEF Spec

\* Every reachable state has its type, whatever calls overlap or fail.
THEOREM TypeCorrect == Spec => []TypeOK
<1>1. IInv => TypeOK
  BY DEF IInv, TypeInv
<1> QED
  BY <1>1, Invariance, PTL

\* Logs, rewards and notices are each backed by increments of the version of
\* their own (updateEvent's calls after updateEventById).
THEOREM CountTheorem == Spec => []OneLogAndRewardPerWrite
<1>1. IInv => OneLogAndRewardPerWrite
  BY CountInvEnough DEF IInv
<1> QED
  BY <1>1, Invariance, PTL

\* Until a call fails, deleting the cover that was current when an edit started
\* never deletes the cover of a live event, for any number of overlapping edits,
\* unless a body has named an image that was deleted or about to be.
THEOREM DanglingTheorem == Spec => []NoDanglingCover
<1>1. IInv => NoDanglingCover
  BY DEF IInv, CoverInv
<1> QED
  BY <1>1, Invariance, PTL

\* Edits that neither fail nor overlap nor name another image leave none behind.
THEOREM OrphanTheorem == Spec => []NoOrphanCover
<1>1. IInv => NoOrphanCover
  BY OrphanInvEnough DEF IInv
<1> QED
  BY <1>1, Invariance, PTL

\* As long as edits do not overlap the edit logs are the history of the tracked
\* fields except isVerified, whichever calls fail (diffEventForEditLog on the
\* snapshot of updateEvent).
THEOREM LogTheorem == Spec => []LogsTellHistory
<1>1. IInv => LogsTellHistory
  BY HistoryInvEnough DEF IInv
<1> QED
  BY <1>1, Invariance, PTL

-----------------------------------------------------------------------------
(* The database's filter of a band and the ranges of years, for every row. *)

\* Two ranges of which the second is not empty share a year exactly when the
\* larger lower end does not exceed the smaller upper end.
LEMMA SharedYear ==
  ASSUME NEW a \in Int, NEW b \in Int, NEW lo \in Int, NEW hi \in Int, lo <= hi
  PROVE  (a..b) \cap (lo..hi) # {} <=> a <= b /\ a <= hi /\ lo <= b
<1>1. ASSUME a <= b, a <= hi, lo <= b
      PROVE  (a..b) \cap (lo..hi) # {}
  <2>1. CASE a <= lo
    <3>1. lo \in (a..b) \cap (lo..hi)
      BY <1>1, <2>1
    <3>2. QED
      BY <3>1
  <2>2. CASE lo < a
    <3>1. a \in (a..b) \cap (lo..hi)
      BY <1>1, <2>2
    <3>2. QED
      BY <3>1
  <2>3. QED
    BY <2>1, <2>2
<1>2. ASSUME NEW y \in (a..b) \cap (lo..hi)
      PROVE  a <= b /\ a <= hi /\ lo <= b
  BY <1>2
<1>3. QED
  BY <1>1, <1>2

\* A row of the table event_groups is found by the filter of a band exactly when
\* the years it admits meet the band, for every value of the row, negative and
\* beyond the cap included, and every band within 1..AgeCap
\* (buildAgeBandGroupWhere against ageRowToYearRange).
THEOREM FilterExact ==
  ASSUME NEW r \in AgeRow, NEW lo \in 1..AgeCap, NEW hi \in lo..AgeCap
  PROVE  BandWhere(r, lo, hi) <=> Years(r) \cap (lo..hi) # {}
<1> DEFINE v == r.value
<1>1. v \in Int /\ r.condition \in Condition
  BY DEF AgeRow
<1>2. lo \in Int /\ hi \in Int /\ 1 <= lo /\ lo <= hi /\ hi <= AgeCap /\ AgeCap = 120
  BY DEF AgeCap
<1>2a. v \in Int /\ lo \in Int /\ hi \in Int /\ AgeCap \in Int /\ 0 \in Int /\ lo <= hi
  BY <1>1, <1>2
<1>3. CASE r.condition \in {"GreaterAndEqual", "DownTo"}
  <2>1. Years(r) = v..AgeCap
    BY <1>3 DEF Years, YearRange
  <2>2. BandWhere(r, lo, hi) <=> v <= hi
    BY <1>3 DEF BandWhere
  <2>3. (v..AgeCap) \cap (lo..hi) # {} <=> v <= AgeCap /\ v <= hi /\ lo <= AgeCap
    BY <1>2a, SharedYear, Zenon
  <2>4. QED
    BY <1>1, <1>2, <2>1, <2>2, <2>3
<1>4. CASE r.condition = "Greater"
  <2>1. Years(r) = (v + 1)..AgeCap
    BY <1>4 DEF Years, YearRange
  <2>2. BandWhere(r, lo, hi) <=> v <= Larger(0, hi - 1)
    BY <1>4 DEF BandWhere
  <2>3. Larger(0, hi - 1) = hi - 1
    BY <1>2 DEF Larger
  <2>4. v + 1 \in Int
    BY <1>1
  <2>5. ((v + 1)..AgeCap) \cap (lo..hi) # {} <=> v + 1 <= AgeCap /\ v + 1 <= hi /\ lo <= AgeCap
    BY <1>2a, <2>4, SharedYear, Zenon
  <2>6. QED
    BY <1>1, <1>2, <2>1, <2>2, <2>3, <2>4, <2>5
<1>5. CASE r.condition \in {"LowerAndEqual", "UpTo"}
  <2>1. Years(r) = 0..v
    BY <1>5 DEF Years, YearRange
  <2>2. BandWhere(r, lo, hi) <=> v >= lo
    BY <1>5 DEF BandWhere
  <2>3. (0..v) \cap (lo..hi) # {} <=> 0 <= v /\ 0 <= hi /\ lo <= v
    BY <1>2a, SharedYear, Zenon
  <2>4. QED
    BY <1>1, <1>2, <2>1, <2>2, <2>3
<1>6. CASE r.condition = "Lower"
  <2>1. Years(r) = 0..Larger(0, v - 1)
    BY <1>6 DEF Years, YearRange
  <2>2. BandWhere(r, lo, hi) <=> v >= lo + 1
    BY <1>6 DEF BandWhere
  <2>3. Larger(0, v - 1) \in Int /\ (lo <= Larger(0, v - 1) <=> v >= lo + 1)
        /\ 0 <= Larger(0, v - 1)
    BY <1>1, <1>2 DEF Larger
  <2>4. (0..Larger(0, v - 1)) \cap (lo..hi) # {} <=> 0 <= Larger(0, v - 1) /\ 0 <= hi /\ lo <= Larger(0, v - 1)
    BY <1>2a, <2>3, SharedYear, Zenon
  <2>5. QED
    BY <1>1, <1>2, <2>1, <2>2, <2>3, <2>4
<1>7. QED
  BY <1>1, <1>3, <1>4, <1>5, <1>6 DEF Condition
-----------------------------------------------------------------------------
(* Induction on numbers, as a fact about sets.                             *)

\* A set of naturals has a least element (from well-foundedness, which is a fact about
\* sets, unlike the induction rules).
LEMMA LeastNat ==
  ASSUME NEW T \in SUBSET Nat, T # {}
  PROVE  \E m \in T : \A k \in T : m <= k
<1>1. \E m \in T : \A k \in T : ~ (<<k, m>> \in OpToRel(<, Nat))
  BY NatLessThanWellFounded, WFMin
<1>2. PICK m \in T : \A k \in T : ~ (<<k, m>> \in OpToRel(<, Nat))
  BY <1>1
<1>3. ASSUME NEW k \in T
      PROVE  m <= k
  <2>1. ~ (k < m)
    BY <1>2 DEF OpToRel
  <2>2. QED
    BY <2>1
<1>4. QED
  BY <1>3

\* What holds at 0 and passes from each number to the next holds up to n.
LEMMA SetInduction ==
  ASSUME NEW n \in Nat, NEW A, 0 \in A, \A i \in 0..(n - 1) : i \in A => i + 1 \in A
  PROVE  \A i \in 0..n : i \in A
<1> DEFINE T == {i \in 0..n : i \notin A}
<1> SUFFICES ASSUME T # {}
             PROVE  FALSE
  OBVIOUS
<1>1. T \in SUBSET Nat
  OBVIOUS
<1>2. PICK m \in T : \A k \in T : m <= k
  BY <1>1, LeastNat
<1>3. m # 0 /\ m \in 0..n
  OBVIOUS
<1>4. m - 1 \in 0..n /\ m - 1 \in 0..(n - 1)
  BY <1>3
<1>5. m - 1 \notin T
  BY <1>2, <1>4
<1>6. (m - 1) + 1 = m
  BY <1>3
<1>7. QED
  BY <1>4, <1>5, <1>6

\* The step G takes i and the value for i - 1 to the value for i, on 1..n.
IsStep(V, n, base, G) == n \in Nat /\ base \in V /\ G \in [(1..n) \X V -> V]
HasSolution(V, n, base, G) ==
  \E g \in [0..n -> V] : g[0] = base /\ \A i \in 1..n : g[i] = G[<<i, g[i - 1]>>]

\* A recursive equation on 0..n has a solution.
LEMMA Recursion ==
  ASSUME NEW V, NEW n, NEW base, NEW G, IsStep(V, n, base, G)
  PROVE  HasSolution(V, n, base, G)
<1> USE DEF IsStep, HasSolution
<1> DEFINE Solves(g, k) == /\ g \in [0..k -> V] /\ g[0] = base
                           /\ \A i \in 1..k : g[i] = G[<<i, g[i - 1]>>]
           A == {k \in 0..n : \E g : Solves(g, k)}
<1>1. 0 \in A
  <2> DEFINE g == [i \in 0..0 |-> base]
  <2>1. g \in [0..0 -> V] /\ g[0] = base
    OBVIOUS
  <2>2. 1..0 = {}
    OBVIOUS
  <2>3. Solves(g, 0)
    BY <2>1, <2>2
  <2> HIDE DEF Solves, g
  <2>4. QED
    BY <2>3
<1>2. ASSUME NEW k \in 0..(n - 1), k \in A
      PROVE  k + 1 \in A
  <2>1. PICK g : Solves(g, k)
    BY <1>2
  <2>2. k \in Nat /\ k + 1 \in 1..n /\ k + 1 \in 0..n
    OBVIOUS
  <2> DEFINE next == G[<<k + 1, g[k]>>]
             h == [i \in 0..(k + 1) |-> IF i = k + 1 THEN next ELSE g[i]]
  <2>3. g[k] \in V
    BY <2>1, <2>2
  <2>4. next \in V
    BY <2>2, <2>3
  <2>5. \A i \in 0..k : g[i] \in V
    BY <2>1
  <2>6. h \in [0..(k + 1) -> V]
    BY <2>2, <2>4, <2>5
  <2>7. h[0] = base
    BY <2>1, <2>2
  <2>8. ASSUME NEW i \in 1..(k + 1)
        PROVE  h[i] = G[<<i, h[i - 1]>>]
    <3>1. CASE i = k + 1
      <4>1. h[i - 1] = g[k]
        BY <3>1, <2>2
      <4>2. QED
        BY <3>1, <4>1
    <3>2. CASE i # k + 1
      <4>1. i \in 1..k /\ i - 1 \in 0..k /\ i - 1 # k + 1 /\ i - 1 \in 0..(k + 1)
        BY <3>2, <2>2
      <4>2. h[i] = g[i] /\ h[i - 1] = g[i - 1]
        BY <3>2, <4>1
      <4>3. QED
        BY <4>1, <4>2, <2>1
    <3>3. QED
      BY <3>1, <3>2
  <2>9. Solves(h, k + 1)
    BY <2>6, <2>7, <2>8
  <2> HIDE DEF Solves, h
  <2>10. QED
    BY <2>2, <2>9
<1>3. n \in A
  <2> HIDE DEF A
  <2>1. \A i \in 0..n : i \in A
    BY <1>1, <1>2, SetInduction
  <2>2. QED
    BY <2>1
<1>4. QED
  BY <1>3

-----------------------------------------------------------------------------
(* The operators of the merge, typed.                                      *)

Span == [lo : Int, hi : Int]

\* The years of the span x.
YearsOf(x) == x.lo .. x.hi

\* A merged list stays a list of spans.
LEMMA WidenType ==
  ASSUME NEW m \in Seq(Span), NEW x \in Span
  PROVE  Widen(m, x) \in Seq(Span)
<1>1. CASE m # <<>> /\ x.lo <= m[Len(m)].hi + 1
  <2> DEFINE n == Len(m)
             y == [lo |-> m[n].lo, hi |-> Larger(m[n].hi, x.hi)]
  <2>1. n \in Nat /\ n \in DOMAIN m /\ DOMAIN m = 1..n
    BY <1>1
  <2>2. m[n] \in Span
    BY <2>1
  <2>3. [m[n] EXCEPT !.hi = Larger(@, x.hi)] = y
    BY <2>2 DEF Span
  <2>4. y \in Span
    BY <2>2 DEF Span, Larger
  <2>5. Widen(m, x) = [m EXCEPT ![n] = y]
    BY <1>1, <2>3 DEF Widen
  <2> HIDE DEF y
  <2>6. QED
    BY <2>1, <2>4, <2>5
<1>2. CASE ~(m # <<>> /\ x.lo <= m[Len(m)].hi + 1)
  BY <1>2 DEF Widen
<1>3. QED
  BY <1>1, <1>2

\* The lists of Merged follow its equation.
LEMMA MergedSteps ==
  ASSUME NEW s \in Seq(Span)
  PROVE  /\ Merged(s) \in [0..Len(s) -> Seq(Span)]
         /\ Merged(s)[0] = <<>>
         /\ \A i \in 1..Len(s) : Merged(s)[i] = Widen(Merged(s)[i - 1], s[i])
<1> DEFINE n == Len(s)
           G == [p \in (1..n) \X Seq(Span) |-> Widen(p[2], s[p[1]])]
           Solves(g) == g = [i \in 0..n |-> IF i = 0 THEN <<>> ELSE Widen(g[i - 1], s[i])]
<1>1. n \in Nat /\ <<>> \in Seq(Span)
  OBVIOUS
<1>2. G \in [(1..n) \X Seq(Span) -> Seq(Span)]
  <2>1. ASSUME NEW p \in (1..n) \X Seq(Span)
        PROVE  Widen(p[2], s[p[1]]) \in Seq(Span)
    <3>1. p[2] \in Seq(Span) /\ s[p[1]] \in Span
      OBVIOUS
    <3>2. QED
      BY <3>1, WidenType
  <2>2. QED
    BY <2>1
<1>3. PICK g \in [0..n -> Seq(Span)] :
        g[0] = <<>> /\ \A i \in 1..n : g[i] = G[<<i, g[i - 1]>>]
  <2> DEFINE V == Seq(Span)
             empty == <<>>
  <2>1. IsStep(V, n, empty, G)
    BY <1>1, <1>2 DEF IsStep
  <2> HIDE DEF G, n, V, empty, Solves
  <2>2. HasSolution(V, n, empty, G)
    BY <2>1, Recursion, Zenon
  <2>3. QED
    BY <2>2 DEF V, empty, HasSolution
<1>4. ASSUME NEW i \in 1..n
      PROVE  g[i] = Widen(g[i - 1], s[i])
  <2>1. i - 1 \in 0..n
    BY <1>1
  <2>2. <<i, g[i - 1]>> \in (1..n) \X Seq(Span)
    BY <2>1
  <2>3. G[<<i, g[i - 1]>>] = Widen(g[i - 1], s[i])
    BY <2>2
  <2>4. QED
    BY <1>3, <2>3
<1>5. Solves(g)
  <2>1. ASSUME NEW i \in 0..n
        PROVE  g[i] = IF i = 0 THEN <<>> ELSE Widen(g[i - 1], s[i])
    <3>1. CASE i = 0
      BY <3>1, <1>3
    <3>2. CASE i # 0
      BY <3>2, <1>1, <1>4
    <3>3. QED
      BY <3>1, <3>2
  <2>2. QED
    BY <2>1
<1>6. Merged(s) = CHOOSE h : Solves(h)
  BY DEF Merged
<1>7. Solves(Merged(s))
  <2> HIDE DEF Solves
  <2>1. QED
    BY <1>5, <1>6
<1>8. \A i \in 0..n : Merged(s)[i] = IF i = 0 THEN <<>> ELSE Widen(Merged(s)[i - 1], s[i])
  <2> DEFINE h == Merged(s)
  <2>1. h = [i \in 0..n |-> IF i = 0 THEN <<>> ELSE Widen(h[i - 1], s[i])]
    BY <1>7
  <2> HIDE DEF h
  <2>2. \A i \in 0..n : h[i] = IF i = 0 THEN <<>> ELSE Widen(h[i - 1], s[i])
    BY <2>1
  <2>3. QED
    BY <2>2 DEF h
<1>9. Merged(s)[0] = <<>> /\ \A i \in 1..n : Merged(s)[i] = Widen(Merged(s)[i - 1], s[i])
  BY <1>8, <1>1
<1>10. \A i \in 0..n : Merged(s)[i] \in Seq(Span)
  <2> DEFINE A == {i \in 0..n : Merged(s)[i] \in Seq(Span)}
  <2>1. 0 \in A
    <3>1. 0 \in 0..n
      BY <1>1
    <3>2. Merged(s)[0] \in Seq(Span)
      BY <1>1, <1>9, Zenon
    <3> HIDE DEF n, Solves
    <3>3. QED
      BY <3>1, <3>2, Zenon
  <2>2. ASSUME NEW i \in 0..(n - 1), i \in A
        PROVE  i + 1 \in A
    <3>1. i + 1 \in 1..n /\ (i + 1) - 1 = i /\ i + 1 \in 0..n
      BY <1>1
    <3>2. Merged(s)[i + 1] = Widen(Merged(s)[i], s[i + 1])
      BY <1>9, <3>1
    <3>3. s[i + 1] \in Span /\ Merged(s)[i] \in Seq(Span)
      BY <2>2, <3>1
    <3>4. QED
      BY <3>1, <3>2, <3>3, WidenType
  <2> HIDE DEF A, n
  <2>3. \A i \in 0..n : i \in A
    BY <1>1, <2>1, <2>2, SetInduction
  <2>4. QED
    BY <2>3 DEF A
<1>11. Merged(s) \in [0..n -> Seq(Span)]
  <2> DEFINE h == Merged(s)
  <2>1. h = [i \in 0..n |-> IF i = 0 THEN <<>> ELSE Widen(h[i - 1], s[i])]
    BY <1>7
  <2>2. \A i \in 0..n : h[i] \in Seq(Span)
    BY <1>10
  <2> HIDE DEF h
  <2>3. h \in [0..n -> Seq(Span)]
    BY <2>1, <2>2
  <2>4. QED
    BY <2>3 DEF h
<1>12. QED
  BY <1>9, <1>11

\* The overlap of two spans is the number of years they share.
LEMMA OverlapCounts ==
  ASSUME NEW a \in Span, NEW b \in Span
  PROVE  /\ IsFiniteSet(YearsOf(a) \cap YearsOf(b))
         /\ OverlapSize(a, b) = Cardinality(YearsOf(a) \cap YearsOf(b))
         /\ OverlapSize(a, b) \in Nat
<1> DEFINE lo == Larger(a.lo, b.lo)
           hi == Smaller(a.hi, b.hi)
<1>1. lo \in Int /\ hi \in Int
  BY DEF Span, Larger, Smaller
<1>2. YearsOf(a) \cap YearsOf(b) = lo..hi
  BY DEF Span, Larger, Smaller, YearsOf
<1>3. OverlapSize(a, b) = IF lo > hi THEN 0 ELSE hi - lo + 1
  BY <1>1 DEF OverlapSize
<1> HIDE DEF lo, hi
<1>4. IsFiniteSet(lo..hi) /\ Cardinality(lo..hi) = IF lo > hi THEN 0 ELSE hi - lo + 1
  BY <1>1, FS_Interval
<1>5. (IF lo > hi THEN 0 ELSE hi - lo + 1) \in Nat
  BY <1>1
<1>6. QED
  BY <1>2, <1>3, <1>4, <1>5

\* The sums of Scores follow its equation.
LEMMA ScoresSteps ==
  ASSUME NEW s \in Seq(Span), NEW band \in Span
  PROVE  /\ Scores(s, band) \in [0..Len(s) -> Nat]
         /\ Scores(s, band)[0] = 0
         /\ \A i \in 1..Len(s) :
              Scores(s, band)[i] = Scores(s, band)[i - 1] + OverlapSize(s[i], band)
<1> DEFINE n == Len(s)
           G == [p \in (1..n) \X Nat |-> p[2] + OverlapSize(s[p[1]], band)]
           Solves(g) ==
             g = [i \in 0..n |-> IF i = 0 THEN 0 ELSE g[i - 1] + OverlapSize(s[i], band)]
<1>1. n \in Nat /\ 0 \in Nat
  OBVIOUS
<1>2. G \in [(1..n) \X Nat -> Nat]
  <2>1. ASSUME NEW p \in (1..n) \X Nat
        PROVE  p[2] + OverlapSize(s[p[1]], band) \in Nat
    <3>1. p[2] \in Nat /\ s[p[1]] \in Span
      OBVIOUS
    <3>2. OverlapSize(s[p[1]], band) \in Nat
      BY <3>1, OverlapCounts
    <3>3. QED
      BY <3>1, <3>2
  <2>2. QED
    BY <2>1
<1>3. PICK g \in [0..n -> Nat] : g[0] = 0 /\ \A i \in 1..n : g[i] = G[<<i, g[i - 1]>>]
  <2>1. IsStep(Nat, n, 0, G)
    BY <1>1, <1>2 DEF IsStep
  <2> HIDE DEF G, n, Solves
  <2>2. HasSolution(Nat, n, 0, G)
    BY <2>1, Recursion, Zenon
  <2>3. QED
    BY <2>2 DEF HasSolution
<1>4. ASSUME NEW i \in 1..n
      PROVE  g[i] = g[i - 1] + OverlapSize(s[i], band)
  <2>1. i - 1 \in 0..n
    BY <1>1
  <2>2. <<i, g[i - 1]>> \in (1..n) \X Nat
    BY <2>1
  <2>3. G[<<i, g[i - 1]>>] = g[i - 1] + OverlapSize(s[i], band)
    BY <2>2
  <2>4. QED
    BY <1>3, <2>3
<1>5. Solves(g)
  <2>1. ASSUME NEW i \in 0..n
        PROVE  g[i] = IF i = 0 THEN 0 ELSE g[i - 1] + OverlapSize(s[i], band)
    <3>1. CASE i = 0
      BY <3>1, <1>3
    <3>2. CASE i # 0
      BY <3>2, <1>1, <1>4
    <3>3. QED
      BY <3>1, <3>2
  <2>2. QED
    BY <2>1
<1>6. Scores(s, band) = CHOOSE h : Solves(h)
  BY DEF Scores
<1>7. Solves(Scores(s, band))
  <2> HIDE DEF Solves
  <2>1. QED
    BY <1>5, <1>6
<1>8. g = Scores(s, band)
  <2> DEFINE h == Scores(s, band)
             A == {i \in 0..n : h[i] = g[i]}
  <2>1. h = [i \in 0..n |-> IF i = 0 THEN 0 ELSE h[i - 1] + OverlapSize(s[i], band)]
    BY <1>7
  <2> HIDE DEF h
  <2>2. 0 \in A
    BY <2>1, <1>1, <1>3
  <2>3. ASSUME NEW i \in 0..(n - 1), i \in A
        PROVE  i + 1 \in A
    <3>1. i + 1 \in 1..n /\ (i + 1) - 1 = i /\ i + 1 \in 0..n /\ i + 1 # 0
      BY <1>1
    <3>2. h[i + 1] = h[i] + OverlapSize(s[i + 1], band)
      BY <2>1, <3>1
    <3>3. g[i + 1] = g[i] + OverlapSize(s[i + 1], band)
      BY <1>4, <3>1
    <3>4. QED
      BY <2>3, <3>1, <3>2, <3>3
  <2> HIDE DEF A, n
  <2>4. \A i \in 0..n : i \in A
    BY <1>1, <2>2, <2>3, SetInduction
  <2>5. \A i \in 0..n : h[i] = g[i]
    BY <2>4 DEF A
  <2>6. g = h
    BY <2>1, <2>5 DEF n
  <2>7. QED
    BY <2>6 DEF h
<1>9. QED
  BY <1>3, <1>4, <1>8

-----------------------------------------------------------------------------
(* The merge keeps the years, and its spans lie apart.                     *)

\* The years of the first i spans of s.
Covered(s, i) == {y \in Int : \E j \in 1..i : y \in YearsOf(s[j])}

\* The merged spans m of the first i spans of s.
MergeInv(s, i, m) ==
  /\ m \in Seq(Span)
  /\ Covered(m, Len(m)) = Covered(s, i)
  /\ IF i = 0 THEN m = <<>> ELSE m # <<>> /\ m[Len(m)].lo <= s[i].lo
  /\ \A j, k \in 1..Len(m) : j < k => m[j].hi < m[k].lo

\* Two ranges that overlap or touch, the first of which starts first, make one.
LEMMA TouchingYears ==
  ASSUME NEW a \in Int, NEW b \in Int, NEW c \in Int, NEW d \in Int, a <= c, c <= b + 1
  PROVE  a..Larger(b, d) = (a..b) \cup (c..d)
BY DEF Larger

\* One more span, which starts no earlier than those before it.
LEMMA WidenKeepsInv ==
  ASSUME NEW s \in Seq(Span), NEW i \in 0..(Len(s) - 1), NEW m, MergeInv(s, i, m),
         i > 0 => s[i].lo <= s[i + 1].lo
  PROVE  MergeInv(s, i + 1, Widen(m, s[i + 1]))
<1> DEFINE r == s[i + 1]
           n == Len(m)
           w == Widen(m, r)
<1>1. /\ i \in Nat /\ i + 1 \in 1..Len(s) /\ r \in Span /\ n \in Nat /\ m \in Seq(Span)
      /\ r.lo \in Int /\ r.hi \in Int /\ w \in Seq(Span)
  <2>1. i \in Nat /\ i + 1 \in 1..Len(s)
    OBVIOUS
  <2>2. r \in Span /\ m \in Seq(Span) /\ n \in Nat
    BY <2>1 DEF MergeInv
  <2>3. r.lo \in Int /\ r.hi \in Int
    BY <2>2 DEF Span
  <2>4. w \in Seq(Span)
    BY <2>2, WidenType
  <2>5. QED
    BY <2>1, <2>2, <2>3, <2>4
<1>2. Covered(s, i + 1) = Covered(s, i) \cup YearsOf(r)
  <2>1. \A j : j \in 1..(i + 1) <=> j \in 1..i \/ j = i + 1
    BY <1>1
  <2>2. YearsOf(r) \subseteq Int
    BY DEF YearsOf
  <2> HIDE DEF w, n
  <2>3. QED
    BY <2>1, <2>2 DEF Covered
<1>3. \A j \in 1..n : m[j].lo \in Int /\ m[j].hi \in Int
  <2>1. \A j \in 1..n : m[j] \in Span
    BY <1>1
  <2>2. QED
    BY <2>1 DEF Span
<1>4. CASE m # <<>> /\ r.lo <= m[n].hi + 1
  <2> DEFINE y == [lo |-> m[n].lo, hi |-> Larger(m[n].hi, r.hi)]
  <2>1. n \in 1..n /\ n > 0 /\ m[n].lo \in Int /\ m[n].hi \in Int
    BY <1>1, <1>3, <1>4
  <2>2. [m[n] EXCEPT !.hi = Larger(@, r.hi)] = y
    <3>1. m[n] \in Span
      BY <1>1, <2>1
    <3>2. QED
      BY <3>1 DEF Span
  <2>3. w = [m EXCEPT ![n] = y]
    BY <1>4, <2>2 DEF Widen
  <2>4. y.lo = m[n].lo /\ y.hi = Larger(m[n].hi, r.hi) /\ y.hi \in Int
    BY <1>1, <2>1 DEF Larger
  <2> HIDE DEF y
  <2>5. Len(w) = n /\ w[n] = y /\ \A j \in 1..n : j # n => w[j] = m[j]
    BY <1>1, <2>1, <2>3
  <2>6. i # 0 /\ m[n].lo <= s[i].lo /\ s[i].lo <= r.lo /\ s[i].lo \in Int
    <3>1. i # 0 /\ m[n].lo <= s[i].lo
      BY <1>4 DEF MergeInv
    <3>2. s[i] \in Span
      BY <1>1, <3>1
    <3>3. QED
      BY <1>1, <3>1, <3>2 DEF Span
  <2>7. m[n].lo <= r.lo /\ r.lo <= m[n].hi + 1
    BY <1>1, <1>4, <2>1, <2>6
  <2>8. YearsOf(y) = YearsOf(m[n]) \cup YearsOf(r)
    <3>1. (m[n].lo)..Larger(m[n].hi, r.hi) = (m[n].lo..m[n].hi) \cup (r.lo..r.hi)
      <4> DEFINE a == m[n].lo
                 b == m[n].hi
                 c == r.lo
                 d == r.hi
      <4>1. a \in Int /\ b \in Int /\ c \in Int /\ d \in Int /\ a <= c /\ c <= b + 1
        BY <1>1, <2>1, <2>7
      <4> HIDE DEF a, b, c, d
      <4>2. a..Larger(b, d) = (a..b) \cup (c..d)
        BY <4>1, TouchingYears
      <4>3. QED
        BY <4>2 DEF a, b, c, d
    <3>2. QED
      BY <2>4, <3>1 DEF YearsOf
  <2>9. Covered(w, n) = Covered(m, n) \cup YearsOf(r)
    <3>1. YearsOf(y) \subseteq Int /\ YearsOf(r) \subseteq Int
      BY DEF YearsOf
    <3> HIDE DEF w
    <3>2. ASSUME NEW x \in Int
          PROVE  x \in Covered(w, n) <=> x \in Covered(m, n) \/ x \in YearsOf(r)
      <4>1. x \in Covered(w, n) <=> x \in YearsOf(y) \/ \E j \in 1..n : j # n /\ x \in YearsOf(m[j])
        BY <2>1, <2>5 DEF Covered
      <4>2. x \in Covered(m, n) <=> x \in YearsOf(m[n]) \/ \E j \in 1..n : j # n /\ x \in YearsOf(m[j])
        BY <2>1 DEF Covered
      <4>3. QED
        BY <2>8, <4>1, <4>2
    <3>3. QED
      BY <3>1, <3>2 DEF Covered
  <2>10. Covered(w, Len(w)) = Covered(s, i + 1)
    BY <1>2, <2>5, <2>9 DEF MergeInv
  <2>11. w # <<>> /\ w[Len(w)].lo <= s[i + 1].lo
    BY <1>1, <2>1, <2>4, <2>5, <2>7
  <2>12. ASSUME NEW j \in 1..Len(w), NEW k \in 1..Len(w), j < k
         PROVE  w[j].hi < w[k].lo
    <3>1. j \in 1..n /\ k \in 1..n /\ j # n /\ w[j] = m[j]
      BY <1>1, <2>5, <2>12
    <3>2. w[k].lo = m[k].lo
      BY <2>4, <2>5, <3>1
    <3>3. m[j].hi < m[k].lo
      BY <2>12, <3>1 DEF MergeInv
    <3>4. QED
      BY <3>1, <3>2, <3>3
  <2>13. QED
    BY <1>1, <2>10, <2>11, <2>12 DEF MergeInv
<1>5. CASE ~(m # <<>> /\ r.lo <= m[n].hi + 1)
  <2>1. w = Append(m, r)
    BY <1>5 DEF Widen
  <2>2. Len(w) = n + 1 /\ w[n + 1] = r /\ \A j \in 1..n : w[j] = m[j]
    BY <1>1, <2>1
  <2>3. Covered(w, Len(w)) = Covered(m, n) \cup YearsOf(r)
    <3>1. \A j : j \in 1..(n + 1) <=> j \in 1..n \/ j = n + 1
      BY <1>1
    <3>2. YearsOf(r) \subseteq Int
      BY DEF YearsOf
    <3> HIDE DEF w, n, r
    <3>3. QED
      BY <2>2, <3>1, <3>2 DEF Covered
  <2>4. Covered(w, Len(w)) = Covered(s, i + 1)
    BY <1>2, <2>3 DEF MergeInv
  <2>5. w # <<>> /\ w[Len(w)].lo <= s[i + 1].lo
    BY <1>1, <2>2
  <2>6. \A j \in 1..n : m[j].hi < r.lo
    <3> SUFFICES ASSUME NEW j \in 1..n
                 PROVE  m[j].hi < r.lo
      OBVIOUS
    <3>1. m # <<>> /\ n \in 1..n
      BY <1>1
    <3>2. m[n].hi + 1 < r.lo
      BY <1>1, <1>3, <1>5, <3>1
    <3>3. CASE j = n
      BY <1>1, <1>3, <3>2, <3>3
    <3>4. CASE j # n
      <4>1. m[j].hi < m[n].lo
        BY <1>1, <3>1, <3>4 DEF MergeInv
      <4>2. i # 0 /\ m[n].lo <= s[i].lo
        BY <3>1 DEF MergeInv
      <4>3. s[i] \in Span /\ s[i].lo <= r.lo
        BY <1>1, <4>2
      <4>4. s[i].lo \in Int
        BY <4>3 DEF Span
      <4>5. QED
        BY <1>1, <1>3, <3>1, <4>1, <4>2, <4>3, <4>4
    <3>5. QED
      BY <3>3, <3>4
  <2>7. ASSUME NEW j \in 1..Len(w), NEW k \in 1..Len(w), j < k
        PROVE  w[j].hi < w[k].lo
    <3>1. j \in 1..n /\ w[j] = m[j]
      BY <1>1, <2>2, <2>7
    <3>2. CASE k = n + 1
      BY <2>2, <2>6, <3>1, <3>2
    <3>3. CASE k # n + 1
      <4>1. k \in 1..n /\ w[k] = m[k]
        BY <1>1, <2>2, <3>3
      <4>2. QED
        BY <2>7, <3>1, <4>1 DEF MergeInv
    <3>4. QED
      BY <3>2, <3>3
  <2>8. QED
    BY <1>1, <2>4, <2>5, <2>7 DEF MergeInv
<1>6. QED
  BY <1>4, <1>5

\* The order of the starts; what starts together comes in any order.
InOrder(s) == \A i, j \in DOMAIN s : i < j => s[i].lo <= s[j].lo

\* The merge of spans in any order of their starts.
LEMMA MergeKeepsYears ==
  ASSUME NEW s \in Seq(Span), InOrder(s), NEW i \in 0..Len(s)
  PROVE  MergeInv(s, i, Merged(s)[i])
<1> DEFINE n == Len(s)
           A == {k \in 0..n : MergeInv(s, k, Merged(s)[k])}
<1>1. n \in Nat /\ 0 \in 0..n /\ DOMAIN s = 1..n
  OBVIOUS
<1>2. 0 \in A
  <2>1. Merged(s)[0] = <<>> /\ <<>> \in Seq(Span) /\ Len(<<>>) = 0
    BY MergedSteps
  <2>2. \A t : Covered(t, 0) = {}
    BY DEF Covered
  <2>3. Covered(<<>>, Len(<<>>)) = Covered(s, 0)
    BY <2>1, <2>2
  <2>4. MergeInv(s, 0, <<>>)
    BY <2>1, <2>3 DEF MergeInv
  <2> HIDE DEF n
  <2>5. QED
    BY <1>1, <2>1, <2>4
<1>3. ASSUME NEW k \in 0..(n - 1), k \in A
      PROVE  k + 1 \in A
  <2>1. k + 1 \in 1..n /\ k + 1 \in 0..n /\ (k + 1) - 1 = k
    BY <1>1
  <2>2. k > 0 => s[k].lo <= s[k + 1].lo
    BY <1>1, <2>1 DEF InOrder
  <2>3. MergeInv(s, k, Merged(s)[k])
    BY <1>3
  <2>4. MergeInv(s, k + 1, Widen(Merged(s)[k], s[k + 1]))
    BY <2>2, <2>3, WidenKeepsInv
  <2>5. Merged(s)[k + 1] = Widen(Merged(s)[k], s[k + 1])
    BY <2>1, MergedSteps
  <2> HIDE DEF n
  <2>6. QED
    BY <2>1, <2>4, <2>5
<1> HIDE DEF A
<1>4. \A k \in 0..n : k \in A
  <2> HIDE DEF n
  <2>1. QED
    BY <1>1, <1>2, <1>3, SetInduction
<1>5. QED
  BY <1>4 DEF A

\* Spans that lie apart count every year of the band once.
LEMMA ScoreCounts ==
  ASSUME NEW m \in Seq(Span), NEW band \in Span,
         \A j, k \in 1..Len(m) : j < k => m[j].hi < m[k].lo
  PROVE  Scores(m, band)[Len(m)] = Cardinality(Covered(m, Len(m)) \cap YearsOf(band))
<1> DEFINE n == Len(m)
           C(i) == Covered(m, i) \cap YearsOf(band)
           A == {i \in 0..n : IsFiniteSet(C(i)) /\ Scores(m, band)[i] = Cardinality(C(i))}
<1>1. n \in Nat /\ 0 \in 0..n /\ n \in 0..n
  OBVIOUS
<1>2. 0 \in A
  <2>1. C(0) = {}
    BY DEF Covered
  <2>2. Scores(m, band)[0] = 0
    BY ScoresSteps
  <2> HIDE DEF n, C
  <2>3. QED
    BY <1>1, <2>1, <2>2, FS_EmptySet
<1>3. ASSUME NEW i \in 0..(n - 1), i \in A
      PROVE  i + 1 \in A
  <2> DEFINE D == YearsOf(m[i + 1]) \cap YearsOf(band)
  <2>1. i \in Nat /\ i + 1 \in 1..n /\ i + 1 \in 0..n /\ (i + 1) - 1 = i
    BY <1>1
  <2>2. m[i + 1] \in Span
    BY <2>1
  <2>3. C(i + 1) = C(i) \cup D
    <3>1. \A j : j \in 1..(i + 1) <=> j \in 1..i \/ j = i + 1
      BY <2>1
    <3>2. YearsOf(m[i + 1]) \subseteq Int
      BY DEF YearsOf
    <3> HIDE DEF n
    <3>3. Covered(m, i + 1) = Covered(m, i) \cup YearsOf(m[i + 1])
      BY <3>1, <3>2 DEF Covered
    <3>4. QED
      BY <3>3
  <2>4. C(i) \cap D = {}
    <3> SUFFICES ASSUME NEW y \in Int, NEW j \in 1..i, y \in YearsOf(m[j]), y \in YearsOf(m[i + 1])
                 PROVE  FALSE
      BY DEF Covered
    <3>1. j \in 1..n /\ j < i + 1
      BY <2>1
    <3>2. m[j].hi < m[i + 1].lo /\ m[j] \in Span
      BY <2>1, <3>1
    <3>3. m[j].hi \in Int /\ m[i + 1].lo \in Int /\ m[j].lo \in Int /\ m[i + 1].hi \in Int
      BY <2>2, <3>2 DEF Span
    <3>4. y <= m[j].hi /\ m[i + 1].lo <= y
      BY <3>3 DEF YearsOf
    <3>5. QED
      BY <3>2, <3>3, <3>4
  <2>5. IsFiniteSet(D) /\ OverlapSize(m[i + 1], band) = Cardinality(D)
    BY <2>2, OverlapCounts
  <2>6. IsFiniteSet(C(i)) /\ Scores(m, band)[i] = Cardinality(C(i))
    BY <1>3
  <2>7. Scores(m, band)[i + 1] = Scores(m, band)[i] + OverlapSize(m[i + 1], band)
    BY <2>1, ScoresSteps
  <2> HIDE DEF n, C, D
  <2>8. /\ IsFiniteSet(C(i) \cup D)
        /\ Cardinality(C(i) \cup D) = Cardinality(C(i)) + Cardinality(D) - Cardinality(C(i) \cap D)
    BY <2>5, <2>6, FS_Union
  <2>9. Cardinality(C(i) \cap D) = 0
    BY <2>4, FS_EmptySet
  <2>10. Cardinality(C(i)) \in Nat /\ Cardinality(D) \in Nat
    BY <2>5, <2>6, FS_CardinalityType
  <2>11. IsFiniteSet(C(i + 1))
    BY <2>3, <2>8
  <2>12. Cardinality(C(i + 1)) = Cardinality(C(i)) + Cardinality(D)
    <3> DEFINE p == Cardinality(C(i))
               q == Cardinality(D)
    <3>1. Cardinality(C(i + 1)) = p + q - 0
      BY <2>3, <2>8, <2>9
    <3>2. p \in Nat /\ q \in Nat
      BY <2>10
    <3> HIDE DEF p, q
    <3>3. p + q - 0 = p + q
      BY <3>2
    <3>4. QED
      BY <3>1, <3>3 DEF p, q
  <2>13. Scores(m, band)[i + 1] = Cardinality(C(i + 1))
    BY <2>5, <2>6, <2>7, <2>12
  <2>14. QED
    BY <2>1, <2>11, <2>13
<1>4. n \in A
  <2> HIDE DEF n, A
  <2>1. \A i \in 0..n : i \in A
    BY <1>1, <1>2, <1>3, SetInduction
  <2>2. QED
    BY <1>1, <2>1
<1>5. QED
  BY <1>4

-----------------------------------------------------------------------------
(* The ranges can be sorted.                                               *)

\* One of the spans that start last.
LEMMA LatestSpan ==
  ASSUME NEW T \in SUBSET Span, IsFiniteSet(T), T # {}
  PROVE  \E e \in T : \A d \in T : d.lo <= e.lo
<1> DEFINE Later(x) == {d \in T : d.lo > x.lo}
           N == {Cardinality(Later(x)) : x \in T}
<1>1. ASSUME NEW x \in T
      PROVE  IsFiniteSet(Later(x)) /\ Cardinality(Later(x)) \in Nat
  BY FS_Subset, FS_CardinalityType
<1>2. N \in SUBSET Nat /\ N # {}
  BY <1>1
<1>3. PICK m \in N : \A k \in N : m <= k
  <2> HIDE DEF N
  <2>1. QED
    BY <1>2, LeastNat
<1>4. PICK e \in T : m = Cardinality(Later(e))
  BY <1>3
<1>5. ASSUME NEW d \in T, d.lo > e.lo
      PROVE  FALSE
  <2>1. d.lo \in Int /\ e.lo \in Int /\ \A x \in T : x.lo \in Int
    BY DEF Span
  <2>2. Later(d) \subseteq Later(e) /\ d \in Later(e) /\ d \notin Later(d)
    BY <1>5, <2>1
  <2>3. m <= Cardinality(Later(d))
    BY <1>3
  <2>4. IsFiniteSet(Later(e)) /\ IsFiniteSet(Later(d))
        /\ Cardinality(Later(e)) \in Nat /\ Cardinality(Later(d)) \in Nat
    BY <1>1
  <2> HIDE DEF Later, N
  <2>5. /\ Cardinality(Later(d)) <= Cardinality(Later(e))
        /\ Cardinality(Later(e)) = Cardinality(Later(d)) => Later(e) = Later(d)
    BY <2>2, <2>4, FS_Subset
  <2>6. Cardinality(Later(e)) = Cardinality(Later(d))
    BY <1>4, <2>3, <2>4, <2>5
  <2>7. QED
    BY <2>2, <2>5, <2>6
<1>6. ASSUME NEW d \in T
      PROVE  d.lo <= e.lo
  <2>1. d.lo \in Int /\ e.lo \in Int
    BY DEF Span
  <2>2. QED
    BY <1>5, <2>1
<1>7. QED
  BY <1>6

\* Finitely many spans can be sorted: a latest one goes behind the sorted others.
LEMMA SortExists ==
  ASSUME NEW S \in SUBSET Span, IsFiniteSet(S)
  PROVE  \E s \in SetToSeqs(S) : InOrder(s)
<1> DEFINE n == Cardinality(S)
           Sortable(T) == \E s \in SetToSeqs(T) : InOrder(s)
           A == {k \in 0..n : \A T \in SUBSET S : Cardinality(T) = k => Sortable(T)}
<1>1. n \in Nat /\ 0 \in 0..n /\ n \in 0..n
  BY FS_CardinalityType
<1>2. ASSUME NEW T \in SUBSET S
      PROVE  IsFiniteSet(T) /\ Cardinality(T) \in Nat
  BY FS_Subset, FS_CardinalityType
<1>3. 0 \in A
  <2>1. ASSUME NEW T \in SUBSET S, Cardinality(T) = 0
        PROVE  Sortable(T)
    <3>1. T = {}
      BY <1>2, <2>1, FS_EmptySet
    <3> DEFINE s == [i \in 1..0 |-> i]
    <3>2. 1..Cardinality(T) = {} /\ DOMAIN s = {} /\ 1..0 = {}
      BY <2>1
    <3>3. s \in SetToSeqs(T)
      BY <3>2 DEF SetToSeqs
    <3>4. InOrder(s)
      BY <3>2 DEF InOrder
    <3> HIDE DEF s
    <3>5. QED
      BY <3>3, <3>4
  <2> HIDE DEF Sortable
  <2>2. QED
    BY <1>1, <2>1
<1>4. ASSUME NEW k \in 0..(n - 1), k \in A
      PROVE  k + 1 \in A
  <2>1. ASSUME NEW T \in SUBSET S, Cardinality(T) = k + 1
        PROVE  Sortable(T)
    <3>1. k \in Nat /\ k + 1 # 0
      BY <1>1
    <3>2. IsFiniteSet(T) /\ T # {}
      BY <1>2, <2>1, <3>1, FS_EmptySet
    <3>3. PICK e \in T : \A d \in T : d.lo <= e.lo
      BY <3>2, LatestSpan
    <3> DEFINE U == T \ {e}
    <3>4. U \in SUBSET S /\ Cardinality(U) = k /\ e \notin U
      <4>1. Cardinality(U) = Cardinality(T) - 1
        BY <3>2, FS_RemoveElement
      <4>2. QED
        BY <2>1, <3>1, <4>1
    <3>5. PICK s \in SetToSeqs(U) : InOrder(s)
      BY <1>4, <3>4
    <3>6. /\ s \in [1..k -> U]
          /\ \A i, j \in 1..k : i # j => s[i] # s[j]
          /\ \A i, j \in 1..k : i < j => s[i].lo <= s[j].lo
      BY <3>4, <3>5 DEF SetToSeqs, InOrder
    <3> DEFINE t == [i \in 1..(k + 1) |-> IF i = k + 1 THEN e ELSE s[i]]
    <3>7. t[k + 1] = e /\ \A i \in 1..k : t[i] = s[i] /\ s[i] \in U
      BY <3>1, <3>6
    <3>8. \A i : i \in 1..(k + 1) <=> i \in 1..k \/ i = k + 1
      BY <3>1
    <3>9. t \in [1..(k + 1) -> T]
      BY <3>7, <3>8
    <3> HIDE DEF t
    <3>10. \A i, j \in 1..(k + 1) : i # j => t[i] # t[j]
      BY <3>4, <3>6, <3>7, <3>8
    <3>11. \A i, j \in 1..(k + 1) : i < j => t[i].lo <= t[j].lo
      <4> SUFFICES ASSUME NEW i \in 1..(k + 1), NEW j \in 1..(k + 1), i < j
                   PROVE  t[i].lo <= t[j].lo
        OBVIOUS
      <4>1. i \in 1..k
        BY <3>1
      <4>2. CASE j \in 1..k
        BY <3>6, <3>7, <4>1, <4>2
      <4>3. CASE j = k + 1
        BY <3>3, <3>7, <4>1, <4>3
      <4>4. QED
        BY <3>8, <4>2, <4>3
    <3>12. t \in SetToSeqs(T) /\ InOrder(t)
      <4>1. DOMAIN t = 1..(k + 1)
        BY <3>9
      <4>2. QED
        BY <2>1, <3>9, <3>10, <3>11, <4>1 DEF SetToSeqs, InOrder
    <3>13. QED
      BY <3>12
  <2>2. k + 1 \in 0..n
    BY <1>1
  <2> HIDE DEF Sortable, n
  <2>3. QED
    BY <2>1, <2>2
<1>5. n \in A
  <2> HIDE DEF n, A
  <2>1. \A k \in 0..n : k \in A
    BY <1>1, <1>3, <1>4, SetInduction
  <2>2. QED
    BY <1>1, <2>1
<1>6. QED
  BY <1>5

\* The sorted sequence has every range once.
LEMMA SortedRanges ==
  ASSUME NEW S \in SUBSET Span, IsFiniteSet(S)
  PROVE  /\ Sorted(S) \in Seq(Span) /\ Len(Sorted(S)) = Cardinality(S) /\ InOrder(Sorted(S))
         /\ {Sorted(S)[i] : i \in 1..Cardinality(S)} = S
<1> DEFINE n == Cardinality(S)
           s == Sorted(S)
<1>1. n \in Nat
  BY FS_CardinalityType
<1>2. Sorted(S) = CHOOSE t \in SetToSeqs(S) : InOrder(t)
  BY DEF Sorted, InOrder
<1>3. s \in SetToSeqs(S) /\ InOrder(s)
  BY <1>2, SortExists
<1>4. s \in [1..n -> S] /\ \A i, j \in 1..n : s[i] = s[j] => i = j
  BY <1>3 DEF SetToSeqs
<1> HIDE DEF n, s
<1>5. s \in Injection(1..n, S)
  BY <1>4 DEF Injection, IsInjective
<1>6. IsFiniteSet(1..n) /\ Cardinality(1..n) = n
  BY <1>1, FS_Interval
<1>7. s \in Surjection(1..n, S)
  BY <1>5, <1>6, FS_Injection DEF n
<1>8. \A x \in S : \E i \in 1..n : s[i] = x
  BY <1>7 DEF Surjection
<1>9. s \in Seq(Span) /\ Len(s) = n
  BY <1>1, <1>4
<1>10. QED
  BY <1>3, <1>4, <1>8, <1>9 DEF n, s

-----------------------------------------------------------------------------
(* The score of a band, and the band that is inferred.                     *)

\* The range of a row is a span, of the years the row admits.
LEMMA RangeType ==
  ASSUME NEW r \in AgeRow
  PROVE  YearRange(r) \in Span /\ Years(r) = YearsOf(YearRange(r))
<1>1. r.value \in Int /\ r.condition \in Condition
  BY DEF AgeRow
<1>2. r.value + 1 \in Int /\ Larger(0, r.value - 1) \in Int /\ AgeCap \in Int /\ 0 \in Int
  BY <1>1 DEF Larger, AgeCap
<1>3. YearRange(r) \in Span
  BY <1>1, <1>2 DEF YearRange, Span, Condition
<1>4. QED
  BY <1>3 DEF Years, YearsOf

\* Finitely many rows have finitely many ranges.
LEMMA FiniteRanges ==
  ASSUME NEW rows \in SUBSET AgeRow, IsFiniteSet(rows)
  PROVE  LET R == {YearRange(r) : r \in rows} IN R \in SUBSET Span /\ IsFiniteSet(R)
<1> DEFINE R == {YearRange(r) : r \in rows}
           f == [r \in rows |-> YearRange(r)]
<1>1. R \in SUBSET Span
  BY RangeType
<1>2. f \in Surjection(rows, R)
  BY DEF Surjection
<1> HIDE DEF f, R
<1>3. IsFiniteSet(R)
  BY <1>2, FS_Surjection
<1>4. QED
  BY <1>1, <1>3 DEF R

\* The score of a band is the number of its years that some row admits: merging
\* the ranges neither loses a year nor counts one twice, whatever the rows are,
\* empty ranges and ages beyond the cap included (mergeYearRanges, overlapSize and
\* inferCategoryGroupSlugFromAgeRows).
THEOREM ScoreExact ==
  ASSUME NEW rows \in SUBSET AgeRow, IsFiniteSet(rows), NEW band \in Span
  PROVE  Score(rows, band) =
           Cardinality((UNION {Years(r) : r \in rows}) \cap (band.lo .. band.hi))
<1> DEFINE R == {YearRange(r) : r \in rows}
           s == Sorted(R)
           n == Cardinality(R)
           m == Merged(s)[n]
<1>1. R \in SUBSET Span /\ IsFiniteSet(R)
  BY FiniteRanges
<1>2. n \in Nat
  <2> HIDE DEF R
  <2>1. QED
    BY <1>1, FS_CardinalityType
<1>3. /\ s \in Seq(Span) /\ Len(s) = n /\ InOrder(s)
      /\ {s[i] : i \in 1..n} = R
  <2> HIDE DEF R
  <2>1. QED
    BY <1>1, SortedRanges
<1>4. MergeInv(s, n, m)
  <2>1. n \in 0..Len(s)
    BY <1>2, <1>3
  <2> HIDE DEF s, n
  <2>2. QED
    BY <1>3, <2>1, MergeKeepsYears
<1>5. Score(rows, band) = Scores(m, band)[Len(m)]
  BY DEF Score, MergeYearRanges
<1> HIDE DEF m
<1>6. Score(rows, band) = Cardinality(Covered(m, Len(m)) \cap YearsOf(band))
  BY <1>4, <1>5, ScoreCounts DEF MergeInv
<1>7. Covered(m, Len(m)) = Covered(s, n)
  BY <1>4 DEF MergeInv
<1>8. Covered(s, n) = UNION {Years(r) : r \in rows}
  <2>1. ASSUME NEW y
        PROVE  y \in Covered(s, n) <=> \E x \in R : y \in YearsOf(x)
    <3> HIDE DEF R, s, n
    <3>1. y \in Covered(s, n) <=> \E i \in 1..n : y \in YearsOf(s[i])
      BY DEF Covered, YearsOf
    <3>2. QED
      BY <1>3, <3>1
  <2>2. ASSUME NEW y
        PROVE  (\E x \in R : y \in YearsOf(x)) <=> \E r \in rows : y \in Years(r)
    BY RangeType
  <2> HIDE DEF R, s, n
  <2>3. QED
    BY <2>1, <2>2
<1>9. QED
  BY <1>6, <1>7, <1>8 DEF YearsOf

\* The inferred band is the first of those that share most years with the rows, or
\* none when no band shares a year (inferCategoryGroupSlugFromAgeRows).
THEOREM InferBandExact ==
  ASSUME NEW rows \in SUBSET AgeRow, IsFiniteSet(rows)
  PROVE  /\ InferBand(rows) \in 0..3
         /\ InferBand(rows) = 0 <=> \A c \in 1..3 : YearsInBand(rows, c) = 0
         /\ InferBand(rows) # 0 => \A c \in 1..3 :
              /\ YearsInBand(rows, c) <= YearsInBand(rows, InferBand(rows))
              /\ c < InferBand(rows) => YearsInBand(rows, c) < YearsInBand(rows, InferBand(rows))
         /\ \A c \in 1..3 : YearsInBand(rows, c) \in Nat
<1> DEFINE score == [b \in DOMAIN Bands |-> Score(rows, Bands[b])]
           y(c) == YearsInBand(rows, c)
           Best == [band : 0..3, score : Nat]
           none == [band |-> 0, score |-> 0]
           Solves(g) == g = [b \in 0..Len(Bands) |->
             IF b = 0 THEN [band |-> 0, score |-> 0]
             ELSE IF score[b] > g[b - 1].score THEN [band |-> b, score |-> score[b]] ELSE g[b - 1]]
           G == [p \in (1..3) \X Best |->
                   IF score[p[1]] > p[2].score THEN [band |-> p[1], score |-> score[p[1]]] ELSE p[2]]
<1>1. Len(Bands) = 3 /\ DOMAIN Bands = 1..3 /\ \A c \in 1..3 : Bands[c] \in Span
  BY DEF Bands, Span, AgeCap
<1>2. ASSUME NEW c \in 1..3
      PROVE  score[c] = y(c) /\ y(c) \in Nat
  <2> DEFINE D == (UNION {Years(r) : r \in rows}) \cap (Bands[c].lo .. Bands[c].hi)
  <2>1. score[c] = Score(rows, Bands[c])
    BY <1>1
  <2>2. Bands[c] \in Span /\ Bands[c].lo \in Int /\ Bands[c].hi \in Int
    BY <1>1 DEF Span
  <2>3. Score(rows, Bands[c]) = Cardinality(D)
    BY <2>2, ScoreExact
  <2>4. IsFiniteSet(Bands[c].lo .. Bands[c].hi)
    <3> DEFINE lo == Bands[c].lo
               hi == Bands[c].hi
    <3>1. lo \in Int /\ hi \in Int
      BY <2>2
    <3> HIDE DEF lo, hi
    <3>2. IsFiniteSet(lo..hi)
      BY <3>1, FS_Interval
    <3>3. QED
      BY <3>2 DEF lo, hi
  <2>5. IsFiniteSet(D)
    BY <2>4, FS_Intersection
  <2>6. y(c) = Cardinality(D)
    BY DEF YearsInBand
  <2> HIDE DEF D, y, score
  <2>7. QED
    BY <2>1, <2>3, <2>5, <2>6, FS_CardinalityType
<1> HIDE DEF score, y
<1>3. G \in [(1..3) \X Best -> Best] /\ none \in Best
  <2>1. ASSUME NEW p \in (1..3) \X Best
        PROVE  (IF score[p[1]] > p[2].score THEN [band |-> p[1], score |-> score[p[1]]]
                ELSE p[2]) \in Best
    BY <1>2
  <2>2. QED
    BY <2>1
<1>4. PICK g \in [0..3 -> Best] : g[0] = none /\ \A i \in 1..3 : g[i] = G[<<i, g[i - 1]>>]
  <2> HIDE DEF G, Best, none, Solves
  <2>1. IsStep(Best, 3, none, G)
    BY <1>3 DEF IsStep
  <2>2. HasSolution(Best, 3, none, G)
    BY <2>1, Recursion, Zenon
  <2>3. QED
    BY <2>2 DEF HasSolution
<1>5. ASSUME NEW i \in 1..3
      PROVE  g[i] = IF score[i] > g[i - 1].score THEN [band |-> i, score |-> score[i]] ELSE g[i - 1]
  <2>1. i - 1 \in 0..3
    OBVIOUS
  <2> HIDE DEF Best
  <2>2. <<i, g[i - 1]>> \in (1..3) \X Best
    BY <2>1
  <2>3. QED
    BY <1>4, <2>2
<1>6. Solves(g)
  <2> HIDE DEF Best, G
  <2>1. ASSUME NEW b \in 0..3
        PROVE  g[b] = IF b = 0 THEN [band |-> 0, score |-> 0]
                      ELSE IF score[b] > g[b - 1].score THEN [band |-> b, score |-> score[b]]
                      ELSE g[b - 1]
    BY <1>4, <1>5
  <2>2. QED
    BY <1>1, <2>1
<1>7. InferBand(rows) = (CHOOSE h : Solves(h))[Len(Bands)].band
  BY DEF InferBand, score
<1> DEFINE h == CHOOSE f : Solves(f)
<1>8. Solves(h)
  <2> HIDE DEF Solves
  <2>1. QED
    BY <1>6
<1>9. /\ h[0] = none
      /\ \A i \in 1..3 : h[i] = IF score[i] > h[i - 1].score THEN [band |-> i, score |-> score[i]]
                              ELSE h[i - 1]
  <2>1. h = [b \in 0..3 |->
               IF b = 0 THEN [band |-> 0, score |-> 0]
               ELSE IF score[b] > h[b - 1].score THEN [band |-> b, score |-> score[b]]
               ELSE h[b - 1]]
    BY <1>1, <1>8
  <2> HIDE DEF h
  <2>2. QED
    BY <2>1
<1>10. InferBand(rows) = h[3].band
  BY <1>1, <1>7
<1> HIDE DEF h, Solves, G, Best
<1>11. /\ h[1] = IF y(1) > 0 THEN [band |-> 1, score |-> y(1)] ELSE [band |-> 0, score |-> 0]
       /\ h[2] = IF y(2) > h[1].score THEN [band |-> 2, score |-> y(2)] ELSE h[1]
       /\ h[3] = IF y(3) > h[2].score THEN [band |-> 3, score |-> y(3)] ELSE h[2]
  BY <1>2, <1>9
<1>12. y(1) \in Nat /\ y(2) \in Nat /\ y(3) \in Nat
  BY <1>2
<1>13. LET b == h[3].band
       IN  /\ b \in 0..3
           /\ b = 0 <=> y(1) = 0 /\ y(2) = 0 /\ y(3) = 0
           /\ b # 0 => /\ y(1) <= y(b) /\ y(2) <= y(b) /\ y(3) <= y(b)
                       /\ 1 < b => y(1) < y(b)
                       /\ 2 < b => y(2) < y(b)
  BY <1>11, <1>12
<1>14. \A c : c \in 1..3 <=> c = 1 \/ c = 2 \/ c = 3
  OBVIOUS
<1>15. QED
  BY <1>10, <1>12, <1>13, <1>14 DEF y

-----------------------------------------------------------------------------
(* The lists of Feeds.  Days, and the scopes of an event.                  *)

LEMMA DayStep ==
  ASSUME NEW t \in Nat
  PROVE  /\ StartOfDay(t) \in Int /\ StartOfDay(t) <= StartOfDay(t + 1)
         /\ EndOfDay(t) \in Int /\ EndOfDay(t) <= EndOfDay(t + 1)
         /\ StartOfDay(t) <= EndOfDay(t)
<1>1. DayLength \in Nat /\ DayLength > 0
  BY FeedsAssumption
<1>2. ASSUME NEW u \in Nat
      PROVE  u % DayLength \in 0..(DayLength - 1) /\ u \div DayLength \in Nat
             /\ u = DayLength * (u \div DayLength) + (u % DayLength)
  BY <1>1, SMT
<1>3. PICK q \in Nat, r \in 0..(DayLength - 1) :
        t = DayLength * q + r /\ r = t % DayLength
  BY <1>2
<1>4. PICK p \in Nat, s \in 0..(DayLength - 1) :
        t + 1 = DayLength * p + s /\ s = (t + 1) % DayLength
  BY <1>2
<1>5. s <= r + 1
  <2> SUFFICES ASSUME s > r + 1
               PROVE  FALSE
    BY <1>1
  <2>1. p < q
    <3> SUFFICES ASSUME p >= q
                 PROVE  FALSE
      OBVIOUS
    <3>1. DayLength * p >= DayLength * q
      BY <1>1, SMT
    <3>2. DayLength * p \in Nat /\ DayLength * q \in Nat
      BY <1>1, SMT
    <3> QED
      BY <1>1, <1>3, <1>4, <3>1, <3>2
  <2>2. DayLength * (p + 1) <= DayLength * q
    BY <1>1, <2>1, SMT
  <2>3. DayLength * (p + 1) = DayLength * p + DayLength
    BY <1>1, SMT
  <2>4. DayLength * p \in Nat /\ DayLength * q \in Nat
    BY <1>1, SMT
  <2> QED
    BY <1>1, <1>3, <1>4, <2>2, <2>3, <2>4
<1> QED
  BY <1>1, <1>3, <1>4, <1>5 DEF StartOfDay, EndOfDay

\* The one list by scope that a schedule is in.
LEMMA OneScope ==
  ASSUME NEW x, x.kind.schedule # Nothing,
         x.kind.schedule \in [registration : Int, deadline : Int],
         NEW t \in Nat
  PROVE  ScopesOf(x, t) =
           IF x.kind.schedule.deadline < StartOfDay(t) THEN {"history"}
           ELSE IF x.kind.schedule.registration <= EndOfDay(t) THEN {"today"} ELSE {"upcoming"}
<1> DEFINE s == x.kind.schedule
<1>1. StartOfDay(t) \in Int /\ EndOfDay(t) \in Int /\ StartOfDay(t) <= EndOfDay(t)
  BY DayStep
<1>2. s.registration \in Int /\ s.deadline \in Int
  OBVIOUS
<1>3. /\ InScope("today", x, t) <=>
           s.deadline >= StartOfDay(t) /\ s.registration <= EndOfDay(t)
      /\ InScope("upcoming", x, t) <=>
           s.registration > EndOfDay(t) /\ s.deadline >= StartOfDay(t)
      /\ InScope("history", x, t) <=> s.deadline < StartOfDay(t)
  BY DEF InScope, ScopeWhere
<1> HIDE DEF s
<1> QED
  BY <1>1, <1>2, <1>3 DEF ScopesOf, Scope, s


-----------------------------------------------------------------------------
(* Types and what the events keep.                                         *)

\* Rows es are those of the events, without two published at the same time.
Rows(es) ==
  /\ es \in [Event -> Row \cup {Nothing}]
  /\ \A d, e \in Event : es[d] # Nothing /\ es[e] # Nothing /\ es[d].created = es[e].created => d = e

\* Every event of es is one of fs, published at the same time, with the same tag.
Kept(es, fs) ==
  \A e \in Event : es[e] # Nothing => /\ fs[e] # Nothing /\ fs[e].created = es[e].created
                                      /\ fs[e].kind.tag = es[e].kind.tag

Extant(es) == {e \in Event : es[e] # Nothing}

FeedsData ==
  /\ clock \in 0..MaxTime /\ Rows(events)
  /\ \A e \in Extant(events) : events[e].created <= Cardinality(Extant(events))

LEMMA FiniteLists ==
  ASSUME NEW S \in SUBSET Event
  PROVE  IsFiniteSet(S) /\ Cardinality(S) \in Nat /\ Cardinality(S) <= Cardinality(Event)
BY FeedsAssumption, FS_Subset, FS_CardinalityType

\* A change of the row of an event that is there.
LEMMA RowChanged ==
  ASSUME FeedsData, NEW e \in Event, NEW x \in Row, events[e] # Nothing,
         x.created = events[e].created, x.kind.tag = events[e].kind.tag,
         events' = [events EXCEPT ![e] = x], clock' = clock
  PROVE  FeedsData' /\ Kept(events, events')
<1>1. x # Nothing
  BY FeedsAssumption
<1>2. \A d \in Event : events'[d] = IF d = e THEN x ELSE events[d]
  BY DEF FeedsData, Rows
<1>3. Extant(events') = Extant(events)
  BY <1>1, <1>2 DEF Extant
<1>4. events' \in [Event -> Row \cup {Nothing}]
  BY DEF FeedsData, Rows
<1>5. \A d \in Event : events[d] # Nothing =>
        events'[d].created = events[d].created /\ events'[d].kind.tag = events[d].kind.tag
  BY <1>2
<1>6. \A d \in Event : events'[d] # Nothing <=> events[d] # Nothing
  BY <1>1, <1>2
<1>7. Rows(events')
  BY <1>4, <1>5, <1>6 DEF Rows, FeedsData
<1>8. \A d \in Extant(events') : events'[d].created <= Cardinality(Extant(events'))
  BY <1>3, <1>5 DEF Extant, FeedsData
<1> QED
  BY <1>5, <1>6, <1>7, <1>8 DEF FeedsData, Kept

LEMMA RowPublished ==
  ASSUME FeedsData, NEW e \in Event, NEW k \in Kind, Publish(e, k)
  PROVE  FeedsData' /\ Kept(events, events')
<1> DEFINE n == Cardinality(Extant(events))
           x == [kind |-> k, created |-> n + 1, status |-> "published"]
<1>1. n \in Nat /\ IsFiniteSet(Extant(events))
  BY FiniteLists DEF Extant
<1>2. x \in Row /\ x # Nothing
  BY <1>1, FeedsAssumption DEF Row
<1>3. events[e] = Nothing /\ events' = [events EXCEPT ![e] = x] /\ clock' = clock
  BY DEF Publish, Extant
<1>4. \A d \in Event : events'[d] = IF d = e THEN x ELSE events[d]
  BY <1>3 DEF FeedsData, Rows
<1>5. x.created = n + 1
  OBVIOUS
<1>6. events' \in [Event -> Row \cup {Nothing}]
  BY <1>2, <1>3 DEF FeedsData, Rows
<1>7. Extant(events') = Extant(events) \cup {e} /\ e \notin Extant(events)
  BY <1>2, <1>3, <1>4 DEF Extant
<1>8. Cardinality(Extant(events')) = n + 1
  BY <1>1, <1>7, FS_AddElement
<1>9. \A d \in Extant(events) : events[d].created \in Nat /\ events[d].created <= n
  BY DEF FeedsData, Rows, Row, Extant
<1> HIDE DEF x, n
<1>10. \A d \in Extant(events') : events'[d].created <= n + 1
  BY <1>1, <1>4, <1>5, <1>7, <1>9 DEF Extant
<1>11. \A d \in Extant(events) : events'[d] = events[d] /\ d # e
  BY <1>4, <1>7 DEF Extant
<1>12. \A c, d \in Extant(events') : events'[c].created = events'[d].created => c = d
  <2> TAKE c, d \in Extant(events')
  <2> HAVE events'[c].created = events'[d].created
  <2>1. CASE c \in Extant(events) /\ d \in Extant(events)
    BY <2>1, <1>11 DEF FeedsData, Rows, Extant
  <2>2. \A b \in Extant(events) : events'[b].created # events'[e].created
    <3>1. events'[e].created = n + 1
      BY <1>4, <1>5
    <3>2. \A b \in Extant(events) : events'[b].created \in Nat /\ events'[b].created <= n
      BY <1>9, <1>11
    <3> QED
      BY <1>1, <3>1, <3>2
  <2> QED
    BY <2>1, <2>2, <1>7
<1>13. Rows(events')
  BY <1>6, <1>12 DEF Rows, Extant
<1>14. \A d \in Event : events[d] # Nothing => events'[d] = events[d]
  BY <1>4, <1>3
<1> QED
  BY <1>3, <1>8, <1>10, <1>13, <1>14 DEF FeedsData, Kept

-----------------------------------------------------------------------------
(* The order of a list.                                                    *)

LEMMA PlaceType ==
  ASSUME NEW es, Rows(es), NEW S \in SUBSET Extant(es), NEW e \in S
  PROVE  Place(S, es, e) \in Nat /\ Place(S, es, e) < Cardinality(S)
<1> DEFINE A == {d \in S : es[d].created > es[e].created}
<1>1. IsFiniteSet(S) /\ Cardinality(S) \in Nat
  BY FiniteLists DEF Extant
<1>2. es[e].created \in Nat
  BY DEF Rows, Row, Extant
<1>3. A \subseteq S \ {e}
  BY <1>2
<1>4. IsFiniteSet(S \ {e}) /\ Cardinality(S \ {e}) = Cardinality(S) - 1
  BY <1>1, FS_RemoveElement
<1>5. Cardinality(A) <= Cardinality(S \ {e}) /\ Cardinality(A) \in Nat
  BY <1>3, <1>4, FS_Subset, FS_CardinalityType
<1> QED
  BY <1>1, <1>4, <1>5 DEF Place

LEMMA PlaceLess ==
  ASSUME NEW es, Rows(es), NEW S \in SUBSET Extant(es), NEW d \in S, NEW e \in S,
         es[d].created > es[e].created
  PROVE  Place(S, es, d) < Place(S, es, e)
<1> DEFINE A == {c \in S : es[c].created > es[d].created}
           B == {c \in S : es[c].created > es[e].created}
<1>1. IsFiniteSet(B) /\ IsFiniteSet(A)
  BY FiniteLists DEF Extant
<1>2. \A c \in S : es[c].created \in Nat
  BY DEF Rows, Row, Extant
<1>3. A \subseteq B /\ d \in B /\ d \notin A
  BY <1>2
<1>4. Cardinality(A) <= Cardinality(B) /\ Cardinality(A) # Cardinality(B)
  BY <1>1, <1>3, FS_Subset
<1>5. Cardinality(A) \in Nat /\ Cardinality(B) \in Nat
  BY <1>1, FS_CardinalityType
<1> QED
  BY <1>4, <1>5 DEF Place

\* Every place of a list is taken.
LEMMA PlaceTaken ==
  ASSUME NEW es, Rows(es), NEW S \in SUBSET Extant(es), NEW k \in Nat, k < Cardinality(S)
  PROVE  \E e \in S : Place(S, es, e) = k
<1> SUFFICES ASSUME \A e \in S : Place(S, es, e) # k
             PROVE  FALSE
  OBVIOUS
<1> DEFINE n == Cardinality(S)
           T == (0..(n - 1)) \ {k}
           f == [e \in S |-> Place(S, es, e)]
<1>1. IsFiniteSet(S) /\ n \in Nat /\ k < n
  BY FiniteLists DEF Extant
<1>2. \A e \in S : Place(S, es, e) \in T
  BY <1>1, PlaceType
<1>3. IsFiniteSet(T) /\ Cardinality(T) = n - 1
  <2> HIDE DEF n
  <2>1. IsFiniteSet(0..(n - 1)) /\ Cardinality(0..(n - 1)) = n
    <3>1. 0 \in Int /\ n - 1 \in Int
      BY <1>1
    <3>2. IsFiniteSet(0..(n - 1))
          /\ Cardinality(0..(n - 1)) = IF 0 > n - 1 THEN 0 ELSE (n - 1) - 0 + 1
      BY <3>1, FS_Interval
    <3> QED
      BY <1>1, <3>2
  <2>2. k \in 0..(n - 1)
    BY <1>1
  <2> QED
    BY <2>1, <2>2, FS_RemoveElement
<1>5. f \in [S -> T]
  BY <1>2
<1>6. PICK d \in S, e \in S : d # e /\ f[d] = f[e]
  <2> HIDE DEF f, T
  <2>1. Cardinality(T) < Cardinality(S)
    BY <1>1, <1>3
  <2> QED
    BY <1>1, <1>3, <1>5, <2>1, FS_PigeonHole
<1>7. Place(S, es, d) = Place(S, es, e)
  BY <1>6
<1>8. es[d].created \in Nat /\ es[e].created \in Nat /\ es[d].created # es[e].created
  BY <1>6 DEF Rows, Row, Extant
<1>9. Place(S, es, d) < Place(S, es, e) \/ Place(S, es, e) < Place(S, es, d)
  BY <1>8, PlaceLess
<1> QED
  BY <1>7, <1>9, PlaceType

\* In a list that grows nothing gets a smaller place.
LEMMA PlaceGrows ==
  ASSUME NEW es, NEW fs, Rows(es), Rows(fs), Kept(es, fs),
         NEW S \in SUBSET Extant(es), NEW T \in SUBSET Extant(fs), S \subseteq T, NEW e \in S
  PROVE  Place(S, es, e) <= Place(T, fs, e)
<1> DEFINE A == {d \in S : es[d].created > es[e].created}
           B == {d \in T : fs[d].created > fs[e].created}
<1>1. \A d \in S : fs[d].created = es[d].created
  BY DEF Kept, Extant
<1>2. A \subseteq B
  BY <1>1
<1>3. IsFiniteSet(B) /\ IsFiniteSet(A)
  BY FiniteLists DEF Extant
<1> QED
  BY <1>2, <1>3, FS_Subset DEF Place

LEMMA PageKept ==
  ASSUME NEW es, NEW fs, Rows(es), Rows(fs), Kept(es, fs), NEW S \in SUBSET Extant(es),
         NEW page
  PROVE  PageOf(S, fs, page) = PageOf(S, es, page)
<1>1. ASSUME NEW e \in S
      PROVE  Place(S, fs, e) = Place(S, es, e)
  <2>1. \A d \in S : fs[d].created = es[d].created
    BY DEF Kept, Extant
  <2>2. {d \in S : es[d].created > es[e].created} = {d \in S : fs[d].created > fs[e].created}
    BY <2>1
  <2> QED
    BY <2>2 DEF Place
<1> QED
  BY <1>1 DEF PageOf

-----------------------------------------------------------------------------
(* The reader.                                                             *)

\* What the queries of the page of r select.
Chosen(r, es, t) == IF r.fallback THEN FeedList(r.query, es, t) ELSE Listed(r.query, es, t)

\* A reader to be shown something more has it in its list, on its page or after
\* it, and what it has read is still so.
ReaderOK(r, es, t) ==
  r.missing # {} =>
    /\ r.missing \subseteq Shown(r.query, es, t)
    /\ \A e \in r.missing : Skip(r.page) <= Place(Shown(r.query, es, t), es, e)
    /\ r.fallback => r.query.list = "personal" /\ PersonalList(r.query, es, t) = {}
    /\ "data" \in r.got => r.data = PageOf(Chosen(r, es, t), es, r.page)
    /\ "count" \in r.got => r.total = Cardinality(Chosen(r, es, t))

FeedsInv == FeedsData /\ reader \in Reader \cup {Nothing}
              /\ (reader # Nothing => ReaderOK(reader, events, clock))

LEMMA ListsExtant ==
  ASSUME NEW q \in Query, NEW es, NEW t
  PROVE  /\ FeedList(q, es, t) \subseteq Extant(es)
         /\ PersonalList(q, es, t) \subseteq FeedList(q, es, t)
         /\ Listed(q, es, t) \subseteq Extant(es)
         /\ Shown(q, es, t) \subseteq Extant(es)
         /\ q.list = "personal" => Listed(q, es, t) = PersonalList(q, es, t)
<1>1. FeedList(q, es, t) \subseteq Extant(es) /\ SearchList(q, es) \subseteq Extant(es)
  BY DEF FeedList, SearchList, Published, Extant
<1>2. PersonalList(q, es, t) \subseteq FeedList(q, es, t)
  BY DEF PersonalList
<1>3. RelationList(q, es) \subseteq SearchList(q, es)
  BY DEF RelationList
<1>4. PlainList(q, es, t) \subseteq Extant(es)
  BY DEF PlainList, Extant
<1>5. q.list \in {"feed", "personal", "search", "relation", "list", "admin"}
  BY FeedsAssumption DEF Lists
<1>6. Listed(q, es, t) \in {FeedList(q, es, t), PersonalList(q, es, t), SearchList(q, es),
                            RelationList(q, es), PlainList(q, es, t)}
  BY <1>5 DEF Listed
<1>7. q.list = "personal" => Listed(q, es, t) = PersonalList(q, es, t)
  BY DEF Listed
<1>8. Listed(q, es, t) \subseteq Extant(es)
  BY <1>1, <1>2, <1>3, <1>4, <1>6
<1>9. Shown(q, es, t) \subseteq Extant(es)
  BY <1>1, <1>8 DEF Shown
<1> QED
  BY <1>1, <1>2, <1>7, <1>8, <1>9

\* The queries select the list, or nothing where a personal list is empty and
\* its reader has not fallen back yet.
LEMMA ChosenIs ==
  ASSUME NEW r \in Reader, NEW es, NEW t,
         r.fallback => r.query.list = "personal" /\ PersonalList(r.query, es, t) = {}
  PROVE  IF r.query.list = "personal" /\ ~r.fallback /\ PersonalList(r.query, es, t) = {}
         THEN Chosen(r, es, t) = {} ELSE Chosen(r, es, t) = Shown(r.query, es, t)
<1>1. r.query \in Query
  BY DEF Reader
<1>2. r.query.list = "personal" => Listed(r.query, es, t) = PersonalList(r.query, es, t)
  BY <1>1, ListsExtant
<1> QED
  BY <1>2 DEF Chosen, Shown

\* A personal list with something in it does not become or stop being empty.
LEMMA PersonalStays ==
  ASSUME NEW q \in Query, q.list = "personal", NEW es, NEW fs, NEW t, NEW u, Kept(es, fs),
         Shown(q, es, t) # {}, Shown(q, es, t) \subseteq Shown(q, fs, u)
  PROVE  PersonalList(q, es, t) = {} <=> PersonalList(q, fs, u) = {}
<1>1. PICK e : e \in Shown(q, es, t) /\ e \in Shown(q, fs, u)
  OBVIOUS
<1>2. e \in Event /\ es[e] # Nothing
  BY <1>1, ListsExtant DEF Extant
<1>3. fs[e].kind.tag = es[e].kind.tag
  BY <1>2 DEF Kept
<1>4. /\ Listed(q, es, t) = PersonalList(q, es, t)
      /\ Listed(q, fs, u) = PersonalList(q, fs, u)
  BY ListsExtant
<1>5. e \in FeedList(q, es, t) /\ e \in FeedList(q, fs, u)
  BY <1>1, <1>4, ListsExtant DEF Shown
<1>6. PersonalList(q, es, t) = {} <=> e \notin PersonalList(q, es, t)
  BY <1>1, <1>4 DEF Shown
<1>7. PersonalList(q, fs, u) = {} <=> e \notin PersonalList(q, fs, u)
  BY <1>1, <1>4 DEF Shown
<1> QED
  BY <1>3, <1>5, <1>6, <1>7 DEF PersonalList

\* A reader stays all right while its list only grows.
LEMMA ReaderStays ==
  ASSUME NEW r \in Reader, NEW es, NEW fs, NEW t, NEW u, Rows(es), Rows(fs), Kept(es, fs),
         ReaderOK(r, es, t),
         Shown(r.query, es, t) \subseteq Shown(r.query, fs, u),
         r.got # {} => Shown(r.query, fs, u) = Shown(r.query, es, t)
  PROVE  ReaderOK(r, fs, u)
<1> SUFFICES ASSUME r.missing # {}
             PROVE  ReaderOK(r, fs, u)
  BY DEF ReaderOK
<1> DEFINE q == r.query
           S == Shown(q, es, t)
           T == Shown(q, fs, u)
<1>1. q \in Query /\ r.page \in Nat \ {0}
  BY DEF Reader
<1>2. /\ r.missing \subseteq S
      /\ \A e \in r.missing : Skip(r.page) <= Place(S, es, e)
      /\ r.fallback => q.list = "personal" /\ PersonalList(q, es, t) = {}
      /\ "data" \in r.got => r.data = PageOf(Chosen(r, es, t), es, r.page)
      /\ "count" \in r.got => r.total = Cardinality(Chosen(r, es, t))
  BY DEF ReaderOK
<1>3. S \subseteq Extant(es) /\ T \subseteq Extant(fs)
  BY <1>1, ListsExtant
<1>4. S # {} /\ S \subseteq T
  BY <1>2
<1>5. Skip(r.page) \in Int
  BY <1>1, FeedsAssumption DEF Skip
<1>6. q.list = "personal" => (PersonalList(q, es, t) = {} <=> PersonalList(q, fs, u) = {})
  BY <1>1, <1>4, PersonalStays
<1>7. ASSUME NEW e \in r.missing
      PROVE  Skip(r.page) <= Place(T, fs, e)
  <2>1. e \in S /\ e \in T
    BY <1>2, <1>4
  <2>2. Place(S, es, e) \in Nat /\ Place(T, fs, e) \in Nat
    BY <2>1, <1>3, PlaceType
  <2>3. Place(S, es, e) <= Place(T, fs, e)
    BY <2>1, <1>3, <1>4, PlaceGrows
  <2> QED
    BY <1>2, <1>5, <2>2, <2>3
<1>8. r.got # {} => Chosen(r, fs, u) = Chosen(r, es, t)
  BY <1>2, <1>6, ChosenIs
<1>9. Chosen(r, es, t) \subseteq Extant(es)
  BY <1>1, ListsExtant DEF Chosen
<1>10. PageOf(Chosen(r, es, t), fs, r.page) = PageOf(Chosen(r, es, t), es, r.page)
  BY <1>9, PageKept
<1> QED
  BY <1>2, <1>4, <1>6, <1>7, <1>8, <1>10 DEF ReaderOK

LEMMA CeilingBound ==
  ASSUME NEW n \in Nat, NEW m \in Nat \ {0}, NEW p \in Nat, p >= (n + m - 1) \div m
  PROVE  n <= p * m
<1>1. n + m - 1 \in Nat
  OBVIOUS
<1>2. PICK q \in Nat, r \in 0..(m - 1) : n + m - 1 = m * q + r /\ q = (n + m - 1) \div m
  <2>1. /\ (n + m - 1) \div m \in Nat /\ (n + m - 1) % m \in 0..(m - 1)
        /\ n + m - 1 = m * ((n + m - 1) \div m) + ((n + m - 1) % m)
    BY <1>1, SMT
  <2> QED
    BY <2>1
<1>3. m * q <= m * p /\ m * p = p * m /\ m * q \in Nat /\ p * m \in Nat
  BY <1>2, SMT
<1> QED
  BY <1>2, <1>3

\* The answer to a page: it falls back because its list is empty, or it is the
\* list's page and what is missing still comes later.
LEMMA AnswerIs ==
  ASSUME NEW r \in Reader, NEW es, NEW t, Rows(es), ReaderOK(r, es, t), r.missing # {},
         r.got = {"data", "count"}
  PROVE  /\ r.query.list = "personal" /\ ~r.fallback /\ r.data = {} =>
              PersonalList(r.query, es, t) = {}
         /\ ~(r.query.list = "personal" /\ ~r.fallback /\ r.data = {}) =>
              /\ ~HasNext(r.page, r.total) => r.missing \subseteq r.data
              /\ \A e \in r.missing \ r.data :
                   Skip(r.page + 1) <= Place(Shown(r.query, es, t), es, e)
<1> DEFINE S == Shown(r.query, es, t)
           k == Skip(r.page)
<1>1. r.query \in Query /\ r.page \in Nat \ {0} /\ PageSize \in Nat \ {0}
  BY FeedsAssumption DEF Reader
<1>2. /\ r.missing \subseteq S
      /\ \A e \in r.missing : k <= Place(S, es, e)
      /\ r.fallback => r.query.list = "personal" /\ PersonalList(r.query, es, t) = {}
      /\ r.data = PageOf(Chosen(r, es, t), es, r.page)
      /\ r.total = Cardinality(Chosen(r, es, t))
  BY DEF ReaderOK
<1>3. S \subseteq Extant(es)
  BY <1>1, ListsExtant
<1>4. k \in Nat /\ Skip(r.page + 1) = k + PageSize /\ k + PageSize = r.page * PageSize
  BY <1>1 DEF Skip
<1>5. \A e \in r.missing : Place(S, es, e) \in Nat /\ Place(S, es, e) < Cardinality(S)
  BY <1>2, <1>3, PlaceType
<1>6. Cardinality(S) \in Nat
  BY <1>3, FiniteLists DEF Extant
<1>7. CASE r.query.list = "personal" /\ ~r.fallback /\ PersonalList(r.query, es, t) = {}
  <2>1. Chosen(r, es, t) = {}
    BY <1>2, <1>7, ChosenIs
  <2> QED
    BY <1>2, <1>7, <2>1 DEF PageOf
<1>8. CASE ~(r.query.list = "personal" /\ ~r.fallback /\ PersonalList(r.query, es, t) = {})
  <2>1. Chosen(r, es, t) = S
    BY <1>2, <1>8, ChosenIs
  <2>2. r.data = {e \in S : k <= Place(S, es, e) /\ Place(S, es, e) < k + PageSize}
    BY <1>2, <2>1 DEF PageOf
  <2>3. r.data # {}
    <3>1. k < Cardinality(S)
      BY <1>2, <1>4, <1>5, <1>6
    <3>2. PICK e \in S : Place(S, es, e) = k
      BY <1>3, <1>4, <3>1, PlaceTaken
    <3> QED
      BY <1>1, <1>4, <2>2, <3>2
  <2>4. \A e \in r.missing \ r.data : k + PageSize <= Place(S, es, e)
    BY <1>1, <1>2, <1>4, <1>5, <2>2
  <2>5. ASSUME ~HasNext(r.page, r.total)
        PROVE  r.missing \subseteq r.data
    <3>1. r.page >= (Cardinality(S) + PageSize - 1) \div PageSize
      <4>1. (Cardinality(S) + PageSize - 1) \div PageSize \in Int
        BY <1>1, <1>6
      <4> QED
        BY <4>1, <1>1, <1>2, <2>1, <2>5 DEF HasNext
    <3>2. Cardinality(S) <= r.page * PageSize
      BY <3>1, <1>1, <1>6, CeilingBound
    <3> QED
      BY <1>1, <1>4, <1>5, <1>6, <2>4, <3>2
  <2> QED
    BY <1>4, <2>3, <2>4, <2>5
<1> QED
  BY <1>7, <1>8

-----------------------------------------------------------------------------
(* The steps.                                                              *)

LEMMA FeedsStart == FeedsInit => FeedsInv
<1> SUFFICES ASSUME FeedsInit
             PROVE  FeedsInv
  OBVIOUS
<1>1. clock = 0 /\ events = [e \in Event |-> Nothing] /\ reader = Nothing
  BY DEF FeedsInit
<1>2. Extant(events) = {}
  BY <1>1 DEF Extant
<1> QED
  BY <1>1, <1>2, FeedsAssumption DEF FeedsInv, FeedsData, Rows, Extant

\* An event published, changed, hidden, shown or deleted, or the time.
LEMMA OthersStep ==
  ASSUME FeedsInv, FeedsData', Kept(events, events'), Watch
  PROVE  FeedsInv'
<1>1. reader' = Nothing \/ reader' = reader
  BY DEF Watch
<1>2. reader' \in Reader \cup {Nothing}
  BY <1>1 DEF FeedsInv
<1>3. ASSUME reader' # Nothing
      PROVE  ReaderOK(reader', events', clock')
  <2>1. reader' = reader /\ reader \in Reader
    BY <1>1, <1>3 DEF FeedsInv
  <2>2. /\ Shown(reader.query, events, clock) \subseteq Shown(reader.query, events', clock')
        /\ reader.got # {} =>
             Shown(reader.query, events', clock') = Shown(reader.query, events, clock)
    BY <1>3, <2>1 DEF Watch
  <2>3. ReaderOK(reader, events, clock) /\ Rows(events)
    BY <1>3, <2>1 DEF FeedsInv, FeedsData
  <2>4. Rows(events')
    BY DEF FeedsData
  <2> QED
    BY <2>1, <2>2, <2>3, <2>4, ReaderStays
<1> QED
  BY <1>2, <1>3 DEF FeedsInv

\* The reader opens a list, reads, or gets an answer.
LEMMA ReaderStep ==
  ASSUME FeedsInv, UNCHANGED <<clock, events>>, reader' \in Reader \cup {Nothing},
         reader' # Nothing => ReaderOK(reader', events, clock)
  PROVE  FeedsInv'
BY DEF FeedsInv, FeedsData, Extant

LEMMA OpenStep == ASSUME FeedsInv, NEW q \in Query, Open(q) PROVE FeedsInv'
<1> DEFINE S == Shown(q, events, clock)
           r == [query |-> q, page |-> 1, fallback |-> FALSE, got |-> {}, data |-> {},
                 total |-> 0, missing |-> S]
<1>1. reader' = r /\ UNCHANGED <<clock, events>>
  BY DEF Open
<1>2. S \subseteq Extant(events) /\ S \subseteq Event
  BY ListsExtant DEF Extant
<1> HIDE DEF S
<1>3. r \in Reader
  BY <1>2 DEF Reader
<1>4. Rows(events)
  BY DEF FeedsInv, FeedsData
<1>5. \A e \in S : Skip(1) <= Place(S, events, e)
  <2>1. Skip(1) = 0
    BY FeedsAssumption DEF Skip
  <2> QED
    BY <1>2, <1>4, <2>1, PlaceType
<1>6. ReaderOK(r, events, clock)
  BY <1>5 DEF ReaderOK, S
<1> QED
  BY <1>1, <1>3, <1>6, ReaderStep

LEMMA DataStep == ASSUME FeedsInv, ReadData PROVE FeedsInv'
<1> DEFINE P == PageOf(Selected, events, reader.page)
           r == [reader EXCEPT !.data = P, !.got = @ \cup {"data"}]
<1>1. reader # Nothing /\ reader' = r /\ UNCHANGED <<clock, events>>
  BY DEF ReadData
<1>2. reader \in Reader /\ ReaderOK(reader, events, clock)
  BY <1>1 DEF FeedsInv
<1>3. reader.query \in Query
  BY <1>2 DEF Reader
<1>4. Selected = Chosen(reader, events, clock)
  BY DEF Selected, Chosen
<1>5. P \subseteq Event
  BY <1>3, <1>4, ListsExtant DEF PageOf, Chosen, Extant
<1>6. P = PageOf(Chosen(reader, events, clock), events, reader.page)
  BY <1>4
<1> HIDE DEF P
<1>7. /\ r \in Reader /\ r.query = reader.query /\ r.page = reader.page /\ r.data = P
      /\ r.fallback = reader.fallback /\ r.got = reader.got \cup {"data"}
      /\ r.total = reader.total /\ r.missing = reader.missing
  BY <1>2, <1>5 DEF Reader
<1> HIDE DEF r
<1>8. Chosen(r, events, clock) = Chosen(reader, events, clock)
  BY <1>7 DEF Chosen
<1>9. ReaderOK(r, events, clock)
  BY <1>2, <1>6, <1>7, <1>8 DEF ReaderOK
<1> QED
  BY <1>1, <1>7, <1>9, ReaderStep

LEMMA CountStep == ASSUME FeedsInv, ReadCount PROVE FeedsInv'
<1> DEFINE n == Cardinality(Selected)
           r == [reader EXCEPT !.total = n, !.got = @ \cup {"count"}]
<1>1. reader # Nothing /\ reader' = r /\ UNCHANGED <<clock, events>>
  BY DEF ReadCount
<1>2. reader \in Reader /\ ReaderOK(reader, events, clock)
  BY <1>1 DEF FeedsInv
<1>3. reader.query \in Query
  BY <1>2 DEF Reader
<1>4. Selected = Chosen(reader, events, clock)
  BY DEF Selected, Chosen
<1>5. n \in Nat
  <2>1. Selected \subseteq Event
    BY <1>3, <1>4, ListsExtant DEF Chosen, Extant
  <2> QED
    BY <2>1, FiniteLists
<1>6. n = Cardinality(Chosen(reader, events, clock))
  BY <1>4
<1> HIDE DEF n
<1>7. /\ r \in Reader /\ r.query = reader.query /\ r.page = reader.page /\ r.total = n
      /\ r.fallback = reader.fallback /\ r.got = reader.got \cup {"count"}
      /\ r.data = reader.data /\ r.missing = reader.missing
  BY <1>2, <1>5 DEF Reader
<1> HIDE DEF r
<1>8. Chosen(r, events, clock) = Chosen(reader, events, clock)
  BY <1>7 DEF Chosen
<1>9. ReaderOK(r, events, clock)
  BY <1>2, <1>6, <1>7, <1>8 DEF ReaderOK
<1> QED
  BY <1>1, <1>7, <1>9, ReaderStep

\* What the answer to a page means while something is missing.
LEMMA Answers ==
  ASSUME FeedsInv, Answered, reader.missing # {}
  PROVE  /\ FallsBack => PersonalList(reader.query, events, clock) = {}
         /\ ~FallsBack =>
              /\ ~HasNext(reader.page, reader.total) => reader.missing \subseteq reader.data
              /\ \A e \in reader.missing \ reader.data :
                   Skip(reader.page + 1) <= Place(Shown(reader.query, events, clock), events, e)
<1>1. reader \in Reader /\ ReaderOK(reader, events, clock) /\ Rows(events)
  BY DEF FeedsInv, FeedsData, Answered
<1> QED
  BY <1>1, AnswerIs DEF Answered, FallsBack

LEMMA EndStep == ASSUME FeedsInv, EndPage PROVE FeedsInv'
<1>1. Answered /\ UNCHANGED <<clock, events>>
  BY DEF EndPage
<1>2. reader \in Reader /\ ReaderOK(reader, events, clock)
  BY <1>1 DEF FeedsInv, Answered
<1>3. CASE FallsBack
  <2> DEFINE r == [reader EXCEPT !.got = {}, !.total = 0, !.fallback = TRUE]
  <2>1. reader' = r
    BY <1>3 DEF EndPage
  <2>2. /\ r \in Reader /\ r.query = reader.query /\ r.page = reader.page /\ r.fallback = TRUE
        /\ r.got = {} /\ r.missing = reader.missing
    BY <1>2 DEF Reader
  <2> HIDE DEF r
  <2>3. reader.query.list = "personal"
    BY <1>3 DEF FallsBack
  <2>4. ReaderOK(r, events, clock)
    BY <1>1, <1>2, <1>3, <2>2, <2>3, Answers DEF ReaderOK
  <2> QED
    BY <1>1, <2>1, <2>2, <2>4, ReaderStep
<1>4. CASE LastPage
  <2>1. reader' = Nothing
    BY <1>4 DEF EndPage, LastPage
  <2> QED
    BY <1>1, <2>1, ReaderStep
<1>5. CASE ~FallsBack /\ ~LastPage
  <2> DEFINE p == reader.page + 1
             m == reader.missing \ reader.data
             r == [reader EXCEPT !.page = p, !.fallback = FALSE, !.got = {}, !.data = {},
                                 !.total = 0, !.missing = m]
  <2>1. reader' = r
    BY <1>5 DEF EndPage
  <2>2. p \in Nat \ {0} /\ m \subseteq Event
    BY <1>2 DEF Reader
  <2>3. p = reader.page + 1 /\ m = reader.missing \ reader.data
    OBVIOUS
  <2> HIDE DEF p, m
  <2>4. /\ r \in Reader /\ r.query = reader.query /\ r.page = p
        /\ r.fallback = FALSE /\ r.got = {} /\ r.missing = m
    BY <1>2, <2>2 DEF Reader
  <2> HIDE DEF r
  <2>5. ReaderOK(r, events, clock)
    BY <1>1, <1>2, <1>5, <2>4, <2>3, Answers DEF ReaderOK
  <2> QED
    BY <1>1, <2>1, <2>4, <2>5, ReaderStep
<1> QED
  BY <1>3, <1>4, <1>5

LEMMA StatusStep ==
  ASSUME FeedsInv, NEW e \in Event, NEW status \in {"published", "disabled", "deleted"},
         SetStatus(e, status)
  PROVE  FeedsData' /\ Kept(events, events')
<1> DEFINE x == [events[e] EXCEPT !.status = status]
<1>1. events[e] # Nothing /\ events' = [events EXCEPT ![e] = x] /\ clock' = clock
  BY DEF SetStatus
<1>2. events[e] \in Row /\ FeedsData
  BY <1>1 DEF FeedsInv, FeedsData, Rows
<1>3. x \in Row /\ x.created = events[e].created /\ x.kind = events[e].kind
  BY <1>2 DEF Row
<1> QED
  BY <1>1, <1>2, <1>3, RowChanged

LEMMA KindStep ==
  ASSUME FeedsInv, NEW e \in Event, NEW k \in Kind, EditKind(e, k)
  PROVE  FeedsData' /\ Kept(events, events')
<1> DEFINE x == [events[e] EXCEPT !.kind = k]
<1>1. /\ events[e] # Nothing /\ events' = [events EXCEPT ![e] = x] /\ clock' = clock
      /\ k.tag = events[e].kind.tag
  BY DEF EditKind
<1>2. events[e] \in Row /\ FeedsData
  BY <1>1 DEF FeedsInv, FeedsData, Rows
<1>3. x \in Row /\ x.created = events[e].created /\ x.kind = k
  BY <1>2 DEF Row
<1> QED
  BY <1>1, <1>2, <1>3, RowChanged

LEMMA FeedsKept == FeedsInv /\ [FeedsNext]_feedsVars => FeedsInv'
<1> SUFFICES ASSUME FeedsInv, [FeedsNext]_feedsVars
             PROVE  FeedsInv'
  OBVIOUS
<1>1. ASSUME NEW q \in Query, Open(q)
      PROVE  FeedsInv'
  BY <1>1, OpenStep
<1>2. CASE ReadData
  BY <1>2, DataStep
<1>3. CASE ReadCount
  BY <1>3, CountStep
<1>4. CASE EndPage
  BY <1>4, EndStep
<1>5. ASSUME NEW e \in Event, NEW k \in Kind, Publish(e, k)
      PROVE  FeedsInv'
  BY <1>5, RowPublished, OthersStep DEF FeedsInv, Publish
<1>6. ASSUME NEW e \in Event, NEW k \in Kind, EditKind(e, k)
      PROVE  FeedsInv'
  BY <1>6, KindStep, OthersStep DEF EditKind
<1>7. ASSUME NEW e \in Event, NEW status \in {"published", "disabled", "deleted"},
             SetStatus(e, status)
      PROVE  FeedsInv'
  BY <1>7, StatusStep, OthersStep DEF SetStatus
<1>8. CASE ClockTick
  <2>1. events' = events /\ clock < MaxTime /\ clock' = clock + 1 /\ Watch
    BY <1>8 DEF ClockTick
  <2>2. clock' \in 0..MaxTime
    BY <2>1, FeedsAssumption DEF FeedsInv, FeedsData
  <2>3. FeedsData' /\ Kept(events, events')
    BY <2>1, <2>2 DEF FeedsInv, FeedsData, Kept, Extant
  <2> QED
    BY <2>1, <2>3, OthersStep
<1>9. CASE UNCHANGED feedsVars
  BY <1>9, ReaderStep DEF feedsVars, FeedsInv
<1> QED
  BY <1>1, <1>2, <1>3, <1>4, <1>5, <1>6, <1>7, <1>8, <1>9 DEF FeedsNext

LEMMA FeedsInvariance == FeedsSpec => []FeedsInv
BY FeedsStart, FeedsKept, PTL DEF FeedsSpec

\* Every event has a row of its kind, and a reader is somewhere in the list it has
\* asked for.
THEOREM FeedsTypeCorrect == FeedsSpec => []FeedsTypeOK
<1>1. FeedsInv => FeedsTypeOK
  BY DEF FeedsInv, FeedsData, Rows, FeedsTypeOK
<1> QED
  BY <1>1, FeedsInvariance, PTL

\* A client that follows hasNext to the last page has been shown every event that
\* its list contained when it began, if none left the list on the way and the list
\* did not change between the two queries of a page.
THEOREM PagesTheorem == FeedsSpec => NothingSkipped
<1>1. ASSUME FeedsInv, LastPage, EndPage
      PROVE  reader.missing \subseteq reader.data
  <2> SUFFICES ASSUME reader.missing # {}
               PROVE  reader.missing \subseteq reader.data
    OBVIOUS
  <2> QED
    BY <1>1, Answers DEF LastPage
<1>2. FeedsInv => [LastPage /\ EndPage => reader.missing \subseteq reader.data]_feedsVars
  BY <1>1
<1> QED
  BY <1>2, FeedsInvariance, PTL DEF NothingSkipped

\* An event with a schedule is in exactly one of the three feeds at any time, and
\* as time goes on it moves from upcoming to today to history, or stays.
THEOREM ScopesTheorem == FeedsSpec => ScopesAdvance
<1>1. ASSUME FeedsInv, FeedsNext
      PROVE  clock' # clock =>
             \A e \in Event :
               events[e] # Nothing /\ events[e].kind.schedule # Nothing =>
                 \E a, b \in Scope : /\ ScopesOf(events[e], clock) = {a}
                                      /\ ScopesOf(events[e], clock') = {b}
                                      /\ Order(a) <= Order(b)
  <2> SUFFICES ASSUME clock' # clock, NEW e \in Event, events[e] # Nothing,
                      events[e].kind.schedule # Nothing
               PROVE  \E a, b \in Scope : /\ ScopesOf(events[e], clock) = {a}
                                          /\ ScopesOf(events[e], clock') = {b}
                                          /\ Order(a) <= Order(b)
    OBVIOUS
  <2> DEFINE x == events[e]
             In(t) == IF x.kind.schedule.deadline < StartOfDay(t) THEN "history"
                      ELSE IF x.kind.schedule.registration <= EndOfDay(t) THEN "today"
                      ELSE "upcoming"
  <2>1. clock' = clock + 1 /\ clock \in Nat
    <3>1. clock \in Nat
      BY <1>1, FeedsAssumption DEF FeedsInv, FeedsData
    <3>2. ClockTick
      BY <1>1 DEF FeedsNext, Open, ReadData, ReadCount, EndPage, Publish, EditKind, SetStatus
    <3> QED
      BY <3>1, <3>2 DEF ClockTick
  <2>2. x.kind \in Kind
    BY <1>1 DEF FeedsInv, FeedsData, Rows, Row
  <2>3. x.kind.schedule \in [registration : Int, deadline : Int]
    BY <2>2, FeedsAssumption
  <2>4. \A t \in Nat : ScopesOf(x, t) = {In(t)}
    BY <2>3, OneScope
  <2>5. ScopesOf(x, clock) = {In(clock)} /\ ScopesOf(x, clock') = {In(clock + 1)}
    BY <2>1, <2>4
  <2>6. /\ x.kind.schedule.deadline \in Int /\ x.kind.schedule.registration \in Int
        /\ StartOfDay(clock) \in Int /\ StartOfDay(clock + 1) \in Int
        /\ EndOfDay(clock) \in Int /\ EndOfDay(clock + 1) \in Int
        /\ StartOfDay(clock) <= StartOfDay(clock + 1) /\ EndOfDay(clock) <= EndOfDay(clock + 1)
    BY <2>1, <2>3, DayStep
  <2>7. Order("upcoming") = 1 /\ Order("today") = 2 /\ Order("history") = 3
    BY DEF Order
  <2>8. Order(In(clock)) <= Order(In(clock + 1))
    BY <2>6, <2>7
  <2>9. In(clock) \in Scope /\ In(clock + 1) \in Scope
    BY DEF Scope
  <2> HIDE DEF In
  <2> QED
    BY <2>5, <2>8, <2>9
<1>2. FeedsInv /\ [FeedsNext]_feedsVars =>
        [clock' # clock =>
           \A e \in Event :
             events[e] # Nothing /\ events[e].kind.schedule # Nothing =>
               \E a, b \in Scope : /\ ScopesOf(events[e], clock) = {a}
                                    /\ ScopesOf(events[e], clock') = {b}
                                    /\ Order(a) <= Order(b)]_feedsVars
  BY <1>1
<1> QED
  BY <1>2, FeedsInvariance, PTL DEF FeedsSpec, ScopesAdvance

\* What the label and the filter say of a kind of event.
LEMMA LabelOfKind ==
  ASSUME NEW k \in Kind
  PROVE  LabelSound[k]
<1> DEFINE n == [c \in DOMAIN Bands |-> YearsInBand(k.ages, c)]
           b == Label[k]
<1>1. k.ages \in SUBSET AgeRow /\ IsFiniteSet(k.ages)
  BY FeedsAssumption
<1>2. b = InferBand(k.ages)
  BY DEF Label
<1>3. DOMAIN Bands = 1..3 /\ \A c \in 1..3 : n[c] = YearsInBand(k.ages, c)
  BY DEF Bands
<1>4. /\ b \in 0..3 /\ \A c \in 1..3 : n[c] \in Nat
      /\ b = 0 <=> \A c \in 1..3 : n[c] = 0
      /\ b # 0 => \A c \in 1..3 : n[c] <= n[b] /\ (c < b => n[c] < n[b])
  <2> HIDE DEF n, b
  <2>1. b # 0 /\ b \in 0..3 => b \in 1..3
    OBVIOUS
  <2>2. QED
    BY <1>1, <1>2, <1>3, <2>1, InferBandExact
<1>5. ASSUME b # 0
      PROVE  \E r \in k.ages : BandWhere(r, Bands[b].lo, Bands[b].hi)
  <2> DEFINE Y == UNION {Years(r) : r \in k.ages}
             lo == Bands[b].lo
             hi == Bands[b].hi
  <2>1. b \in 1..3
    BY <1>4, <1>5
  <2>2. lo \in 1..AgeCap /\ hi \in lo..AgeCap
    BY <2>1 DEF Bands, AgeCap
  <2>3. n[b] # 0
    BY <1>4, <1>5
  <2>4. n[b] = Cardinality(Y \cap (lo..hi))
    BY <1>3, <2>1 DEF YearsInBand
  <2>5. Y \cap (lo..hi) # {}
    <3> HIDE DEF Y, lo, hi, n
    <3>1. QED
      BY <2>3, <2>4, FS_EmptySet
  <2>6. PICK r \in k.ages : Years(r) \cap (lo..hi) # {}
    BY <2>5
  <2>7. r \in AgeRow
    BY <1>1
  <2> HIDE DEF lo, hi
  <2>8. BandWhere(r, lo, hi)
    BY <2>2, <2>6, <2>7, FilterExact
  <2>9. QED
    BY <2>8 DEF lo, hi
<1>6. /\ b = 0 <=> \A c \in DOMAIN Bands : n[c] = 0
      /\ b # 0 => /\ \E r \in k.ages : BandWhere(r, Bands[b].lo, Bands[b].hi)
                  /\ \A c \in DOMAIN Bands : n[c] <= n[b] /\ (c < b => n[c] < n[b])
  BY <1>3, <1>4, <1>5
<1>7. LabelSound[k] =
        (/\ b = 0 <=> \A c \in DOMAIN Bands : n[c] = 0
         /\ b # 0 => /\ \E r \in k.ages : BandWhere(r, Bands[b].lo, Bands[b].hi)
                     /\ \A c \in DOMAIN Bands : n[c] <= n[b] /\ (c < b => n[c] < n[b]))
  BY DEF LabelSound
<1>8. QED
  BY <1>6, <1>7

\* An event is labelled with the first of the bands that share most years with its
\* groups, and the filter for that band finds it, for every set of age rows
\* (attachFeedCategoryGroups against buildAgeBandGroupWhere).
THEOREM LabelTheorem == FeedsSpec => []LabelFound
<1>1. FeedsInv => LabelFound
  <2> SUFFICES ASSUME FeedsInv, NEW e \in Event, events[e] # Nothing
               PROVE  LabelSound[events[e].kind]
    BY DEF LabelFound
  <2>1. events[e] \in Row
    BY DEF FeedsInv, FeedsData, Rows
  <2>2. events[e].kind \in Kind
    BY <2>1 DEF Row
  <2> QED
    BY <2>2, LabelOfKind
<1> QED
  BY <1>1, FeedsInvariance, PTL

-----------------------------------------------------------------------------
(* The chain of RepeatEvent.  Each promise is about rows that several runs *)
(* write, so none is inductive by itself.  What is added says what a run   *)
(* relies on between its calls: the lookup's answer still holds when the   *)
(* copy is made (CloneFree), the stored date is still the one the run read *)
(* (OnTrack), and a run that has not made its copy saw the event live      *)
(* (FirstLate).                                                            *)

\* A job that may still run has attempts left.
TriesLeft ==
  \A d \in Date : jobs[d] # Absent /\ jobs[d].state # "failed" => jobs[d].tries < Attempts

\* Before the event is stored there is nothing to run.
Fresh ==
  creating = "insert" =>
    /\ source = "none" /\ config = Absent /\ worker = "idle"
    /\ \A d \in Date : clones[d] = 0 /\ jobs[d] = Absent

\* No copy appears between the lookup and the copy that is made.
CloneFree == worker = "clone" => ~Taken(Name(run.date))

\* The one copy that is made after the deletion is that of a run under way.
FirstLate == (source # "deleted" \/ worker \in {"lookup", "clone"}) => late = 0

\* The stored date is the one the run has read, and its copy is there when the
\* date is advanced.
OnTrack ==
  Untouched /\ worker \in {"lookup", "clone", "advance"} =>
    /\ config # Absent
    /\ run.date = config.next
    /\ worker = "advance" => Taken(Name(run.date))

\* Nothing but a user's edit deletes the event.
StillThere == Untouched => source # "deleted"

Shape == RepeatTypeOK /\ TriesLeft /\ Fresh

\* The promises and what the runs rely on, inductive together.
RepeatInv ==
  /\ Shape
  /\ OncePerName /\ CloneFree
  /\ EndsWithSource /\ FirstLate
  /\ NoGap /\ OnTrack /\ StillThere

-----------------------------------------------------------------------------
USE BoundAssumption, NoneAssumption

\* Dates are naturals up to the horizon; the names are those of a round.
LEMMA Dates ==
  /\ 0 \in Date /\ Absent \notin Date
  /\ \A d \in Date : d \in Nat /\ (d < Horizon => d + 1 \in Date)
  /\ \A d \in 0..(MaxNow + 1) : d \in Date
BY DEF Date

\* The empty program satisfies everything.
LEMMA InitInvariant == RepeatInit => RepeatInv
<1> SUFFICES ASSUME RepeatInit PROVE RepeatInv
  OBVIOUS
<1>1. Shape
  BY Dates DEF RepeatInit, Shape, RepeatTypeOK, TriesLeft, Fresh, Date
<1>2. OncePerName /\ CloneFree
  BY DEF RepeatInit, OncePerName, CloneFree
<1>3. EndsWithSource /\ FirstLate /\ NoGap /\ OnTrack /\ StillThere
  BY DEF RepeatInit, EndsWithSource, FirstLate, NoGap, OnTrack, StillThere
<1> QED
  BY <1>1, <1>2, <1>3 DEF RepeatInv

-----------------------------------------------------------------------------
\* A queued job: what Add does to the queue keeps its shape.
LEMMA AddShape ==
  ASSUME Shape, NEW d \in Date, Add(d)
  PROVE  /\ jobs' \in [Date -> JobRow \cup {Absent}]
         /\ \A e \in Date : jobs'[e] # Absent /\ jobs'[e].state # "failed" =>
                              jobs'[e].tries < Attempts
         /\ \A e \in Date : jobs'[e] # Absent /\ jobs'[e].state = "active" <=> e = run.job
<1> DEFINE new == [state |-> "delayed", tries |-> 0, stalls |-> 0]
<1>1. new \in JobRow /\ new.state = "delayed" /\ new.tries < Attempts
  BY DEF JobRow, Attempts, MaxStalls
<1>2. jobs \in [Date -> JobRow \cup {Absent}]
  BY DEF Shape, RepeatTypeOK
<1>3. CASE jobs[d] # Absent
  BY <1>2, <1>3 DEF Add, Shape, RepeatTypeOK, TriesLeft
<1>4. CASE jobs[d] = Absent
  <2>1. jobs' = [jobs EXCEPT ![d] = new]
    BY <1>4 DEF Add
  <2>2. d # run.job
    BY <1>4 DEF Shape, RepeatTypeOK
  <2> HIDE DEF new
  <2> QED
    BY <1>1, <1>2, <2>1, <2>2 DEF Shape, RepeatTypeOK, TriesLeft
<1> QED
  BY <1>3, <1>4

\* The job a run has taken is in the queue and active.
LEMMA RunsItsJob ==
  ASSUME Shape, worker # "idle"
  PROVE  /\ run.job \in Date /\ jobs[run.job] \in JobRow
         /\ jobs[run.job].state = "active" /\ jobs[run.job].tries < Attempts
BY Dates DEF Shape, RepeatTypeOK, TriesLeft

\* A job that is put back after a failure or a stall.
LEMMA PutBack ==
  ASSUME NEW j \in JobRow, j.tries < Attempts
  PROVE  /\ Retry(j) \in JobRow /\ Retry(j).state # "active"
         /\ Retry(j).state # "failed" => Retry(j).tries < Attempts
         /\ Stalled(j) \in JobRow /\ Stalled(j).state # "active"
         /\ Stalled(j).state # "failed" => Stalled(j).tries < Attempts
BY DEF Retry, Stalled, JobRow, Attempts, MaxStalls

LEMMA NextShape == Shape /\ [RepeatNext]_repeatVars => Shape'
<1> SUFFICES ASSUME Shape, [RepeatNext]_repeatVars PROVE Shape'
  OBVIOUS
<1> USE Dates DEF Shape, RepeatTypeOK, TriesLeft, Fresh, event
<1>1. ASSUME NEW s \in 0..MaxNow, NEW n \in 0..(Period - 1), CreateInsert(s, n)
      PROVE  Shape'
  BY <1>1 DEF CreateInsert, Config
<1>2. CASE CreateFollowUp
  BY <1>2 DEF CreateFollowUp, Failure
<1>3. CASE CreateEnqueue
  <2>1. start + 1 \in Date
    OBVIOUS
  <2>2. CASE UNCHANGED jobs
    BY <1>3, <2>2 DEF CreateEnqueue, Failure
  <2>3. CASE Add(start + 1) /\ UNCHANGED failures
    BY <1>3, <2>1, <2>3, AddShape DEF CreateEnqueue
  <2> QED
    BY <1>3, <2>2, <2>3 DEF CreateEnqueue
<1>4. ASSUME NEW d \in Date, RunLoad(d) PROVE Shape'
  <2>1. jobs[d] \in JobRow /\ jobs[d].tries < Attempts
    BY <1>4 DEF RunLoad, Due
  <2>2. jobs' \in [Date -> JobRow \cup {Absent}]
    BY <1>4, <2>1 DEF RunLoad, JobRow, Active
  <2>3. /\ \A e \in Date \ {d} : jobs'[e] = jobs[e]
        /\ jobs'[d] = Active(jobs[d])
    BY <1>4 DEF RunLoad
  <2>4. Repeats => Anchor(config) \in Date
    BY DEF Repeats, Anchor, Config
  <2>5. /\ jobs'[d] \in JobRow /\ jobs'[d] # Absent /\ jobs'[d].state = "active"
        /\ jobs'[d].tries < Attempts
    BY <2>1, <2>3, NoneAssumption DEF Active, JobRow
  <2>6. \E x \in Date \cup {Absent} :
           /\ run' = [job |-> d, date |-> x] /\ worker' \in {"lookup", "complete"}
           /\ worker' = "lookup" => x \in Date
    <3>1. CASE Repeats
      BY <1>4, <2>4, <3>1 DEF RunLoad
    <3>2. CASE ~Repeats
      BY <1>4, <3>2 DEF RunLoad
    <3> QED
      BY <3>1, <3>2
  <2>7. /\ run' \in [job : Date \cup {Absent}, date : Date \cup {Absent}]
        /\ run'.job = d /\ worker' \in {"lookup", "complete"}
        /\ worker' = "lookup" => run'.date \in Date
    BY <2>6
  <2>8. worker = "idle" /\ jobs[d] # Absent
    BY <1>4 DEF RunLoad, Due
  <2>9. /\ UNCHANGED <<now, start, named, source, config, clones, creating>>
        /\ UNCHANGED <<polling, failures, crashes, edits, late>>
    BY <1>4 DEF RunLoad
  <2> QED
    BY <2>2, <2>3, <2>5, <2>7, <2>8, <2>9
<1>5. CASE RunLookup \/ RunClone
  <2>1. worker = "clone" => run.date \in Date /\ clones[run.date] \in Nat
    OBVIOUS
  <2> QED
    BY <1>5, <2>1 DEF RunLookup, RunClone
<1>6. CASE RunAdvance
  <2>1. config' \in Config
    BY <1>6 DEF RunAdvance, Config
  <2> QED
    BY <1>6, <2>1 DEF RunAdvance
<1>7. CASE RunEnqueue
  <2>1. run.date + 1 \in Date
    BY <1>7 DEF RunEnqueue
  <2> QED
    BY <1>7, <2>1, AddShape DEF RunEnqueue
<1>8. CASE RunComplete
  BY <1>8, RunsItsJob DEF RunComplete, Rest
<1>9. CASE RunFail
  <2> DEFINE new == [state |-> "delayed", tries |-> 0, stalls |-> 0]
  <2>1. worker # "idle" /\ run.date \in Date
    BY <1>9 DEF RunFail
  <2>2. /\ Retry(jobs[run.job]) \in JobRow /\ Retry(jobs[run.job]).state # "active"
        /\ Retry(jobs[run.job]).state # "failed" => Retry(jobs[run.job]).tries < Attempts
    BY <2>1, RunsItsJob, PutBack
  <2>3. new \in JobRow /\ new.state = "delayed" /\ new.tries < Attempts
    BY DEF JobRow, Attempts, MaxStalls
  <2> HIDE DEF new
  <2>4. CASE jobs' = [jobs EXCEPT ![run.job] = Retry(@)]
    BY <1>9, <2>1, <2>2, <2>4, RunsItsJob DEF RunFail, Rest, Failure
  <2>5. CASE /\ worker = "enqueue"
             /\ jobs' = [jobs EXCEPT ![run.job] = Retry(@), ![run.date + 1] = new]
    BY <1>9, <2>1, <2>2, <2>3, <2>5, RunsItsJob DEF RunFail, Rest, Failure
  <2> QED
    BY <1>9, <2>4, <2>5 DEF RunFail, new
<1>10. CASE Crash
  <2>1. CASE worker = "idle"
    BY <1>10, <2>1 DEF Crash, Rest
  <2>2. CASE worker # "idle"
    <3>1. /\ Stalled(jobs[run.job]) \in JobRow /\ Stalled(jobs[run.job]).state # "active"
          /\ Stalled(jobs[run.job]).state # "failed" =>
               Stalled(jobs[run.job]).tries < Attempts
      BY <2>2, RunsItsJob, PutBack
    <3> QED
      BY <1>10, <2>2, <3>1, RunsItsJob DEF Crash, Rest
  <2> QED
    BY <2>1, <2>2
<1>11. ASSUME NEW c \in Patches, PatchRule(c) PROVE Shape'
  <2>1. c \in Config \cup {Absent}
    <3>1. 1..(MaxNow + 1) \subseteq Date
      OBVIOUS
    <3>2. [repeats : {TRUE}, next : 1..(MaxNow + 1)] \subseteq Config
      BY <3>1 DEF Config
    <3>3. [repeats |-> FALSE, next |-> Absent] \in Config
      BY DEF Config
    <3> QED
      BY <3>2, <3>3 DEF Patches
  <2> QED
    BY <1>11, <2>1 DEF PatchRule, Edit
<1>12. CASE DeleteSource
  BY <1>12 DEF DeleteSource, Edit
<1>13. ASSUME NEW d \in Date, DeleteClone(d) PROVE Shape'
  BY <1>13 DEF DeleteClone, Edit
<1>14. CASE Tick \/ UNCHANGED repeatVars
  BY <1>14 DEF Tick, repeatVars
<1>15. CASE Pause
  BY <1>15 DEF Pause
<1> QED
  BY <1>1, <1>2, <1>3, <1>4, <1>5, <1>6, <1>7, <1>8, <1>9, <1>10, <1>11, <1>12, <1>13, <1>14,
     <1>15
     DEF RepeatNext, Work

-----------------------------------------------------------------------------
\* No occurrence twice: what the lookup found is still true at the copy, since
\* no other step makes a live event while a run is under way.
LEMMA NextOnce ==
  Shape /\ Shape' /\ OncePerName /\ CloneFree /\ [RepeatNext]_repeatVars => OncePerName' /\ CloneFree'
<1> SUFFICES ASSUME Shape, Shape', OncePerName, CloneFree, [RepeatNext]_repeatVars
             PROVE  OncePerName' /\ CloneFree'
  OBVIOUS
<1> USE DEF OncePerName, CloneFree, Taken, event
<1>1. ASSUME NEW s \in 0..MaxNow, NEW n \in 0..(Period - 1), CreateInsert(s, n)
      PROVE  OncePerName' /\ CloneFree'
  BY <1>1 DEF CreateInsert, Shape, Fresh
<1>2. ASSUME UNCHANGED <<event, clones>>, worker' = "clone" => worker = "clone" /\ run' = run
      PROVE  OncePerName' /\ CloneFree'
  BY <1>2
<1>3. CASE RunLookup
  BY <1>3 DEF RunLookup
<1>4. CASE RunClone
  <2>1. run.date \in Date /\ clones \in [Date -> Nat]
    BY <1>4 DEF RunClone, Shape, RepeatTypeOK
  <2>2. /\ clones[run.date] = 0
        /\ \A d \in Date : Name(d) = Name(run.date) => clones[d] = 0
        /\ source = "live" => named # Name(run.date)
    BY <1>4, <2>1 DEF RunClone
  <2>3. /\ clones'[run.date] = 1
        /\ \A d \in Date \ {run.date} : clones'[d] = clones[d]
        /\ source' = source /\ named' = named /\ worker' = "advance"
    BY <1>4, <2>1, <2>2 DEF RunClone
  <2>4. ASSUME NEW d \in Date
        PROVE  /\ clones'[d] <= 1
               /\ clones'[d] = 1 =>
                    /\ \A c \in Date \ {d} : Name(c) = Name(d) => clones'[c] = 0
                    /\ source' = "live" => named' # Name(d)
    <3>1. CASE d = run.date
      BY <2>2, <2>3, <3>1
    <3>2. CASE d # run.date
      BY <2>1, <2>2, <2>3, <3>2
    <3> QED
      BY <3>1, <3>2
  <2> QED
    BY <2>3, <2>4 DEF Name
<1>5. CASE DeleteSource
  BY <1>5 DEF DeleteSource
<1>6. ASSUME NEW d \in Date, DeleteClone(d) PROVE OncePerName' /\ CloneFree'
  <2>1. /\ clones'[d] = 0 /\ \A c \in Date \ {d} : clones'[c] = clones[c]
        /\ UNCHANGED <<source, named, worker, run>>
    BY <1>6 DEF DeleteClone, Shape, RepeatTypeOK
  <2> QED
    BY <2>1 DEF Shape, RepeatTypeOK, Name
<1>7. CASE \/ CreateFollowUp \/ CreateEnqueue \/ Tick \/ Pause \/ UNCHANGED repeatVars
           \/ \E c \in Patches : PatchRule(c)
  BY <1>2, <1>7 DEF CreateFollowUp, CreateEnqueue, Tick, Pause, repeatVars, PatchRule
<1>8. CASE \/ \E d \in Date : RunLoad(d)
           \/ RunAdvance \/ RunEnqueue \/ RunComplete \/ RunFail \/ Crash
  BY <1>2, <1>8 DEF RunLoad, RunAdvance, RunEnqueue, RunComplete, RunFail, Crash, Rest
<1> QED
  BY <1>1, <1>3, <1>4, <1>5, <1>6, <1>7, <1>8 DEF RepeatNext, Work

\* At most one copy after the deletion.
LEMMA NextLate ==
  Shape /\ EndsWithSource /\ FirstLate /\ [RepeatNext]_repeatVars => EndsWithSource' /\ FirstLate'
<1> SUFFICES ASSUME Shape, EndsWithSource, FirstLate, [RepeatNext]_repeatVars
             PROVE  EndsWithSource' /\ FirstLate'
  OBVIOUS
<1> USE DEF EndsWithSource, FirstLate, event
<1>1. ASSUME NEW s \in 0..MaxNow, NEW n \in 0..(Period - 1), CreateInsert(s, n)
      PROVE  EndsWithSource' /\ FirstLate'
  BY <1>1 DEF CreateInsert, Shape, Fresh
<1>2. ASSUME NEW d \in Date, RunLoad(d) PROVE EndsWithSource' /\ FirstLate'
  BY <1>2 DEF RunLoad, Repeats
<1>3. CASE RunClone
  BY <1>3 DEF RunClone
<1>4. CASE DeleteSource
  BY <1>4 DEF DeleteSource
<1>5. CASE CreateFollowUp \/ CreateEnqueue \/ Tick \/ Pause \/ UNCHANGED repeatVars \/ Crash
  BY <1>5 DEF CreateFollowUp, CreateEnqueue, Tick, Pause, repeatVars, Crash, Rest
<1>6. CASE RunLookup \/ RunAdvance \/ RunEnqueue \/ RunComplete \/ RunFail
  BY <1>6 DEF RunLookup, RunAdvance, RunEnqueue, RunComplete, RunFail, Rest
<1>7. CASE (\E c \in Patches : PatchRule(c)) \/ (\E d \in Date : DeleteClone(d))
  BY <1>7 DEF PatchRule, DeleteClone
<1> QED
  BY <1>1, <1>2, <1>3, <1>4, <1>5, <1>6, <1>7 DEF RepeatNext, Work

\* No occurrence skipped: a run advances past the date it read, and there is an
\* event of that name by then.
LEMMA NextGap ==
  /\ Shape /\ Shape' /\ NoGap /\ OnTrack /\ StillThere
  /\ [RepeatNext]_repeatVars
  => NoGap' /\ OnTrack' /\ StillThere'
<1> DEFINE Goal == NoGap' /\ OnTrack' /\ StillThere'
<1> SUFFICES ASSUME Shape, Shape', NoGap, OnTrack, StillThere, [RepeatNext]_repeatVars PROVE Goal
  OBVIOUS
<1>0. edits \in Nat /\ start \in Nat
  BY DEF Shape, RepeatTypeOK
<1> USE DEF NoGap, OnTrack, StillThere, Untouched, event
<1>1. ASSUME NEW s \in 0..MaxNow, NEW n \in 0..(Period - 1), CreateInsert(s, n) PROVE Goal
  <2>1. config'.next = s + 1 /\ start' = s /\ worker' = "idle" /\ source' = "live"
    BY <1>1 DEF CreateInsert, Shape, Fresh
  <2>2. (start' + 1)..(config'.next - 1) = {}
    BY <2>1
  <2> QED
    BY <2>1, <2>2
<1>2. ASSUME UNCHANGED <<event, config, clones, edits>>,
             worker' \in {"lookup", "clone", "advance"} => worker' = worker /\ run' = run
      PROVE  Goal
  BY <1>2 DEF Taken
<1>3. ASSUME NEW d \in Date, RunLoad(d) PROVE Goal
  <2>1. CASE Repeats
    BY <1>3, <2>1 DEF RunLoad, Repeats, Anchor, Taken
  <2>2. CASE ~Repeats
    BY <1>3, <2>2 DEF RunLoad, Taken
  <2> QED
    BY <2>1, <2>2
<1>4. CASE RunLookup
  BY <1>4 DEF RunLookup, Taken
<1>5. CASE RunClone
  <2>1. run.date \in Date /\ clones \in [Date -> Nat]
    BY <1>5 DEF RunClone, Shape, RepeatTypeOK
  <2>2. \A d \in Date : clones[d] > 0 => clones'[d] > 0
    BY <1>5, <2>1 DEF RunClone
  <2>3. clones'[run.date] > 0
    BY <1>5, <2>1 DEF RunClone
  <2>4. UNCHANGED <<source, start, named, config, run, edits>> /\ worker = "clone" /\ worker' = "advance"
    BY <1>5 DEF RunClone
  <2>5. Taken(Name(run.date))'
    BY <2>1, <2>3, <2>4 DEF Taken
  <2>6. \A d \in Int : Taken(Name(d)) => Taken(Name(d))'
    BY <2>2, <2>4 DEF Taken
  <2> QED
    BY <2>4, <2>5, <2>6
<1>6. CASE RunAdvance
  <2>1. /\ UNCHANGED <<source, start, named, clones, run, edits>>
        /\ worker = "advance" /\ worker' = "enqueue" /\ config # Absent
    BY <1>6 DEF RunAdvance
  <2>2. run.date \in Nat /\ config'.next = run.date + 1
    <3>1. run.date \in Nat /\ config \in Config
      BY <2>1, Dates DEF Shape, RepeatTypeOK
    <3> QED
      BY <1>6, <3>1 DEF RunAdvance, Config
  <2>3. \A d \in Int : Taken(Name(d))' <=> Taken(Name(d))
    BY <2>1 DEF Taken
  <2>4. ASSUME Untouched, NEW d \in (start + 1)..run.date PROVE Taken(Name(d))
    <3>1. run.date = config.next /\ Taken(Name(run.date))
      BY <2>1, <2>4
    <3>2. CASE d = run.date
      BY <3>1, <3>2
    <3>3. CASE d # run.date
      BY <1>0, <2>1, <2>2, <2>4, <3>1, <3>3
    <3> QED
      BY <3>2, <3>3
  <2> QED
    BY <1>0, <2>1, <2>2, <2>3, <2>4
<1>7. CASE \/ CreateFollowUp \/ CreateEnqueue \/ Tick \/ Pause \/ UNCHANGED repeatVars
           \/ RunEnqueue \/ RunComplete \/ RunFail \/ Crash
  BY <1>2, <1>7 DEF CreateFollowUp, CreateEnqueue, Tick, Pause, repeatVars, RunEnqueue, RunComplete,
                    RunFail, Crash, Rest
<1>8. CASE \/ DeleteSource \/ (\E c \in Patches : PatchRule(c))
           \/ (\E d \in Date : DeleteClone(d))
  <2>1. edits' # 0
    BY <1>0, <1>8 DEF DeleteSource, PatchRule, DeleteClone, Edit
  <2> QED
    BY <2>1
<1> QED
  BY <1>1, <1>3, <1>4, <1>5, <1>6, <1>7, <1>8 DEF RepeatNext, Work

-----------------------------------------------------------------------------
\* Every reachable state satisfies the promises and what the runs rely on.
THEOREM RepeatInvariance == RepeatSpec => []RepeatInv
<1>1. RepeatInv /\ [RepeatNext]_repeatVars => RepeatInv'
  <2>1. Shape /\ [RepeatNext]_repeatVars => Shape'
    BY NextShape
  <2> QED
    BY <2>1, NextOnce, NextLate, NextGap DEF RepeatInv
<1> QED
  BY InitInvariant, <1>1, PTL DEF RepeatSpec

\* The variables of the chain keep their types; the worker runs an active job
\* and no other job is active (repeatEvent.worker.ts, concurrency 1).
THEOREM RepeatTypeCorrect == RepeatSpec => []RepeatTypeOK
<1>1. RepeatInv => RepeatTypeOK
  BY DEF RepeatInv, Shape
<1> QED
  BY RepeatInvariance, <1>1, PTL

\* However often runs fail, stall and are tried again, and whatever users edit
\* and delete, generateNextRepeatedEvent makes no occurrence twice.
THEOREM OnceTheorem == RepeatSpec => []OncePerName
<1>1. RepeatInv => OncePerName
  BY DEF RepeatInv
<1> QED
  BY RepeatInvariance, <1>1, PTL

\* As long as no user edits or deletes, nextAutoGenerateDate passes a date only
\* when there is an event of its name.
THEOREM GapTheorem == RepeatSpec => []NoGap
<1>1. RepeatInv => NoGap
  BY DEF RepeatInv
<1> QED
  BY RepeatInvariance, <1>1, PTL

\* After the deletion of the event at most the copy of the run under way is made.
THEOREM EndTheorem == RepeatSpec => []EndsWithSource
<1>1. RepeatInv => EndsWithSource
  BY DEF RepeatInv
<1> QED
  BY RepeatInvariance, <1>1, PTL

-----------------------------------------------------------------------------
(* How early a copy can be made.  A run that does not end well leaves its  *)
(* job in the queue although it may have moved the stored date on, so that *)
(* every mishap lets one run more take place before its time.              *)

Mishaps == failures + crashes

\* The jobs whose run is still to move the stored date on.
Left ==
  {d \in Date :
     \/ jobs[d] # Absent /\ jobs[d].state = "delayed"
     \/ d = run.job /\ worker \in {"lookup", "clone", "advance"}}

\* Those of them that are due at t.
By(A, t) == {d \in A : d <= t}

\* Before its first job is queued the chain stands still.
Waiting ==
  creating \in {"reward", "notify", "enqueue"} =>
    /\ worker = "idle" /\ \A d \in Date : jobs[d] = Absent
    /\ Untouched => config # Absent /\ config.next = start + 1

\* Nothing but a user's edit ends the repetition.
Repeating == Untouched /\ creating # "insert" => Repeats

\* A run is of a job whose date has come, and what it stores is what it queues.
InTime ==
  /\ worker # "idle" => run.job <= now
  /\ Untouched /\ worker = "enqueue" => config.next = run.date + 1

\* One run is left, and one more for each mishap at most.
FewLeft == Cardinality(Left) + (IF worker = "enqueue" THEN 1 ELSE 0) <= 1 + Mishaps

\* The runs left that are due at a date to come will not move the stored date
\* past it by more than the number of mishaps.
NotFarAhead ==
  \A t \in Date :
    /\ now <= t /\ t < config.next
    /\ By(Left, t) # {} \/ worker \in {"enqueue", "complete"}
    => config.next + Cardinality(By(Left, t)) <= t + 1 + Mishaps

DriftInv ==
  /\ Waiting /\ Repeating /\ InTime
  /\ Untouched /\ creating # "insert" => FewLeft /\ NotFarAhead

\* Sets of dates.
LEMMA Counting ==
  ASSUME NEW A \in SUBSET Date
  PROVE  /\ Cardinality(A) \in Nat
         /\ \A B \in SUBSET A : Cardinality(B) <= Cardinality(A)
         /\ \A x \in Date : \A B \in SUBSET (A \cup {x}) :
              Cardinality(B) \in Nat /\ Cardinality(B) <= Cardinality(A) + 1
         /\ \A x \in A : Cardinality(A \ {x}) = Cardinality(A) - 1
         /\ A # {} => Cardinality(A) >= 1
<1>1. IsFiniteSet(Date)
  <2>1. 0 \in Int /\ Horizon \in Int
    OBVIOUS
  <2> QED
    BY <2>1, FS_Interval, Zenon DEF Date
<1>2. IsFiniteSet(A)
  BY <1>1, FS_Subset
<1>3. Cardinality(A) \in Nat
  BY <1>2, FS_CardinalityType
<1>4. ASSUME NEW B \in SUBSET A PROVE Cardinality(B) <= Cardinality(A)
  BY <1>2, FS_Subset
<1>5. ASSUME NEW x \in Date, NEW B \in SUBSET (A \cup {x})
      PROVE  Cardinality(B) \in Nat /\ Cardinality(B) <= Cardinality(A) + 1
  <2>1. /\ IsFiniteSet(A \cup {x})
        /\ Cardinality(A \cup {x}) = Cardinality(A) \/ Cardinality(A \cup {x}) = Cardinality(A) + 1
    BY <1>2, FS_AddElement
  <2>2. IsFiniteSet(B) /\ Cardinality(B) <= Cardinality(A \cup {x})
    BY <2>1, FS_Subset
  <2>3. Cardinality(B) \in Nat
    BY <2>2, FS_CardinalityType
  <2> QED
    BY <1>3, <2>1, <2>2, <2>3
<1>6. ASSUME NEW x \in A PROVE Cardinality(A \ {x}) = Cardinality(A) - 1
  BY <1>2, FS_RemoveElement
<1>7. ASSUME A # {} PROVE Cardinality(A) >= 1
  BY <1>2, <1>3, <1>7, FS_EmptySet
<1> QED
  BY <1>3, <1>4, <1>5, <1>6, <1>7

\* Mishaps are counted.
LEMMA MishapsCount ==
  ASSUME Shape, [RepeatNext]_repeatVars
  PROVE  /\ Mishaps \in Nat /\ Mishaps' \in Nat /\ Mishaps <= Mishaps'
         /\ (RunFail /\ worker \in {"enqueue", "complete"}) \/ Crash => Mishaps' = Mishaps + 1
<1>1. failures \in Nat /\ crashes \in Nat
  BY DEF Shape, RepeatTypeOK
<1>2. /\ failures' = failures \/ failures' = failures + 1
      /\ crashes' = crashes \/ crashes' = crashes + 1
      /\ RunFail /\ worker \in {"enqueue", "complete"} => failures' = failures + 1 /\ crashes' = crashes
      /\ Crash => crashes' = crashes + 1 /\ failures' = failures
  BY DEF RepeatNext, Work, repeatVars, CreateInsert, CreateFollowUp, CreateEnqueue, RunLoad, RunLookup,
         RunClone, RunAdvance, RunEnqueue, RunComplete, RunFail, Crash, PatchRule,
         DeleteSource, DeleteClone, Tick, Pause, Failure
<1> QED
  BY <1>1, <1>2 DEF Mishaps

-----------------------------------------------------------------------------
(* What the steps do to the runs that are left.                            *)

\* A step that leaves no more runs, moves no date and starts nothing.
LEMMA StaysBehind ==
  ASSUME FewLeft, NotFarAhead, now \in Nat, now' \in Nat, now <= now',
         Mishaps \in Nat, Mishaps' \in Nat, Mishaps <= Mishaps',
         config.next \in Date, config'.next = config.next,
         Left' \subseteq Left, worker' \in {"enqueue", "complete"} => worker' = worker
  PROVE  FewLeft' /\ NotFarAhead'
<1>1. Left \in SUBSET Date /\ Left' \in SUBSET Left /\ Left' \in SUBSET Date
  BY DEF Left
<1>2. Cardinality(Left) \in Nat /\ Cardinality(Left') \in Nat
      /\ Cardinality(Left') <= Cardinality(Left)
  BY <1>1, Counting
<1>3. FewLeft'
  BY <1>2 DEF FewLeft
<1>4. ASSUME NEW t \in Date, now' <= t, t < config'.next,
             By(Left', t) # {} \/ worker' \in {"enqueue", "complete"}
      PROVE  config'.next + Cardinality(By(Left', t)) <= t + 1 + Mishaps'
  <2>1. By(Left', t) \in SUBSET By(Left, t) /\ By(Left, t) \in SUBSET Date
        /\ By(Left', t) \in SUBSET Date
    BY <1>1 DEF By
  <2>2. Cardinality(By(Left', t)) <= Cardinality(By(Left, t))
        /\ Cardinality(By(Left', t)) \in Nat /\ Cardinality(By(Left, t)) \in Nat
    BY <2>1, Counting
  <2>3. config.next + Cardinality(By(Left, t)) <= t + 1 + Mishaps
    BY <1>4, <2>1, Dates DEF NotFarAhead
  <2> QED
    BY <2>2, <2>3, Dates
<1> QED
  BY <1>3, <1>4 DEF NotFarAhead

\* The run of a due job moves the stored date on.
LEMMA Advances ==
  ASSUME FewLeft, NotFarAhead, now \in Nat, now' = now,
         Mishaps \in Nat, Mishaps' = Mishaps,
         config.next \in Nat, config'.next = config.next + 1, config'.next \in Date,
         run.job \in Left, run.job <= now, Left' = Left \ {run.job},
         worker = "advance", worker' = "enqueue"
  PROVE  FewLeft' /\ NotFarAhead'
<1> DEFINE j == run.job
<1>1. Left \in SUBSET Date /\ Left' \in SUBSET Date /\ j \in Nat
  BY Dates DEF Left
<1>2. Cardinality(Left) \in Nat /\ Cardinality(Left') = Cardinality(Left) - 1
  BY <1>1, Counting
<1>3. Cardinality(Left) <= 1 + Mishaps
  BY <1>2 DEF FewLeft
<1>4. FewLeft'
  BY <1>2, <1>3 DEF FewLeft
<1>5. ASSUME NEW t \in Date, now' <= t, t < config'.next
      PROVE  config'.next + Cardinality(By(Left', t)) <= t + 1 + Mishaps'
  <2>0. t \in Nat
    BY Dates
  <2>1. j \in By(Left, t) /\ By(Left', t) = By(Left, t) \ {j} /\ By(Left, t) \in SUBSET Date
        /\ By(Left', t) \in SUBSET Left'
    BY <1>1, <1>5, <2>0 DEF By
  <2>2. /\ Cardinality(By(Left, t)) \in Nat
        /\ Cardinality(By(Left', t)) = Cardinality(By(Left, t)) - 1
        /\ Cardinality(By(Left', t)) <= Cardinality(Left')
    BY <1>1, <2>1, Counting
  <2>3. CASE t < config.next
    <3>1. config.next + Cardinality(By(Left, t)) <= t + 1 + Mishaps
      BY <1>5, <2>1, <2>3 DEF NotFarAhead
    <3> QED
      BY <2>0, <2>2, <3>1
  <2>4. CASE t = config.next
    BY <1>2, <1>3, <2>0, <2>2, <2>4
  <2> QED
    BY <1>5, <2>0, <2>3, <2>4
<1> QED
  BY <1>4, <1>5 DEF NotFarAhead

\* The run queues the date it has stored.
LEMMA Enqueues ==
  ASSUME FewLeft, NotFarAhead, now \in Nat, now' = now,
         Mishaps \in Nat, Mishaps' = Mishaps,
         config.next \in Date, config'.next = config.next,
         Left' \subseteq Left \cup {config.next},
         worker = "enqueue", worker' = "complete"
  PROVE  FewLeft' /\ NotFarAhead'
<1>1. Left \in SUBSET Date /\ Left' \in SUBSET Date /\ Left' \in SUBSET (Left \cup {config.next})
  BY DEF Left
<1>2. Cardinality(Left) \in Nat /\ Cardinality(Left') \in Nat
      /\ Cardinality(Left') <= Cardinality(Left) + 1
  BY <1>1, Counting
<1>3. FewLeft'
  BY <1>2 DEF FewLeft
<1>4. ASSUME NEW t \in Date, now' <= t, t < config'.next
      PROVE  config'.next + Cardinality(By(Left', t)) <= t + 1 + Mishaps'
  <2>0. config.next \in Nat /\ t \in Nat /\ ~(config.next <= t)
    <3>1. config.next \in Nat /\ t \in Nat
      BY Dates
    <3> QED
      BY <1>4, <3>1
  <2>1. By(Left', t) \in SUBSET By(Left, t) /\ By(Left, t) \in SUBSET Date
        /\ By(Left', t) \in SUBSET Date
    BY <1>1, <2>0 DEF By
  <2>2. Cardinality(By(Left', t)) <= Cardinality(By(Left, t))
        /\ Cardinality(By(Left', t)) \in Nat /\ Cardinality(By(Left, t)) \in Nat
    BY <2>1, Counting
  <2>3. config.next + Cardinality(By(Left, t)) <= t + 1 + Mishaps
    BY <1>4 DEF NotFarAhead
  <2> QED
    BY <2>2, <2>3, Dates
<1> QED
  BY <1>3, <1>4 DEF NotFarAhead

\* A run that is lost after it has moved the date leaves its job: a mishap.
LEMMA RunsAgain ==
  ASSUME FewLeft, NotFarAhead, now \in Nat, now' = now,
         Mishaps \in Nat, Mishaps' = Mishaps + 1,
         config.next \in Date, config'.next = config.next, run.job \in Date,
         Left' \subseteq Left \cup {run.job, config.next},
         worker = "complete" => Left' \subseteq Left \cup {run.job},
         worker \in {"enqueue", "complete"}, worker' = "idle"
  PROVE  FewLeft' /\ NotFarAhead'
<1>1. Left \in SUBSET Date /\ Left' \in SUBSET Date
      /\ Left \cup {run.job} \in SUBSET Date
  BY DEF Left
<1>2. Cardinality(Left) \in Nat /\ Cardinality(Left \cup {run.job}) \in Nat
      /\ Cardinality(Left \cup {run.job}) <= Cardinality(Left) + 1
  BY <1>1, Counting
<1>3. FewLeft'
  <2>1. CASE worker = "enqueue"
    <3>1. Left' \in SUBSET ((Left \cup {run.job}) \cup {config.next})
      OBVIOUS
    <3>2. Cardinality(Left') \in Nat
          /\ Cardinality(Left') <= Cardinality(Left \cup {run.job}) + 1
      BY <1>1, <3>1, Counting
    <3> QED
      BY <1>2, <2>1, <3>2 DEF FewLeft
  <2>2. CASE worker = "complete"
    <3>1. Cardinality(Left') \in Nat /\ Cardinality(Left') <= Cardinality(Left) + 1
      BY <1>1, <2>2, Counting
    <3> QED
      BY <1>2, <2>2, <3>1 DEF FewLeft
  <2> QED
    BY <2>1, <2>2
<1>4. ASSUME NEW t \in Date, now' <= t, t < config'.next
      PROVE  config'.next + Cardinality(By(Left', t)) <= t + 1 + Mishaps'
  <2>0. config.next \in Nat /\ t \in Nat /\ ~(config.next <= t)
    <3>1. config.next \in Nat /\ t \in Nat
      BY Dates
    <3> QED
      BY <1>4, <3>1
  <2>1. By(Left', t) \in SUBSET (By(Left, t) \cup {run.job}) /\ By(Left, t) \in SUBSET Date
    BY <1>1, <2>0 DEF By
  <2>2. /\ Cardinality(By(Left', t)) <= Cardinality(By(Left, t)) + 1
        /\ Cardinality(By(Left', t)) \in Nat /\ Cardinality(By(Left, t)) \in Nat
    BY <2>1, Counting
  <2>3. config.next + Cardinality(By(Left, t)) <= t + 1 + Mishaps
    BY <1>4 DEF NotFarAhead
  <2>4. config.next \in Nat /\ t \in Nat
    BY Dates
  <2> QED
    BY <2>2, <2>3, <2>4
<1> QED
  BY <1>3, <1>4 DEF NotFarAhead

\* The first job.
LEMMA Begins ==
  ASSUME Mishaps \in Nat, Mishaps' \in Nat, config'.next \in Date,
         Left' \subseteq {config'.next}, worker' = "idle"
  PROVE  FewLeft' /\ NotFarAhead'
<1>1. {} \in SUBSET Date /\ Left' \in SUBSET ({} \cup {config'.next}) /\ Cardinality({}) = 0
  BY FS_EmptySet
<1>2. Cardinality(Left') \in Nat /\ Cardinality(Left') <= 1
  BY <1>1, Counting
<1>3. ASSUME NEW t \in Date, t < config'.next PROVE By(Left', t) = {}
  <2>0. config'.next \in Nat /\ t \in Nat
    BY Dates
  <2>1. ~(config'.next <= t)
    BY <1>3, <2>0
  <2> QED
    BY <2>1 DEF By
<1> QED
  BY <1>2, <1>3 DEF FewLeft, NotFarAhead

-----------------------------------------------------------------------------
\* The part of the invariant that says where the chain stands.
LEMMA NextStand ==
  ASSUME Shape, Shape', OnTrack, StillThere, Waiting, Repeating, InTime, [RepeatNext]_repeatVars
  PROVE  Waiting' /\ Repeating' /\ InTime'
<1> DEFINE Goal == Waiting' /\ Repeating' /\ InTime'
<1>0. /\ edits \in Nat /\ now \in Nat /\ start \in Nat
      /\ config \in Config \cup {Absent}
      /\ worker # "idle" => run.job \in Date
  BY DEF Shape, RepeatTypeOK
<1> USE DEF Waiting, Repeating, InTime, Repeats, Untouched, event
<1>1. ASSUME NEW s \in 0..MaxNow, NEW n \in 0..(Period - 1), CreateInsert(s, n) PROVE Goal
  <2>1. /\ config' = [repeats |-> TRUE, next |-> s + 1] /\ source' = "live" /\ start' = s
        /\ creating' = "reward" /\ UNCHANGED <<worker, jobs>>
    BY <1>1 DEF CreateInsert
  <2>2. worker = "idle" /\ \A d \in Date : jobs[d] = Absent
    BY <1>1 DEF CreateInsert, Shape, Fresh
  <2>3. config' # Absent
    <3>1. s + 1 \in Date
      BY Dates
    <3>2. config' \in Config
      BY <2>1, <3>1 DEF Config
    <3> QED
      BY <3>2
  <2> QED
    BY <2>1, <2>2, <2>3
<1>2. CASE CreateFollowUp \/ Pause \/ UNCHANGED repeatVars
  BY <1>2 DEF CreateFollowUp, Pause, repeatVars
<1>3. CASE CreateEnqueue
  BY <1>3 DEF CreateEnqueue
<1>4. ASSUME NEW d \in Date, RunLoad(d) PROVE Goal
  <2>1. /\ jobs[d] # Absent /\ d <= now /\ worker' # "idle" /\ worker' # "enqueue" /\ run'.job = d
        /\ UNCHANGED <<now, source, start, config, creating, edits>>
    BY <1>4 DEF RunLoad, Due
  <2>2. creating \in {"insert", "done"}
    BY <2>1 DEF Shape, RepeatTypeOK
  <2> QED
    BY <2>1, <2>2 DEF Shape, Fresh
<1>5. CASE RunLookup \/ RunClone
  BY <1>5 DEF RunLookup, RunClone, Shape, RepeatTypeOK, Fresh
<1>6. CASE RunAdvance
  <2>1. config \in Config /\ run.date \in Nat
    BY <1>0, <1>6, Dates DEF RunAdvance, Shape, RepeatTypeOK
  <2>2. config' # Absent /\ config'.repeats = config.repeats /\ config'.next = run.date + 1
    <3>1. run.date + 1 \in Date /\ config' = [config EXCEPT !.next = run.date + 1]
      BY <1>6, <2>1, Dates DEF RunAdvance, Shape, RepeatTypeOK
    <3>2. config' \in Config
      BY <2>1, <3>1 DEF Config
    <3> QED
      BY <2>1, <3>1, <3>2 DEF Config
  <2> QED
    BY <1>6, <2>2 DEF RunAdvance, Shape, RepeatTypeOK, Fresh
<1>7. CASE RunEnqueue \/ RunComplete \/ RunFail
  BY <1>7 DEF RunEnqueue, RunComplete, RunFail, Rest, Shape, RepeatTypeOK, Fresh
<1>8. CASE Crash
  BY <1>8 DEF Crash, Rest
<1>9. CASE \/ DeleteSource \/ (\E c \in Patches : PatchRule(c))
           \/ (\E d \in Date : DeleteClone(d))
  <2>1. edits' # 0
    BY <1>0, <1>9 DEF DeleteSource, PatchRule, DeleteClone, Edit
  <2>2. UNCHANGED <<now, creating, worker, run, jobs>>
    BY <1>9 DEF DeleteSource, PatchRule, DeleteClone
  <2> QED
    BY <2>1, <2>2
<1>10. CASE Tick
  <2>1. now' = now + 1
    BY <1>10 DEF Tick
  <2>2. worker # "idle" => run.job \in Nat /\ run.job <= now
    BY <1>0, Dates
  <2>3. worker # "idle" => run.job <= now'
    BY <1>0, <2>1, <2>2
  <2> QED
    BY <1>10, <2>3 DEF Tick
<1> QED
  BY <1>1, <1>2, <1>3, <1>4, <1>5, <1>6, <1>7, <1>8, <1>9, <1>10 DEF RepeatNext, Work

\* What a job that is added, put back or taken does to the runs left.
LEMMA AddLeaves ==
  ASSUME Shape, NEW d \in Date, Add(d)
  PROVE  \A e \in Date : jobs'[e] # Absent /\ jobs'[e].state = "delayed" =>
           e = d \/ (jobs[e] # Absent /\ jobs[e].state = "delayed")
BY DEF Add, Shape, RepeatTypeOK

LEMMA NextDrift ==
  ASSUME Shape, Shape', OnTrack, StillThere, DriftInv, [RepeatNext]_repeatVars
  PROVE  DriftInv'
<1>1. Waiting' /\ Repeating' /\ InTime'
  BY NextStand DEF DriftInv
<1> SUFFICES ASSUME Untouched', creating' # "insert"
             PROVE  FewLeft' /\ NotFarAhead'
  BY <1>1 DEF DriftInv
<1> DEFINE Goal == FewLeft' /\ NotFarAhead'
<1>2. /\ Mishaps \in Nat /\ Mishaps' \in Nat /\ Mishaps <= Mishaps'
      /\ (RunFail /\ worker \in {"enqueue", "complete"}) \/ Crash => Mishaps' = Mishaps + 1
  BY MishapsCount
<1>3. /\ now \in Nat /\ now' \in Nat /\ jobs \in [Date -> JobRow \cup {Absent}]
      /\ edits \in Nat
      /\ worker # "idle" => run.job \in Date
  BY DEF Shape, RepeatTypeOK
<1>4. Untouched
  BY <1>3 DEF Untouched, RepeatNext, Work, repeatVars, CreateInsert, CreateFollowUp, CreateEnqueue, RunLoad,
              RunLookup, RunClone, RunAdvance, RunEnqueue, RunComplete, RunFail, Crash,
              PatchRule, DeleteSource, DeleteClone, Tick, Pause, Edit
<1>5. ASSUME creating # "insert"
      PROVE  /\ FewLeft /\ NotFarAhead /\ Repeats /\ config # Absent
             /\ config.repeats /\ config.next \in Date
  <2>1. FewLeft /\ NotFarAhead /\ Repeats
    BY <1>4, <1>5 DEF DriftInv, Repeating
  <2>2. config.next \in Date
    BY <2>1 DEF Repeats, Shape, RepeatTypeOK, Config
  <2> QED
    BY <2>1, <2>2 DEF Repeats
<1>6. worker # "idle" => creating # "insert" /\ run.job <= now
  BY DEF Shape, Fresh, DriftInv, InTime
<1> HIDE DEF Goal
\* Steps that leave no more runs than there were.
<1>7. ASSUME creating # "insert", now <= now', config' = config, Left' \subseteq Left,
             worker' \in {"enqueue", "complete"} => worker' = worker
      PROVE  Goal
  BY <1>2, <1>3, <1>5, <1>7, StaysBehind DEF Goal
<1>8. ASSUME NEW s \in 0..MaxNow, NEW n \in 0..(Period - 1), CreateInsert(s, n) PROVE Goal
  <2>1. worker' = "idle" /\ Left' = {} /\ config'.next = s + 1
    BY <1>8 DEF CreateInsert, Shape, Fresh, Left
  <2>2. config'.next \in Date
    BY <2>1, Dates
  <2> QED
    BY <1>2, <2>1, <2>2, Begins DEF Goal
<1>9. ASSUME CreateFollowUp \/ Tick \/ Pause \/ UNCHANGED repeatVars PROVE Goal
  <2>1. creating # "insert" /\ now <= now' /\ UNCHANGED <<config, jobs, worker, run>>
    BY <1>3, <1>9 DEF CreateFollowUp, Tick, Pause, repeatVars
  <2>2. Left' = Left
    BY <2>1 DEF Left
  <2> QED
    BY <1>7, <2>1, <2>2
<1>10. ASSUME CreateEnqueue PROVE Goal
  <2>1. /\ UNCHANGED <<start, config, worker, run, now>> /\ creating = "enqueue"
        /\ jobs' = jobs \/ Add(start + 1)
    BY <1>10 DEF CreateEnqueue, event
  <2>2. worker = "idle" /\ config.next = start + 1 /\ \A d \in Date : jobs[d] = Absent
    BY <1>4, <2>1 DEF DriftInv, Waiting
  <2>3. config.next \in Date
    BY <1>5, <2>1
  <2>4. Left' \subseteq {config'.next}
    <3>1. CASE jobs' = jobs
      BY <2>1, <2>2, <3>1 DEF Left
    <3>2. CASE Add(start + 1)
      BY <2>1, <2>2, <2>3, <3>2, AddLeaves DEF Left
    <3> QED
      BY <2>1, <3>1, <3>2
  <2> QED
    BY <1>2, <2>1, <2>2, <2>3, <2>4, Begins DEF Goal
<1>11. ASSUME NEW d \in Date, RunLoad(d) PROVE Goal
  <2>1. /\ worker = "idle" /\ jobs[d] # Absent /\ jobs[d].state = "delayed"
        /\ jobs' = [jobs EXCEPT ![d] = Active(@)] /\ UNCHANGED <<config, now, creating>>
    BY <1>11 DEF RunLoad, Due
  <2>2. creating # "insert"
    BY <2>1 DEF Shape, Fresh
  <2>3. worker' = "lookup" /\ run'.job = d
    BY <1>5, <1>11, <2>2 DEF RunLoad
  <2>4. Active(jobs[d]).state = "active"
    BY DEF Active
  <2>5. Left' \subseteq Left
    BY <1>3, <2>1, <2>3, <2>4 DEF Left
  <2> QED
    BY <1>3, <1>7, <2>1, <2>2, <2>3, <2>5
<1>12. ASSUME RunLookup \/ RunClone PROVE Goal
  <2>1. UNCHANGED <<config, now, creating, jobs, run>>
        /\ worker \in {"lookup", "clone"} /\ worker' \in {"clone", "advance"}
    BY <1>12 DEF RunLookup, RunClone
  <2>2. Left' = Left
    BY <2>1 DEF Left
  <2> QED
    BY <1>3, <1>6, <1>7, <2>1, <2>2
<1>13. ASSUME RunAdvance PROVE Goal
  <2>1. /\ UNCHANGED <<now, creating, jobs, run>> /\ worker = "advance" /\ worker' = "enqueue"
        /\ UNCHANGED <<failures, crashes>> /\ run.date < Horizon
    BY <1>13 DEF RunAdvance
  <2>2. run.date = config.next /\ config.next \in Nat /\ creating # "insert"
    BY <1>4, <1>5, <1>6, <2>1, Dates DEF OnTrack
  <2>3. config'.next = config.next + 1 /\ config'.next \in Date
    <3>1. config \in Config /\ run.date \in Date
      BY <1>5, <1>6, <2>1 DEF Shape, RepeatTypeOK
    <3>2. config'.next = run.date + 1
      BY <1>13, <3>1 DEF RunAdvance, Config
    <3> QED
      BY <2>1, <2>2, <3>1, <3>2, Dates
  <2>4. run.job \in Left /\ jobs[run.job].state = "active" /\ run.job \in Date
    BY <2>1, RunsItsJob DEF Left
  <2>5. Left' = Left \ {run.job}
    BY <2>1, <2>4 DEF Left
  <2> QED
    BY <1>2, <1>3, <1>5, <1>6, <2>1, <2>2, <2>3, <2>4, <2>5, Advances DEF Goal, Mishaps
<1>14. ASSUME RunEnqueue PROVE Goal
  <2>1. /\ UNCHANGED <<now, creating, run, config>> /\ worker = "enqueue" /\ worker' = "complete"
        /\ UNCHANGED <<failures, crashes>> /\ Add(run.date + 1)
    BY <1>14 DEF RunEnqueue
  <2>2. config.next = run.date + 1 /\ config.next \in Date
    BY <1>4, <1>5, <1>6, <2>1 DEF DriftInv, InTime
  <2>3. Left' \subseteq Left \cup {config.next}
    BY <2>1, <2>2, AddLeaves DEF Left
  <2> QED
    BY <1>2, <1>3, <1>5, <1>6, <2>1, <2>2, <2>3, Enqueues DEF Goal, Mishaps
<1>15. ASSUME RunComplete PROVE Goal
  <2>1. /\ worker = "complete" /\ worker' = "idle" /\ jobs' = [jobs EXCEPT ![run.job] = Absent]
        /\ UNCHANGED <<now, creating, config>>
    BY <1>15 DEF RunComplete, Rest
  <2>2. Left' \subseteq Left
    BY <1>3, <2>1 DEF Left
  <2> QED
    BY <1>3, <1>6, <1>7, <2>1, <2>2
\* A run that is lost before it has moved the date is as good as not begun.
<1>16. ASSUME RunFail \/ Crash, worker \in {"lookup", "clone", "advance"} PROVE Goal
  <2>1. /\ worker' = "idle" /\ UNCHANGED <<now, config>>
        /\ \E j : jobs' = [jobs EXCEPT ![run.job] = j]
    BY <1>16 DEF RunFail, Crash, Rest
  <2>2. run.job \in Left
    BY <1>3, <1>16 DEF Left
  <2>3. Left' \subseteq Left
    BY <1>3, <2>1, <2>2 DEF Left
  <2> QED
    BY <1>3, <1>6, <1>7, <1>16, <2>1, <2>3
<1>17. ASSUME RunFail \/ Crash, worker \in {"enqueue", "complete"} PROVE Goal
  <2>1. /\ worker' = "idle" /\ UNCHANGED <<now, config>> /\ run'.job = Absent
        /\ Mishaps' = Mishaps + 1 /\ creating # "insert"
    BY <1>2, <1>6, <1>17 DEF RunFail, Crash, Rest
  <2>2. run.job \in Date /\ config.next \in Date
        /\ (worker = "enqueue" => config.next = run.date + 1)
    BY <1>3, <1>4, <1>5, <1>17, <2>1 DEF DriftInv, InTime
  <2>3. \/ \E j : jobs' = [jobs EXCEPT ![run.job] = j]
        \/ worker = "enqueue" /\ \E i, j : jobs' = [jobs EXCEPT ![run.job] = j, ![config.next] = i]
    BY <1>17, <2>2 DEF RunFail, Crash
  <2>4. /\ Left' \subseteq Left \cup {run.job, config.next}
        /\ worker = "complete" => Left' \subseteq Left \cup {run.job}
    BY <1>3, <2>1, <2>3 DEF Left
  <2> QED
    BY <1>2, <1>3, <1>5, <1>17, <2>1, <2>2, <2>4, RunsAgain DEF Goal
<1>18. ASSUME Crash /\ worker = "idle" PROVE Goal
  <2>1. worker' = "idle" /\ UNCHANGED <<now, config, jobs>>
    BY <1>18 DEF Crash, Rest
  <2>2. creating # "insert"
    BY <1>18 DEF Crash
  <2>3. Left' \subseteq Left
    BY <1>18, <2>1 DEF Left
  <2> QED
    BY <1>3, <1>7, <2>1, <2>2, <2>3
<1>19. ASSUME \/ DeleteSource \/ (\E c \in Patches : PatchRule(c))
              \/ (\E d \in Date : DeleteClone(d))
       PROVE  Goal
  BY <1>3, <1>19 DEF DeleteSource, PatchRule, DeleteClone, Edit, Untouched
<1>20. worker \in {"idle", "lookup", "clone", "advance", "enqueue", "complete"}
       /\ (RunFail => worker # "idle")
  BY DEF Shape, RepeatTypeOK, RunFail
<1>21. Goal
  BY <1>8, <1>9, <1>10, <1>11, <1>12, <1>13, <1>14, <1>15, <1>16, <1>17, <1>18, <1>19, <1>20
     DEF RepeatNext, Work
<1> QED
  BY <1>21 DEF Goal

\* A copy is made for the stored date while the job of its run is left.
LEMMA CloneInTime ==
  ASSUME RepeatInv, DriftInv, RunClone, Untouched
  PROVE  run.date <= now + failures + crashes
<1>1. /\ worker = "clone" /\ run.job \in Date /\ run.date \in Nat /\ now \in Date /\ now \in Nat
      /\ failures \in Nat /\ crashes \in Nat
  <2>1. worker = "clone" /\ Shape
    BY DEF RunClone, RepeatInv
  <2>2. run.job \in Date /\ run.date \in Date
    BY <2>1, RunsItsJob DEF Shape, RepeatTypeOK
  <2>3. now \in 0..(MaxNow + 1) /\ failures \in Nat /\ crashes \in Nat
    BY <2>1 DEF Shape, RepeatTypeOK
  <2> QED
    BY <2>1, <2>2, <2>3, Dates
<1>2. run.job <= now /\ run.date = config.next /\ NotFarAhead
  BY <1>1 DEF RepeatInv, Shape, Fresh, OnTrack, DriftInv, InTime
<1>3. run.job \in By(Left, now) /\ By(Left, now) \in SUBSET Date
  BY <1>1, <1>2 DEF Left, By
<1>4. Cardinality(By(Left, now)) \in Nat /\ Cardinality(By(Left, now)) >= 1
  BY <1>3, Counting
<1>5. CASE now < config.next
  <2>1. config.next + Cardinality(By(Left, now)) <= now + 1 + Mishaps
    BY <1>1, <1>2, <1>3, <1>5 DEF NotFarAhead
  <2> QED
    BY <1>1, <1>2, <1>4, <2>1 DEF Mishaps
<1>6. CASE ~(now < config.next)
  BY <1>1, <1>2, <1>6
<1> QED
  BY <1>5, <1>6

\* As long as no user edits or deletes, a copy is made before its date only by
\* as many intervals as calls have failed and processes have stopped.
THEOREM EarlyTheorem == RepeatSpec => EarlyByReruns
<1> DEFINE Step ==
      \A d \in Date : Untouched /\ clones'[d] > clones[d] => d <= now + failures + crashes
<1>1. RepeatInit => DriftInv
  BY DEF RepeatInit, DriftInv, Waiting, Repeating, InTime
<1>2. RepeatInv /\ RepeatInv' /\ DriftInv /\ [RepeatNext]_repeatVars => DriftInv'
  BY NextDrift DEF RepeatInv
<1>3. RepeatInv /\ DriftInv /\ [RepeatNext]_repeatVars => [Step]_repeatVars
  <2> SUFFICES ASSUME RepeatInv, DriftInv, RepeatNext, NEW d \in Date, Untouched, clones'[d] > clones[d]
               PROVE  d <= now + failures + crashes
    OBVIOUS
  <2>1. clones \in [Date -> Nat]
    BY DEF RepeatInv, Shape, RepeatTypeOK
  <2>2. RunClone
    <3>1. clones' # clones /\ \A c \in Date : ~DeleteClone(c)
      BY <2>1 DEF DeleteClone
    <3> QED
      BY <3>1 DEF RepeatNext, Work, CreateInsert, CreateFollowUp, CreateEnqueue, RunLoad, RunLookup,
                  RunAdvance, RunEnqueue, RunComplete, RunFail, Crash, PatchRule,
                  DeleteSource, Tick, Pause
  <2>3. d = run.date
    BY <2>1, <2>2 DEF RunClone
  <2> QED
    BY <2>2, <2>3, CloneInTime
<1> QED
  BY <1>1, <1>2, <1>3, RepeatInvariance, PTL DEF RepeatSpec, EarlyByReruns

-----------------------------------------------------------------------------
(* The chain keeps a job.  The next job is queued before the one that ran  *)
(* is removed, and they are two jobs because a job is for no later date    *)
(* than the one its run generates.                                         *)

NextQueued ==
  Untouched =>
    /\ \A d \in Date : jobs[d] # Absent => config # Absent /\ d <= config.next
    /\ worker # "idle" => run.date \in Date /\ run.job <= run.date
    /\ worker = "complete" => run.date + 1 \in Date /\ jobs[run.date + 1] # Absent

\* Every step keeps it.
LEMMA QueueStep ==
  ASSUME Shape, Shape', OnTrack, Waiting, Repeating, InTime, NextQueued, [RepeatNext]_repeatVars
  PROVE  NextQueued'
<1> DEFINE Goal == NextQueued'
<1>0. /\ edits \in Nat /\ start \in Nat /\ jobs \in [Date -> JobRow \cup {Absent}]
      /\ config \in Config \cup {Absent}
      /\ worker # "idle" => run.job \in Date /\ run.job \in Nat
      /\ config # Absent /\ config.repeats => config.next \in Date /\ config.next \in Nat
  <2>1. /\ edits \in Nat /\ start \in Nat /\ jobs \in [Date -> JobRow \cup {Absent}]
        /\ config \in Config \cup {Absent} /\ (worker # "idle" => run.job \in Date)
    BY DEF Shape, RepeatTypeOK
  <2>2. config # Absent /\ config.repeats => config.next \in Date
    BY <2>1 DEF Config
  <2> QED
    BY <2>1, <2>2, Dates
<1>1. ASSUME NEW s \in 0..MaxNow, NEW n \in 0..(Period - 1), CreateInsert(s, n) PROVE Goal
  <2>1. worker = "idle" /\ \A d \in Date : jobs[d] = Absent
    BY <1>1 DEF CreateInsert, Shape, Fresh
  <2> QED
    BY <1>1, <2>1 DEF CreateInsert, NextQueued
<1>2. CASE CreateFollowUp \/ Tick \/ Pause \/ UNCHANGED repeatVars
  BY <1>2 DEF CreateFollowUp, Tick, Pause, repeatVars, NextQueued, Untouched
<1>3. CASE CreateEnqueue
  <2>1. worker = "idle" /\ UNCHANGED <<worker, config, edits>>
        /\ (Untouched => config # Absent /\ config.next = start + 1)
    BY <1>3 DEF CreateEnqueue, Waiting
  <2>2. \A d \in Date : jobs'[d] # Absent => jobs[d] # Absent \/ d = start + 1
    BY <1>0, <1>3 DEF CreateEnqueue, Add
  <2> QED
    BY <1>0, <2>1, <2>2 DEF NextQueued, Untouched
<1>4. ASSUME NEW d \in Date, RunLoad(d) PROVE Goal
  <2>1. /\ jobs[d] # Absent /\ UNCHANGED <<config, edits>>
        /\ \A e \in Date : jobs'[e] # Absent => jobs[e] # Absent
    BY <1>0, <1>4 DEF RunLoad, Due
  <2>2. creating # "insert"
    BY <2>1 DEF Shape, Fresh
  <2>3. Untouched => Repeats
    BY <2>2 DEF Repeating
  <2>4. Untouched => run' = [job |-> d, date |-> config.next] /\ worker' = "lookup"
    BY <1>4, <2>3 DEF RunLoad, Anchor
  <2>5. Untouched => d <= config.next /\ config.next \in Date
    BY <1>0, <2>1, <2>3 DEF NextQueued, Repeats
  <2> QED
    BY <2>1, <2>4, <2>5 DEF NextQueued, Untouched
<1>5. CASE RunLookup \/ RunClone
  BY <1>5 DEF RunLookup, RunClone, NextQueued, Untouched
<1>6. CASE RunAdvance
  <2>1. /\ config \in Config /\ config' = [config EXCEPT !.next = run.date + 1]
        /\ worker = "advance" /\ worker' = "enqueue" /\ run.date < Horizon
        /\ UNCHANGED <<edits, jobs, run, creating>>
    BY <1>0, <1>6 DEF RunAdvance
  <2>2. creating # "insert"
    BY <2>1 DEF Shape, Fresh
  <2>3. Untouched => /\ config.next = run.date /\ run.date \in Date /\ run.date \in Nat
                     /\ run.date + 1 \in Date
    BY <2>1, Dates DEF OnTrack, NextQueued
  <2>4. Untouched => config' # Absent /\ config'.next = run.date + 1
    <3>1. ASSUME Untouched PROVE config' \in Config /\ config'.next = run.date + 1
      BY <2>1, <2>3, <3>1 DEF Config
    <3> QED
      BY <3>1, NoneAssumption
  <2>5. ASSUME Untouched, NEW e \in Date, jobs[e] # Absent PROVE e <= run.date + 1
    <3>1. e <= run.date /\ e \in Nat /\ run.date \in Nat
      BY <2>3, <2>5, Dates DEF NextQueued
    <3> QED
      BY <3>1
  <2> QED
    BY <2>1, <2>3, <2>4, <2>5 DEF NextQueued, Untouched
<1>7. CASE RunEnqueue
  <2>1. /\ worker = "enqueue" /\ worker' = "complete" /\ Add(run.date + 1)
        /\ run.date < Horizon /\ run.date \in Date
        /\ UNCHANGED <<config, edits, run>>
    BY <1>7 DEF RunEnqueue, Shape, RepeatTypeOK
  <2>2. run.date + 1 \in Date /\ run.date + 1 \in Nat
    BY <2>1, Dates
  <2>3. /\ jobs'[run.date + 1] # Absent
        /\ \A e \in Date : jobs'[e] # Absent => jobs[e] # Absent \/ e = run.date + 1
    BY <1>0, <2>1, <2>2, NoneAssumption DEF Add, JobRow, Attempts, MaxStalls
  <2>4. Untouched => config.next = run.date + 1 /\ config # Absent
    <3>1. jobs[run.job] # Absent /\ run.job \in Date
      BY <2>1, RunsItsJob, NoneAssumption
    <3> QED
      BY <2>1, <3>1 DEF InTime, NextQueued
  <2> QED
    BY <2>1, <2>2, <2>3, <2>4 DEF NextQueued, Untouched
<1>8. CASE RunComplete
  <2>1. /\ worker' = "idle" /\ UNCHANGED <<config, edits>>
        /\ \A e \in Date : jobs'[e] # Absent => jobs[e] # Absent
    BY <1>0, <1>8 DEF RunComplete, Rest
  <2> QED
    BY <2>1 DEF NextQueued, Untouched
<1>9. CASE RunFail \/ Crash
  <2>1. worker' = "idle" /\ UNCHANGED <<config, edits>>
    BY <1>9 DEF RunFail, Crash, Rest
  <2>2. worker # "idle" => jobs[run.job] # Absent
    BY RunsItsJob, NoneAssumption
  <2>3. \A e \in Date : jobs'[e] # Absent => jobs[e] # Absent \/ (worker = "enqueue" /\ e = run.date + 1)
    BY <1>0, <1>9, <2>2 DEF RunFail, Crash
  <2>4. Untouched /\ worker = "enqueue" => config.next = run.date + 1 /\ config # Absent
    BY <1>0, <2>2 DEF InTime, NextQueued
  <2>5. worker = "enqueue" => run.date \in Nat
    BY Dates DEF Shape, RepeatTypeOK
  <2> QED
    BY <2>1, <2>3, <2>4, <2>5 DEF NextQueued, Untouched
<1>10. CASE \/ DeleteSource \/ (\E c \in Patches : PatchRule(c))
            \/ (\E d \in Date : DeleteClone(d))
  <2>1. edits' # 0
    BY <1>0, <1>10 DEF DeleteSource, PatchRule, DeleteClone, Edit
  <2> QED
    BY <2>1 DEF NextQueued, Untouched
<1> QED
  BY <1>1, <1>2, <1>3, <1>4, <1>5, <1>6, <1>7, <1>8, <1>9, <1>10 DEF RepeatNext, Work

\* Only the job that ran leaves the queue, after the next one has entered it.
LEMMA JobStays ==
  ASSUME Shape, NextQueued, Untouched, RepeatNext, NEW d \in Date, jobs[d] # Absent
  PROVE  \E e \in Date : jobs'[e] # Absent
<1>0. jobs \in [Date -> JobRow \cup {Absent}] /\ jobs[d] \in JobRow
  BY DEF Shape, RepeatTypeOK
<1>1. CASE RunComplete
  <2>1. run.date + 1 \in Date /\ jobs[run.date + 1] # Absent /\ run.job <= run.date
        /\ run.job \in Date /\ run.date \in Date
    BY <1>1, RunsItsJob DEF RunComplete, NextQueued
  <2>2. run.date + 1 # run.job
    BY <2>1, Dates
  <2>3. jobs'[run.date + 1] = jobs[run.date + 1]
    BY <1>0, <1>1, <2>1, <2>2 DEF RunComplete
  <2> QED
    BY <2>1, <2>3
<1>2. CASE RunFail \/ Crash
  <2>1. worker # "idle" => /\ run.job \in Date /\ Retry(jobs[run.job]) \in JobRow
                           /\ Stalled(jobs[run.job]) \in JobRow
    BY RunsItsJob, PutBack
  <2>2. jobs' # jobs => worker # "idle" /\ jobs'[run.job] \in JobRow
    <3>1. CASE RunFail
      <4>1. worker \in {"lookup", "clone", "advance", "enqueue"}
        BY <3>1 DEF RunFail
      <4>2. worker # "idle"
        BY <4>1
      <4>3. jobs'[run.job] = Retry(jobs[run.job])
        <5>1. CASE jobs' = [jobs EXCEPT ![run.job] = Retry(@)]
          BY <1>0, <2>1, <4>2, <5>1
        <5>2. CASE /\ worker = "enqueue" /\ jobs[run.date + 1] = Absent
                   /\ jobs' = [jobs EXCEPT
                                 ![run.job] = Retry(@),
                                 ![run.date + 1] = [state |-> "delayed", tries |-> 0, stalls |-> 0]]
          <6>1. run.date + 1 # run.job
            BY <4>2, <5>2, RunsItsJob
          <6> QED
            BY <1>0, <2>1, <4>2, <5>2, <6>1
        <5> QED
          BY <3>1, <5>1, <5>2 DEF RunFail
      <4> QED
        BY <2>1, <4>2, <4>3
    <3>2. CASE Crash
      BY <1>0, <2>1, <3>2 DEF Crash
    <3> QED
      BY <1>2, <3>1, <3>2
  <2> QED
    BY <2>1, <2>2
<1>3. ASSUME NEW c \in Date, RunLoad(c) PROVE jobs'[d] # Absent
  <2>1. Active(jobs[c]) \in JobRow
    BY <1>0, <1>3 DEF RunLoad, Due, Active, JobRow
  <2> QED
    BY <1>0, <1>3, <2>1 DEF RunLoad
<1>4. ASSUME NEW c \in Date, Add(c) PROVE jobs'[d] # Absent
  BY <1>0, <1>4 DEF Add
<1>5. CASE CreateEnqueue
  <2>1. start + 1 \in Date
    BY Dates DEF Shape, RepeatTypeOK
  <2> QED
    BY <1>4, <1>5, <2>1 DEF CreateEnqueue
<1>6. CASE RunEnqueue
  <2>1. run.date + 1 \in Date
    BY <1>6, Dates DEF RunEnqueue, Shape, RepeatTypeOK
  <2> QED
    BY <1>4, <1>6, <2>1 DEF RunEnqueue
<1>7. CASE UNCHANGED jobs
  BY <1>7
<1> QED
  BY <1>1, <1>2, <1>3, <1>5, <1>6, <1>7
     DEF RepeatNext, Work, CreateInsert, CreateFollowUp, RunLookup, RunClone, RunAdvance,
         PatchRule, DeleteSource, DeleteClone, Tick, Pause

\* Until users intervene or a job is given up, the chain keeps a job in the queue, for
\* no later date than the stored one, whatever calls fail and wherever the process stops
\* (generateNextRepeatedEvent queues the next date before its own job ends).
THEOREM ChainTheorem == RepeatSpec => ChainKept
<1> DEFINE Inv == RepeatInv /\ DriftInv /\ NextQueued
<1>1. RepeatInit => Inv
  BY InitInvariant
     DEF RepeatInit, DriftInv, Waiting, Repeating, InTime, NextQueued
<1>2. Inv /\ RepeatInv' /\ [RepeatNext]_repeatVars => Inv'
  BY NextDrift, QueueStep DEF RepeatInv, DriftInv
<1>3. Inv /\ Inv' /\ [RepeatNext]_repeatVars =>
        [Untouched' /\ (\E d \in Date : Pending(d)) =>
           GivenUp' \/ \E d \in Date : Pending(d)' /\ d <= config'.next]_repeatVars
  <2> SUFFICES ASSUME Inv, Inv', RepeatNext, Untouched', NEW d \in Date, Pending(d), ~GivenUp'
               PROVE  \E e \in Date : Pending(e)' /\ e <= config'.next
    OBVIOUS
  <2>1. Untouched
    <3>1. edits \in Nat
      BY DEF RepeatInv, Shape, RepeatTypeOK
    <3>2. edits' = edits \/ edits' = edits + 1
      BY DEF RepeatNext, Work, CreateInsert, CreateFollowUp, CreateEnqueue, RunLoad, RunLookup,
             RunClone, RunAdvance, RunEnqueue, RunComplete, RunFail, Crash, PatchRule,
             DeleteSource, DeleteClone, Tick, Pause, Edit
    <3> QED
      BY <3>1, <3>2 DEF Untouched
  <2>2. PICK e \in Date : jobs'[e] # Absent
    BY <2>1, JobStays DEF Pending, RepeatInv
  <2>3. jobs'[e] \in JobRow
    BY <2>2 DEF RepeatInv, Shape, RepeatTypeOK
  <2>4. jobs'[e].state # "failed"
    BY <2>2 DEF GivenUp
  <2>5. Pending(e)'
    BY <2>2, <2>3, <2>4 DEF Pending, JobRow
  <2>6. e <= config'.next
    BY <2>2 DEF NextQueued
  <2> QED
    BY <2>5, <2>6
<1> QED
  BY <1>1, <1>2, <1>3, RepeatInvariance, PTL DEF RepeatSpec, ChainKept
=============================================================================
