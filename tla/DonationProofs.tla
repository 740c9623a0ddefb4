--------------------------- MODULE DonationProofs ---------------------------
(***************************************************************************)
(* Proofs about Donation and Notification for any sets of users, donors,   *)
(* tokens, runners and concurrent requests, any bounds and any number of   *)
(* failing calls and restarts.                                             *)
(*                                                                         *)
(* The argument: a job is added only by the request that has created its   *)
(* row (InRequest), so a job that was done is not run again and its device *)
(* gets the notification once per stop of the process (Pushes); and the    *)
(* row a webhook notifies with is about its own event (InRequest), so that *)
(* it may be acknowledged.  Whoever reads the unread count of a user last  *)
(* either still carries it or has emitted it (InOrder), so that without    *)
(* mishaps a badge is wrong only if its count was outrun by another.       *)
(***************************************************************************)
EXTENDS Donation, SequenceTheorems, FiniteSetTheorems, TLAPS

-----------------------------------------------------------------------------
(* The inductive invariant.                                                *)

\* Jobs have attempts left until they are over.
Attempting ==
  /\ NoteTypeOK
  /\ \A n \in Note : jobs[n] \in {"none", "waiting", "active"} => tries[n] < Attempts

\* What holds while the request of w is in flight.
InRequest(w) ==
  /\ pc[w] \in {"find", "insert"} => job[w].op = "create" /\ job[w].user \in Donor
  /\ pc[w] \in {"match", "update"} => job[w].op = "webhook"
  /\ pc[w] \in {"row", "queue", "count"} /\ job[w].op = "create" => Admin # None
  /\ pc[w] # "idle" /\ job[w].op = "webhook" =>
       /\ job[w].event \in 1..Len(events)
       /\ pc[w] = "update" => NextStatus(events[job[w].event].kind) # None
       /\ pc[w] \in {"update", "row"} => job[w].matched \in 1..Len(rows)
       /\ pc[w] \in {"queue", "count", "emit"} =>
            notes[job[w].note].about = job[w].event /\ notes[job[w].note].to \in Donor
  /\ pc[w] = "queue" => jobs[job[w].note] = "none"
  /\ pc[w] \in {"count", "emit"} => jobs[job[w].note] # "none"

InFlightInv ==
  /\ \A w \in Worker : InRequest(w)
  /\ \A v, w \in Worker :
       v # w /\ pc[v] = "queue" /\ pc[w] = "queue" => job[v].note # job[w].note
  /\ \A k \in 1..Len(events) : events[k].known => rows # <<>>

\* A job that is still to be done has pushed once per stop at most.
Pushes ==
  /\ \A n \in Note :
       /\ jobs[n] = "none" => pushed[n] = 0
       /\ jobs[n] = "waiting" => pushed[n] <= crashes
       /\ pushed[n] <= 1 + crashes
  /\ \A r \in Runner :
       run[r] # None /\ run[r].at # "complete" => pushed[run[r].note] <= crashes

Counted == crashes <= faults

IInv ==
  TypeOK /\ Attempting /\ InFlightInv /\ Pushes /\ Counted /\ AckedSuccessIsAnnounced

-----------------------------------------------------------------------------
(* Notification's own steps: the recipients' requests and the worker.      *)

\* Rows keep their recipient and subject, and only a request adds a job.
NotesStay ==
  /\ Len(notes') = Len(notes)
  /\ \A n \in 1..Len(notes) : notes'[n].to = notes[n].to /\ notes'[n].about = notes[n].about
  /\ \A n \in Note : jobs'[n] = "none" <=> jobs[n] = "none"

LEMMA NoteRows ==
  ASSUME NoteTypeOK
  PROVE  /\ Len(notes) \in Nat /\ 1..Len(notes) \subseteq Note
         /\ \A n \in 1..Len(notes) : notes[n] \in NoteRow /\ notes[n].to \in User
         /\ notes = [n \in 1..Len(notes) |-> notes[n]]
<1>1. Len(notes) \in Nat /\ notes \in [1..Len(notes) -> NoteRow]
  BY LenProperties DEF NoteTypeOK
<1>2. 1..Len(notes) \subseteq Note
  BY <1>1, NotificationAssumption DEF NoteTypeOK, Note
<1>3. \A n \in 1..Len(notes) : notes[n] \in NoteRow /\ notes[n].to \in User
  BY <1>1 DEF NoteRow
<1>4. notes = [n \in 1..Len(notes) |-> notes[n]]
  BY <1>1
<1> QED
  BY <1>1, <1>2, <1>3, <1>4

\* A run is of a row.
LEMMA RunRows ==
  ASSUME Attempting, NEW r \in Runner, run[r] # None
  PROVE  /\ run[r] \in Run /\ run[r].note \in Note /\ run[r].note \in 1..Len(notes)
         /\ jobs[run[r].note] = "active" /\ To(r) \in User
         /\ tries[run[r].note] < Attempts /\ tries[run[r].note] \in Nat
<1>1. run[r] \in Run /\ run[r].note \in Note
  BY DEF Attempting, NoteTypeOK, Run
<1>2. jobs[run[r].note] = "active"
  BY DEF Attempting, NoteTypeOK
<1>3. run[r].note \in 1..Len(notes)
  BY <1>1, <1>2, NoteRows DEF Attempting, NoteTypeOK, Note
<1>4. tries[run[r].note] < Attempts /\ tries[run[r].note] \in Nat
  BY <1>1, <1>2 DEF Attempting, NoteTypeOK
<1> QED
  BY <1>1, <1>2, <1>3, <1>4, NoteRows DEF Attempting, To

\* The variables of the badge.
BadgeTypes ==
  /\ mark \in [User -> Mark \cup {None}]
  /\ shown \in [User -> Nat]
  /\ latest \in [User -> Actor \cup {None}] /\ outrun \subseteq User

LEMMA UnreadCounts ==
  ASSUME NoteTypeOK, NEW u \in User
  PROVE  Unread(u) \in Nat
<1>1. IsFiniteSet(1..Len(notes))
  <2>1. 1 \in Int /\ Len(notes) \in Int
    BY NoteRows
  <2> QED
    BY <2>1, FS_Interval
<1>2. IsFiniteSet({n \in 1..Len(notes) : notes[n].to = u /\ ~notes[n].read})
  BY <1>1, FS_Subset
<1> QED
  BY <1>2, FS_CardinalityType DEF Unread

\* Reading a count and emitting one keep the types.
LEMMA EmitsTyped ==
  ASSUME NoteTypeOK, NEW u \in User, NEW by \in Actor, NEW count \in Nat,
         Count(u, by) \/ Emit(u, by, count)
  PROVE  shown' \in [User -> Nat] /\ latest' \in [User -> Actor \cup {None}] /\ outrun' \subseteq User
<1>1. CASE Count(u, by)
  BY <1>1 DEF Count, NoteTypeOK
<1>2. CASE Emit(u, by, count)
  BY <1>2 DEF Emit, NoteTypeOK
<1> QED
  BY <1>1, <1>2

\* What a request of the recipient's app does.
AppStep(u) ==
  \/ MarkAllRead(u) \/ (\E n \in Note : MarkRead(u, n)) \/ GetMyNotifications(u)
  \/ MarkCount(u) \/ MarkEmit(u) \/ MarkFail(u)

LEMMA MarksTyped ==
  ASSUME Attempting, NEW u \in User, AppStep(u)
  PROVE  Attempting' /\ NotesStay /\ faults \in Nat /\ faults' \in Nat /\ faults <= faults'
<1>0. <<"app", u>> \in Actor
  BY DEF Actor
<1>1. UNCHANGED <<jobs, tries, run, pushed, token, dead>>
  BY DEF AppStep, MarkAllRead, MarkRead, GetMyNotifications, MarkCount, MarkEmit, MarkFail,
         queueVars, unchangedByMark
<1>2. faults' \in 0..MaxFaults /\ faults \in Nat /\ faults' \in Nat /\ faults <= faults'
  <2>1. faults' = faults \/ Fails
    BY DEF AppStep, MarkAllRead, MarkRead, GetMyNotifications, MarkCount, MarkEmit, MarkFail
  <2> QED
    BY <2>1, NotificationAssumption DEF Fails, Attempting, NoteTypeOK
<1>3. BadgeTypes'
  <2>1. CASE MarkAllRead(u) \/ (\E n \in Note : MarkRead(u, n)) \/ GetMyNotifications(u) \/ MarkFail(u)
    <3>1. UNCHANGED badgeVars
      BY <2>1 DEF MarkAllRead, MarkRead, GetMyNotifications, MarkFail
    <3>2. [at |-> "count", count |-> 0] \in Mark
      BY DEF Mark
    <3>3. mark' \in [User -> Mark \cup {None}]
      BY <2>1, <3>2 DEF MarkAllRead, MarkRead, GetMyNotifications, MarkFail, ThenCount, Attempting,
                        NoteTypeOK
    <3> QED
      BY <3>1, <3>3 DEF badgeVars, BadgeTypes, Attempting, NoteTypeOK
  <2>2. CASE MarkCount(u)
    <3>1. [at |-> "badge", count |-> Unread(u)] \in Mark
      BY UnreadCounts DEF Mark, Attempting
    <3>2. mark' \in [User -> Mark \cup {None}]
      BY <2>2, <3>1 DEF MarkCount, Attempting, NoteTypeOK
    <3> QED
      BY <1>0, <2>2, <3>2, EmitsTyped DEF MarkCount, BadgeTypes, Attempting
  <2>3. CASE MarkEmit(u)
    <3>1. mark[u].count \in Nat
      BY <2>3 DEF MarkEmit, Attempting, NoteTypeOK, Mark
    <3>2. mark' \in [User -> Mark \cup {None}]
      BY <2>3 DEF MarkEmit, Attempting, NoteTypeOK
    <3> QED
      BY <1>0, <2>3, <3>1, <3>2, EmitsTyped DEF MarkEmit, BadgeTypes, Attempting
  <2> QED
    BY <2>1, <2>2, <2>3 DEF AppStep
<1>4. /\ notes' \in Seq(NoteRow) /\ Len(notes') = Len(notes)
      /\ \A m \in 1..Len(notes) : notes'[m].to = notes[m].to /\ notes'[m].about = notes[m].about
  <2>1. CASE MarkAllRead(u)
    <3>1. notes' = [m \in 1..Len(notes) |->
                      IF notes[m].to = u THEN [notes[m] EXCEPT !.read = TRUE] ELSE notes[m]]
      BY <2>1 DEF MarkAllRead, AllMarked
    <3>2. \A m \in 1..Len(notes) :
            /\ (IF notes[m].to = u THEN [notes[m] EXCEPT !.read = TRUE] ELSE notes[m]) \in NoteRow
            /\ [notes[m] EXCEPT !.read = TRUE].to = notes[m].to
            /\ [notes[m] EXCEPT !.read = TRUE].about = notes[m].about
      BY NoteRows DEF NoteRow, Attempting
    <3> QED
      BY <3>1, <3>2, NoteRows DEF Attempting
  <2>2. ASSUME NEW n \in Note, MarkRead(u, n)
        PROVE  /\ notes' \in Seq(NoteRow) /\ Len(notes') = Len(notes)
               /\ \A m \in 1..Len(notes) :
                    notes'[m].to = notes[m].to /\ notes'[m].about = notes[m].about
    <3>1. n \in 1..Len(notes) /\ notes' = [notes EXCEPT ![n] = [notes[n] EXCEPT !.read = TRUE]]
      BY <2>2 DEF MarkRead
    <3>2. /\ [notes[n] EXCEPT !.read = TRUE] \in NoteRow
          /\ [notes[n] EXCEPT !.read = TRUE].to = notes[n].to
          /\ [notes[n] EXCEPT !.read = TRUE].about = notes[n].about
      BY <3>1, NoteRows DEF NoteRow, Attempting
    <3> QED
      BY <3>1, <3>2, NoteRows DEF Attempting, NoteTypeOK
  <2>3. CASE notes' = notes
    BY <2>3 DEF Attempting, NoteTypeOK
  <2> QED
    BY <2>1, <2>2, <2>3 DEF AppStep, GetMyNotifications, MarkCount, MarkEmit, MarkFail
<1>5. Attempting'
  BY <1>1, <1>2, <1>3, <1>4 DEF Attempting, NoteTypeOK, BadgeTypes
<1>6. NotesStay
  BY <1>1, <1>4 DEF NotesStay
<1> QED
  BY <1>2, <1>5, <1>6

LEMMA TokensTyped ==
  ASSUME Attempting,
         \/ \E u \in User : ClearToken(u) \/ \E t \in Token : SaveToken(u, t)
         \/ \E t \in Token : TokenDies(t)
  PROVE  Attempting' /\ NotesStay /\ faults \in Nat /\ faults' \in Nat /\ faults <= faults'
<1>1. UNCHANGED <<notes, jobs, tries, run, pushed, mark, shown, latest, outrun>>
  BY DEF SaveToken, ClearToken, TokenDies, queueVars, badgeVars
<1>2. token' \in [User -> Token \cup {None}] /\ dead' \subseteq Token
  BY DEF SaveToken, ClearToken, TokenDies, Attempting, NoteTypeOK
<1>3. faults' \in 0..MaxFaults /\ faults \in Nat /\ faults' \in Nat /\ faults <= faults'
  BY NotificationAssumption DEF SaveToken, ClearToken, TokenDies, Fails, Attempting, NoteTypeOK
<1>4. Attempting'
  BY <1>1, <1>2, <1>3 DEF Attempting, NoteTypeOK
<1>5. NotesStay
  BY <1>1 DEF NotesStay
<1> QED
  BY <1>3, <1>4, <1>5

\* The two shapes of a step of runner r: it goes on with its run, or its run ends
\* and leaves the job in a state.
GoesOn(r, at, t, c) ==
  /\ run' = [run EXCEPT ![r] = [run[r] EXCEPT !.at = at, !.token = t, !.count = c]]
  /\ UNCHANGED <<jobs, tries>>

Ends(r, state, n) ==
  /\ run' = [run EXCEPT ![r] = None]
  /\ jobs' = [jobs EXCEPT ![run[r].note] = state]
  /\ tries' = [tries EXCEPT ![run[r].note] = n]

RunStep(r) ==
  RunCount(r) \/ RunEmit(r) \/ RunToken(r) \/ RunPush(r) \/ RunClear(r) \/ RunComplete(r) \/ RunFail(r)

\* What runner steps leave alone or change within its type.
RunFrame ==
  /\ UNCHANGED notes
  /\ token' \in [User -> Token \cup {None}] /\ UNCHANGED dead
  /\ BadgeTypes'
  /\ faults' \in 0..MaxFaults /\ faults \in Nat /\ faults' \in Nat /\ faults <= faults'

LEMMA RunFramed ==
  ASSUME Attempting, NEW r \in Runner, run[r] # None,
         RunStep(r)
  PROVE  RunFrame
<1>1. To(r) \in User
  BY RunRows
<1>2. UNCHANGED <<notes, dead>>
  BY DEF RunStep, RunCount, RunEmit, RunToken, RunPush, RunClear, RunComplete, RunFail
<1>3. token' \in [User -> Token \cup {None}]
  BY <1>1 DEF RunStep, RunCount, RunEmit, RunToken, RunPush, RunClear, RunComplete, RunFail,
              Attempting, NoteTypeOK
<1>4. BadgeTypes'
  <2>0. <<"runner", r>> \in Actor /\ 0 \in Nat
    BY DEF Actor
  <2>1. CASE RunCount(r) /\ Count(To(r), <<"runner", r>>)
    BY <1>1, <2>0, <2>1, EmitsTyped DEF RunCount, BadgeTypes, Attempting, NoteTypeOK
  <2>2. CASE RunEmit(r)
    <3>1. run[r].count \in Nat
      BY RunRows DEF Run
    <3> QED
      BY <1>1, <2>0, <2>2, <3>1, EmitsTyped DEF RunEmit, BadgeTypes, Attempting, NoteTypeOK
  <2>3. CASE UNCHANGED <<mark, badgeVars>>
    BY <2>3 DEF badgeVars, BadgeTypes, Attempting, NoteTypeOK
  <2> QED
    BY <2>1, <2>2, <2>3 DEF RunStep, RunCount, RunToken, RunPush, RunClear, RunComplete, RunFail
<1>5. faults' \in 0..MaxFaults /\ faults \in Nat /\ faults' \in Nat /\ faults <= faults'
  <2>1. faults \in 0..MaxFaults /\ MaxFaults \in Nat
    BY NotificationAssumption DEF Attempting, NoteTypeOK
  <2>2. faults' = faults \/ Fails
    BY DEF RunStep, RunCount, RunEmit, RunToken, RunPush, RunClear, RunComplete, RunFail
  <2> QED
    BY <2>1, <2>2 DEF Fails
<1> QED
  BY <1>2, <1>3, <1>4, <1>5 DEF RunFrame

LEMMA GoesOnKeeps ==
  ASSUME Attempting, Pushes, crashes \in Nat, UNCHANGED crashes, RunFrame,
         NEW r \in Runner, run[r] # None,
         NEW at \in {"load", "badge", "token", "push", "clear", "complete"},
         NEW t \in Token \cup {None}, NEW c \in Nat, GoesOn(r, at, t, c),
         \/ pushed' = pushed /\ (run[r].at # "complete" \/ at = "complete")
         \/ /\ run[r].at # "complete" /\ at = "complete"
            /\ pushed' = [pushed EXCEPT ![run[r].note] = @ + 1]
  PROVE  Attempting' /\ NotesStay /\ Pushes'
<1> DEFINE n == run[r].note
<1>1. run[r] \in Run /\ n \in Note /\ jobs[n] = "active"
  BY RunRows
<1>2. /\ run' \in [Runner -> Run \cup {None}]
      /\ \A q \in Runner : (run'[q] # None <=> run[q] # None)
                           /\ (run[q] # None => run'[q].note = run[q].note)
      /\ \A q \in Runner \ {r} : run'[q] = run[q]
      /\ run'[r].at = at
  <2> DEFINE R == [run[r] EXCEPT !.at = at, !.token = t, !.count = c]
  <2>1. R \in Run /\ R.note = n /\ R.at = at
    BY <1>1 DEF Run
  <2>2. R # None
    BY <2>1, NotificationAssumption
  <2>3. run \in [Runner -> Run \cup {None}] /\ run' = [run EXCEPT ![r] = R]
    BY DEF GoesOn, Attempting, NoteTypeOK
  <2> HIDE DEF R
  <2> QED
    BY <2>1, <2>2, <2>3
<1>3. pushed' \in [Note -> Nat]
  <2>1. pushed \in [Note -> Nat] /\ pushed[n] + 1 \in Nat
    BY <1>1 DEF Attempting, NoteTypeOK
  <2> QED
    BY <1>1, <2>1
<1>4. Attempting'
  <2>1. UNCHANGED <<notes, jobs, tries, dead>>
    BY DEF RunFrame, GoesOn
  <2>2. /\ \A q \in Runner : run'[q] # None => jobs'[run'[q].note] = "active"
        /\ \A p, q \in Runner :
             p # q /\ run'[p] # None /\ run'[q] # None => run'[p].note # run'[q].note
    BY <1>2, <2>1 DEF Attempting, NoteTypeOK
  <2> QED
    BY <1>2, <1>3, <2>1, <2>2 DEF Attempting, NoteTypeOK, RunFrame, BadgeTypes
<1>5. NotesStay
  BY DEF NotesStay, RunFrame, GoesOn
<1>6. CASE pushed' = pushed /\ (run[r].at # "complete" \/ at = "complete")
  <2>1. UNCHANGED <<jobs, pushed, crashes>>
    BY <1>6 DEF GoesOn
  <2>2. ASSUME NEW q \in Runner, run'[q] # None, run'[q].at # "complete"
        PROVE  run[q] # None /\ run[q].at # "complete" /\ run'[q].note = run[q].note
    BY <1>2, <1>6, <2>2
  <2> QED
    BY <1>4, <1>5, <2>1, <2>2 DEF Pushes
<1>7. CASE /\ run[r].at # "complete" /\ at = "complete"
           /\ pushed' = [pushed EXCEPT ![n] = @ + 1]
  <2>1. pushed[n] \in Nat /\ pushed[n] <= crashes
    BY <1>1, <1>7 DEF Pushes, Attempting, NoteTypeOK
  <2>2. \A m \in Note \ {n} : pushed'[m] = pushed[m]
    BY <1>7 DEF Attempting, NoteTypeOK
  <2>3. pushed'[n] = pushed[n] + 1
    BY <1>1, <1>7 DEF Attempting, NoteTypeOK
  <2>4. \A q \in Runner \ {r} : run[q] # None => run[q].note # n
    BY DEF Attempting, NoteTypeOK
  <2>5. \A m \in Note :
          /\ jobs'[m] = "none" => pushed'[m] = 0
          /\ jobs'[m] = "waiting" => pushed'[m] <= crashes'
          /\ pushed'[m] <= 1 + crashes'
    BY <1>1, <2>1, <2>2, <2>3 DEF Pushes, GoesOn
  <2>6. ASSUME NEW q \in Runner, run'[q] # None, run'[q].at # "complete"
        PROVE  pushed'[run'[q].note] <= crashes'
    <3>1. q # r
      BY <1>2, <1>7, <2>6
    <3>2. run[q] # None /\ run'[q] = run[q]
      BY <1>2, <2>6, <3>1
    <3>3. run[q].note \in Note /\ run[q].note # n
      BY <2>4, <3>1, <3>2, RunRows
    <3> QED
      BY <2>2, <2>6, <3>2, <3>3 DEF Pushes
  <2> QED
    BY <1>4, <1>5, <2>5, <2>6 DEF Pushes
<1> QED
  BY <1>4, <1>5, <1>6, <1>7

LEMMA EndsKeeps ==
  ASSUME Attempting, Pushes, crashes \in Nat, UNCHANGED crashes, RunFrame, pushed' = pushed,
         NEW r \in Runner, run[r] # None,
         NEW state \in {"waiting", "done", "failed"}, NEW n \in 0..Attempts,
         Ends(r, state, n),
         state = "waiting" => n < Attempts /\ run[r].at # "complete"
  PROVE  Attempting' /\ NotesStay /\ Pushes'
<1> DEFINE m == run[r].note
<1>1. run[r] \in Run /\ m \in Note /\ jobs[m] = "active" /\ m \in 1..Len(notes)
  BY RunRows
<1>2. /\ \A q \in Runner \ {r} : run[q] # None => run[q].note # m
      /\ \A q \in Runner \ {r} : run'[q] = run[q]
      /\ run'[r] = None /\ run' \in [Runner -> Run \cup {None}]
  BY DEF Ends, Attempting, NoteTypeOK
<1>3. /\ jobs' \in [Note -> JobState] /\ jobs'[m] = state
      /\ tries' \in [Note -> 0..Attempts] /\ tries'[m] = n
      /\ \A x \in Note \ {m} : jobs'[x] = jobs[x] /\ tries'[x] = tries[x]
  BY <1>1 DEF Ends, Attempting, NoteTypeOK, JobState
<1>4. \A x \in Note : jobs'[x] = "none" <=> jobs[x] = "none"
  BY <1>1, <1>3
<1>5. \A q \in Runner : run'[q] # None => q # r /\ run[q] # None /\ run[q].note \in Note \ {m}
  BY <1>2, RunRows
<1>6. NoteTypeOK'
  BY <1>2, <1>3, <1>4, <1>5, NotificationAssumption DEF Attempting, NoteTypeOK, RunFrame, BadgeTypes
<1>7. Attempting'
  BY <1>3, <1>6 DEF Attempting
<1>8. NotesStay
  BY <1>4 DEF NotesStay, RunFrame
<1>9. Pushes'
  BY <1>1, <1>2, <1>3, <1>5 DEF Pushes
<1> QED
  BY <1>7, <1>8, <1>9

LEMMA TakeKeeps ==
  ASSUME Attempting, Pushes, crashes \in Nat, UNCHANGED crashes,
         NEW r \in Runner, NEW n \in Note, RunTake(r, n)
  PROVE  Attempting' /\ NotesStay /\ Pushes' /\ faults' = faults
<1> DEFINE R == [note |-> n, at |-> "load", token |-> None, count |-> 0]
<1>1. R \in Run /\ R.note = n /\ R.at = "load" /\ R # None
  BY NotificationAssumption DEF Run
<1>2. /\ run[r] = None /\ jobs[n] = "waiting"
      /\ jobs' = [jobs EXCEPT ![n] = "active"] /\ run' = [run EXCEPT ![r] = R]
      /\ UNCHANGED <<notes, tries, token, dead, mark, shown, latest, outrun, pushed, faults>>
  BY DEF RunTake, badgeVars
<1> HIDE DEF R
<1>3. /\ run' \in [Runner -> Run \cup {None}] /\ run'[r] = R
      /\ \A q \in Runner \ {r} : run'[q] = run[q]
      /\ \A q \in Runner \ {r} : run[q] # None => run[q].note # n /\ run[q].note \in Note
  BY <1>1, <1>2, RunRows DEF Attempting, NoteTypeOK
<1>4. /\ jobs' \in [Note -> JobState] /\ jobs'[n] = "active"
      /\ \A m \in Note \ {n} : jobs'[m] = jobs[m]
  BY <1>2 DEF Attempting, NoteTypeOK, JobState
<1>5. /\ \A q \in Runner : run'[q] # None => jobs'[run'[q].note] = "active"
      /\ \A o, q \in Runner :
           o # q /\ run'[o] # None /\ run'[q] # None => run'[o].note # run'[q].note
  <2>1. /\ \A q \in Runner : run[q] # None => jobs[run[q].note] = "active"
        /\ \A o, q \in Runner :
             o # q /\ run[o] # None /\ run[q] # None => run[o].note # run[q].note
    BY DEF Attempting, NoteTypeOK
  <2> QED
    BY <1>1, <1>3, <1>4, <2>1
<1>6. Attempting'
  BY <1>2, <1>3, <1>4, <1>5 DEF Attempting, NoteTypeOK
<1>7. NotesStay
  BY <1>2, <1>4 DEF NotesStay
<1>8. Pushes'
  BY <1>1, <1>2, <1>3, <1>4 DEF Pushes
<1> QED
  BY <1>2, <1>6, <1>7, <1>8

LEMMA RunnerKeeps ==
  ASSUME Attempting, Pushes, crashes \in Nat, UNCHANGED crashes, NEW r \in Runner,
         RunStep(r)
  PROVE  Attempting' /\ NotesStay /\ Pushes' /\ faults \in Nat /\ faults' \in Nat /\ faults <= faults'
<1> DEFINE n == run[r].note
<1>1. run[r] # None
  BY DEF RunStep, RunCount, RunEmit, RunToken, RunPush, RunClear, RunComplete, RunFail, At
<1>2. /\ run[r] \in Run /\ run[r].token \in Token \cup {None} /\ run[r].count \in Nat
      /\ tries[n] < Attempts /\ tries[n] \in Nat /\ To(r) \in User /\ n \in Note
  BY <1>1, RunRows DEF Run
<1>3. RunFrame
  BY <1>1, RunFramed
<1>4. \A l \in {"load", "badge", "token", "push", "clear", "complete"} :
        RunGoto(r, l) /\ UNCHANGED <<jobs, tries>> => GoesOn(r, l, run[r].token, run[r].count)
  <2>1. \A l \in {"load", "badge", "token", "push", "clear", "complete"} :
          [run[r] EXCEPT !.at = l] =
            [run[r] EXCEPT !.at = l, !.token = run[r].token, !.count = run[r].count]
    BY <1>2 DEF Run
  <2> QED
    BY <2>1 DEF RunGoto, GoesOn
<1>5. Attempting' /\ NotesStay /\ Pushes'
  <2>1. CASE RunCount(r) \/ RunEmit(r)
    <3>1. \A l, c : [run[r] EXCEPT !.at = l, !.count = c] =
                     [run[r] EXCEPT !.at = l, !.token = run[r].token, !.count = c]
      BY <1>2 DEF Run
    <3>2. PICK l \in {"badge", "token", "complete"}, c \in Nat : GoesOn(r, l, run[r].token, c)
      <4>1. CASE RunEmit(r)
        BY <3>1, <4>1 DEF RunEmit, AfterEmit, GoesOn
      <4>2. CASE RunCount(r)
        <5>1. Unread(To(r)) \in Nat
          BY <1>2, UnreadCounts DEF Attempting
        <5>2. CASE run' = [run EXCEPT ![r] = [run[r] EXCEPT !.at = "badge", !.count = Unread(To(r))]]
          <6>1. run' = [run EXCEPT ![r] = [run[r] EXCEPT !.at = "badge", !.token = run[r].token,
                                                         !.count = Unread(To(r))]]
            BY <3>1, <5>2
          <6> QED
            BY <4>2, <5>1, <6>1 DEF RunCount, GoesOn
        <5>3. CASE RunGoto(r, AfterEmit(r))
          <6>1. run[r].count \in Nat /\ AfterEmit(r) \in {"token", "complete"}
            BY <1>2 DEF Run, AfterEmit
          <6> QED
            BY <1>4, <4>2, <5>3, <6>1 DEF RunCount
        <5> QED
          BY <4>2, <5>2, <5>3 DEF RunCount
      <4> QED
        BY <2>1, <4>1, <4>2
    <3>3. run[r].at # "complete" /\ pushed' = pushed
      BY <2>1 DEF RunEmit, RunCount, At
    <3> QED
      BY <1>1, <1>2, <1>3, <3>2, <3>3, GoesOnKeeps
  <2>2. CASE RunToken(r)
    <3> DEFINE t == token[To(r)]
               l == IF t = None THEN "complete" ELSE "push"
    <3>1. GoesOn(r, l, t, run[r].count) /\ run[r].at # "complete" /\ pushed' = pushed
      <4>1. [run[r] EXCEPT !.at = l, !.token = t] =
              [run[r] EXCEPT !.at = l, !.token = t, !.count = run[r].count]
        BY <1>2 DEF Run
      <4> QED
        BY <2>2, <4>1 DEF RunToken, GoesOn, At
    <3>2. t \in Token \cup {None} /\ l \in {"complete", "push"}
      BY <1>2 DEF Attempting, NoteTypeOK
    <3> HIDE DEF t, l
    <3> QED
      BY <1>1, <1>2, <1>3, <3>1, <3>2, GoesOnKeeps
  <2>3. CASE RunPush(r)
    <3>1. PICK l \in {"clear", "complete"} :
            /\ RunGoto(r, l) /\ UNCHANGED <<jobs, tries>>
            /\ \/ UNCHANGED pushed
               \/ l = "complete" /\ pushed' = [pushed EXCEPT ![n] = @ + 1]
      BY <2>3 DEF RunPush
    <3>2. GoesOn(r, l, run[r].token, run[r].count) /\ run[r].at # "complete"
      BY <1>4, <2>3, <3>1 DEF RunPush, At
    <3> QED
      BY <1>1, <1>2, <1>3, <3>1, <3>2, GoesOnKeeps
  <2>4. CASE RunClear(r)
    <3>1. GoesOn(r, "complete", run[r].token, run[r].count) /\ run[r].at # "complete" /\ pushed' = pushed
      BY <1>4, <2>4 DEF RunClear, At
    <3> QED
      BY <1>1, <1>2, <1>3, <3>1, GoesOnKeeps
  <2>5. CASE RunComplete(r)
    <3>1. Ends(r, "done", tries[n]) /\ pushed' = pushed
      BY <2>5 DEF RunComplete, Ends, Attempting, NoteTypeOK
    <3>2. tries[n] \in 0..Attempts
      BY <1>2 DEF Attempting, NoteTypeOK
    <3> QED
      BY <1>1, <1>3, <3>1, <3>2, EndsKeeps
  <2>6. CASE RunFail(r)
    <3> DEFINE state == IF tries[n] + 1 = Attempts THEN "failed" ELSE "waiting"
    <3>1. Ends(r, state, tries[n] + 1) /\ pushed' = pushed /\ run[r].at # "complete"
      BY <2>6 DEF RunFail, Ends, At
    <3>2. /\ tries[n] + 1 \in 0..Attempts /\ state \in {"failed", "waiting"}
          /\ state = "waiting" => tries[n] + 1 < Attempts
      BY <1>2, NotificationAssumption
    <3> HIDE DEF state
    <3> QED
      BY <1>1, <1>3, <3>1, <3>2, EndsKeeps
  <2> QED
    BY <2>1, <2>2, <2>3, <2>4, <2>5, <2>6 DEF RunStep
<1> QED
  BY <1>3, <1>5 DEF RunFrame

LEMMA NoteNextKeeps ==
  ASSUME Attempting, Pushes, crashes \in Nat, UNCHANGED crashes, NoteNext
  PROVE  Attempting' /\ NotesStay /\ Pushes' /\ faults \in Nat /\ faults' \in Nat /\ faults <= faults'
<1>1. faults \in Nat
  BY NotificationAssumption DEF Attempting, NoteTypeOK
<1>2. ASSUME NEW r \in Runner, NEW n \in Note, RunTake(r, n)
      PROVE  Attempting' /\ NotesStay /\ Pushes' /\ faults \in Nat /\ faults' \in Nat /\ faults <= faults'
  BY <1>1, <1>2, TakeKeeps
<1>3. ASSUME NEW u \in User, AppStep(u)
      PROVE  Attempting' /\ NotesStay /\ Pushes' /\ faults \in Nat /\ faults' \in Nat /\ faults <= faults'
  <2>1. UNCHANGED <<jobs, run, pushed>>
    BY <1>3 DEF AppStep, MarkAllRead, MarkRead, GetMyNotifications, MarkCount, MarkEmit, MarkFail,
                queueVars, unchangedByMark
  <2> QED
    BY <1>1, <1>3, <2>1, MarksTyped DEF Pushes
<1>4. ASSUME \/ \E u \in User : ClearToken(u) \/ \E t \in Token : SaveToken(u, t)
             \/ \E t \in Token : TokenDies(t)
      PROVE  Attempting' /\ NotesStay /\ Pushes' /\ faults \in Nat /\ faults' \in Nat /\ faults <= faults'
  <2>1. UNCHANGED <<jobs, run, pushed>>
    BY <1>4 DEF SaveToken, ClearToken, TokenDies, queueVars
  <2> QED
    BY <1>4, <2>1, TokensTyped DEF Pushes
<1> QED
  BY <1>2, <1>3, <1>4, RunnerKeeps, NotificationAssumption DEF NoteNext, Work, RunStep, AppStep

-----------------------------------------------------------------------------
(* What the steps of requests do to notifications.                         *)

\* Steps that leave notifications alone.
Quiet ==
  /\ UNCHANGED <<notes, jobs, tries, run, pushed, token, dead, mark, badgeVars, crashes>>
  /\ faults' = faults \/ Fails

LEMMA QuietSteps ==
  ASSUME NEW w \in Worker,
         \/ \E u \in Donor : CreateStart(w, u)
         \/ \E k \in 1..MaxEvents : WebhookStart(w, k)
         \/ CreateFind(w) \/ CreateInsert(w) \/ WebhookMatch(w) \/ WebhookUpdate(w) \/ Fault(w)
         \/ \E kind \in Kind : Announce(kind)
  PROVE  Quiet
BY DEF Quiet, CreateStart, WebhookStart, Start, CreateFind, CreateInsert, WebhookMatch,
       WebhookUpdate, Fault, Announce, noteVars, queueVars, badgeVars, unchanged

LEMMA QuietKeeps ==
  ASSUME Attempting, Pushes, Counted, crashes \in Nat, Quiet
  PROVE  Attempting' /\ Pushes' /\ Counted' /\ NotesStay
<1>1. faults \in 0..MaxFaults /\ faults' \in 0..MaxFaults /\ faults <= faults'
  BY NotificationAssumption DEF Quiet, Fails, Attempting, NoteTypeOK
<1>2. Attempting'
  BY <1>1 DEF Quiet, Attempting, NoteTypeOK, badgeVars
<1>3. Pushes'
  BY DEF Quiet, Pushes
<1>4. Counted'
  BY <1>1 DEF Quiet, Counted
<1>5. NotesStay
  BY DEF Quiet, NotesStay
<1> QED
  BY <1>2, <1>3, <1>4, <1>5

\* The jobs of requests.
LEMMA JobTypes ==
  ASSUME TypeOK, NEW w \in Worker, pc[w] # "idle"
  PROVE  /\ job[w] \in Job /\ job[w] # None
         /\ job[w].event \in Nat /\ job[w].op \in {"create", "webhook"}
         /\ Len(rows) \in Nat /\ Len(events) \in Nat /\ Len(notes) \in Nat
         /\ \A i \in 1..Len(rows) : rows[i] \in Row /\ rows[i].user \in Donor
<1>1. job[w] \in Job /\ job[w] # None
  BY DonationAssumption DEF TypeOK
<1>2. Len(rows) \in Nat /\ Len(events) \in Nat /\ Len(notes) \in Nat
  BY LenProperties DEF TypeOK, NoteTypeOK
<1>3. \A i \in 1..Len(rows) : rows[i] \in Row /\ rows[i].user \in Donor
  <2>1. \A i \in 1..Len(rows) : rows[i] \in Row
    BY ElementOfSeq DEF TypeOK
  <2> QED
    BY <2>1 DEF Row
<1> QED
  BY <1>1, <1>2, <1>3 DEF Job

LEMMA RecipientIsUser ==
  ASSUME TypeOK, NEW w \in Worker, InRequest(w), pc[w] = "row"
  PROVE  /\ Recipient(w) \in User
         /\ job[w].op = "webhook" => Recipient(w) \in Donor
BY JobTypes, DonationAssumption DEF Recipient, InRequest

LEMMA NotifyRowKeeps ==
  ASSUME TypeOK, Attempting, Pushes, Counted, NEW w \in Worker, InRequest(w), NotifyRow(w)
  PROVE  /\ Attempting' /\ Pushes' /\ Counted'
         /\ Len(notes') = Len(notes) + 1 /\ Len(notes) + 1 \in Note
         /\ \A n \in 1..Len(notes) : notes'[n] = notes[n]
         /\ notes'[Len(notes) + 1].to = Recipient(w)
         /\ notes'[Len(notes) + 1].about = job[w].event
         /\ jobs[Len(notes) + 1] = "none"
<1> DEFINE new == [to |-> Recipient(w), about |-> job[w].event, push |-> TRUE, read |-> FALSE]
<1>1. pc[w] = "row"
  BY DEF NotifyRow
<1>2. new \in NoteRow
  BY <1>1, JobTypes, RecipientIsUser DEF NoteRow
<1>3. notes \in Seq(NoteRow) /\ Len(notes) \in Nat /\ Len(notes) < MaxNotes /\ notes' = Append(notes, new)
  BY LenProperties DEF NotifyRow, InsertNote, Attempting, NoteTypeOK
<1>4. /\ notes' \in Seq(NoteRow) /\ Len(notes') = Len(notes) + 1
      /\ \A n \in 1..Len(notes) : notes'[n] = notes[n]
      /\ notes'[Len(notes) + 1] = new
  BY <1>2, <1>3
<1>5. Len(notes) + 1 \in Note /\ Len(notes') <= MaxNotes
  BY <1>3, <1>4, NotificationAssumption DEF Note
<1>6. UNCHANGED <<jobs, tries, run, pushed, token, dead, faults, crashes>>
  BY DEF NotifyRow, queueVars, unchanged
<1>7. UNCHANGED <<mark, shown, latest, outrun>>
  BY DEF NotifyRow, badgeVars
<1>8. jobs[Len(notes) + 1] = "none"
  BY <1>3, <1>5 DEF Attempting, NoteTypeOK
<1>9. \A n \in Note : jobs'[n] # "none" => n <= Len(notes')
  BY <1>3, <1>4, <1>6 DEF Attempting, NoteTypeOK, Note
<1>10. Attempting'
  BY <1>4, <1>5, <1>6, <1>7, <1>9 DEF Attempting, NoteTypeOK
<1>11. Pushes' /\ Counted'
  BY <1>6 DEF Pushes, Counted
<1> QED
  BY <1>4, <1>5, <1>8, <1>10, <1>11

LEMMA NotifyQueueKeeps ==
  ASSUME TypeOK, Attempting, Pushes, Counted, NEW w \in Worker, InRequest(w), NotifyQueue(w)
  PROVE  /\ Attempting' /\ Pushes' /\ Counted' /\ notes' = notes
         /\ job[w].note \in Note /\ job[w].note \in 1..Len(notes)
         /\ jobs' = [jobs EXCEPT ![job[w].note] = "waiting"]
<1> DEFINE n == job[w].note
<1>1. pc[w] = "queue" /\ n \in 1..Len(notes) /\ n \in Note /\ jobs[n] = "none"
  BY NoteRows DEF NotifyQueue, InRequest, TypeOK
<1>2. jobs' = [jobs EXCEPT ![n] = "waiting"]
      /\ UNCHANGED <<notes, tries, run, pushed, token, dead, mark, shown, latest, outrun>>
      /\ UNCHANGED <<faults, crashes>>
  BY DEF NotifyQueue, Enqueue, unchanged, badgeVars
<1>3. /\ jobs' \in [Note -> JobState] /\ jobs'[n] = "waiting"
      /\ \A m \in Note \ {n} : jobs'[m] = jobs[m]
  BY <1>1, <1>2 DEF Attempting, NoteTypeOK, JobState
<1>4. \A r \in Runner : run[r] # None => run[r].note \in Note \ {n}
  BY <1>1, RunRows
<1>5. NoteTypeOK'
  BY <1>1, <1>2, <1>3, <1>4 DEF Attempting, NoteTypeOK
<1>6. Attempting'
  BY <1>1, <1>2, <1>3, <1>5 DEF Attempting
<1>7. pushed[n] = 0 /\ crashes \in Nat /\ faults \in Nat
  BY <1>1, NotificationAssumption DEF Pushes, TypeOK, NoteTypeOK
<1>8. Pushes'
  BY <1>1, <1>2, <1>3, <1>7 DEF Pushes
<1>9. Counted'
  BY <1>2 DEF Counted
<1> QED
  BY <1>1, <1>2, <1>6, <1>8, <1>9

LEMMA NotifyEmitKeeps ==
  ASSUME TypeOK, Attempting, Pushes, Counted, NEW w \in Worker, NotifyCount(w) \/ NotifyEmit(w)
  PROVE  Attempting' /\ Pushes' /\ Counted' /\ NotesStay
<1>1. pc[w] # "idle" /\ job[w].note \in 1..Len(notes)
  BY DEF NotifyCount, NotifyEmit, TypeOK
<1>2. notes[job[w].note].to \in User /\ job[w].count \in Nat
  BY <1>1, NoteRows, JobTypes DEF Attempting, Job
<1>3. UNCHANGED <<notes, jobs, tries, run, pushed, token, dead, mark, faults, crashes>>
  BY DEF NotifyCount, NotifyEmit, queueVars, unchanged
<1>4. shown' \in [User -> Nat] /\ latest' \in [User -> Actor \cup {None}] /\ outrun' \subseteq User
  <2>1. <<"request", w>> \in Actor /\ 0 \in Nat
    BY DEF Actor
  <2> QED
    BY <1>2, <2>1, EmitsTyped DEF NotifyCount, NotifyEmit, Attempting
<1>5. Attempting'
  BY <1>3, <1>4 DEF Attempting, NoteTypeOK
<1> QED
  BY <1>3, <1>5 DEF Pushes, Counted, NotesStay

LEMMA CrashKeeps ==
  ASSUME TypeOK, Attempting, Pushes, Counted, Crash
  PROVE  Attempting' /\ Pushes' /\ Counted' /\ NotesStay /\ crashes' \in 0..MaxFaults
<1>1. /\ UNCHANGED <<notes, tries, pushed, token, dead, shown, latest, outrun>>
      /\ mark' = [u \in User |-> None]
      /\ run' = [r \in Runner |-> None] /\ crashes' = crashes + 1
      /\ faults < MaxFaults /\ faults' = faults + 1
      /\ jobs' = [n \in Note |-> IF jobs[n] = "active" THEN "waiting" ELSE jobs[n]]
  BY DEF Crash, RunnersStop, Fails, badgeVars
<1>2. faults \in Nat /\ crashes \in Nat /\ MaxFaults \in Nat /\ crashes <= faults
  BY NotificationAssumption DEF TypeOK, NoteTypeOK, Counted
<1>3. jobs' \in [Note -> JobState]
  BY <1>1 DEF Attempting, NoteTypeOK, JobState
<1>4. Attempting'
  BY <1>1, <1>2, <1>3 DEF Attempting, NoteTypeOK
<1>5. Pushes'
  BY <1>1, <1>2 DEF Pushes, Attempting, NoteTypeOK
<1>6. NotesStay
  BY <1>1 DEF NotesStay
<1> QED
  BY <1>1, <1>2, <1>4, <1>5, <1>6 DEF Counted

-----------------------------------------------------------------------------
(* Requests: types and what they may rely on.                              *)

\* What TypeOK and InFlightInv say of the request of w.
Sound(w) ==
  /\ pc[w] = "idle" <=> job[w] = None
  /\ pc[w] = "update" => job[w].matched \in 1..Len(rows)
  /\ pc[w] \in {"queue", "count", "emit"} => job[w].note \in 1..Len(notes)
  /\ InRequest(w)

\* Tables only grow.
Grows ==
  /\ Len(rows) <= Len(rows') /\ Len(rows') \in Nat
  /\ Len(events) <= Len(events') /\ Len(events') \in Nat
  /\ provider' = provider /\ \A k \in 1..Len(events) : events'[k] = events[k]
  /\ Len(notes) <= Len(notes') /\ Len(notes') \in Nat
  /\ \A n \in 1..Len(notes) : notes'[n].to = notes[n].to /\ notes'[n].about = notes[n].about
  /\ \A n \in Note : jobs[n] # "none" => jobs'[n] # "none"

LEMMA AllSound == TypeOK /\ InFlightInv => \A w \in Worker : Sound(w)
BY DEF TypeOK, InFlightInv, Sound

LEMMA OtherSound ==
  ASSUME TypeOK, Grows, NEW v \in Worker, Sound(v), pc'[v] = pc[v], job'[v] = job[v],
         pc[v] = "queue" => jobs'[job[v].note] = "none"
  PROVE  Sound(v)'
<1>1. 1..Len(rows) \subseteq 1..Len(rows') /\ 1..Len(events) \subseteq 1..Len(events')
      /\ 1..Len(notes) \subseteq 1..Len(notes') /\ 1..Len(notes) \subseteq Note
  BY LenProperties, NoteRows DEF Grows, TypeOK, NoteTypeOK
<1> QED
  BY <1>1 DEF Sound, InRequest, Grows, NextStatus

LEMMA StayGrow ==
  ASSUME TypeOK, NotesStay, UNCHANGED <<provider, rows, events>>
  PROVE  Grows
BY LenProperties DEF NotesStay, Grows, TypeOK, NoteTypeOK

LEMMA JobSteps ==
  ASSUME TypeOK, NEW w \in Worker, NEW l \in PC, NEW j \in Job \cup {None},
         pc' = [pc EXCEPT ![w] = l], job' = [job EXCEPT ![w] = j]
  PROVE  /\ pc' \in [Worker -> PC] /\ job' \in [Worker -> Job \cup {None}]
         /\ pc'[w] = l /\ job'[w] = j
         /\ \A v \in Worker \ {w} : pc'[v] = pc[v] /\ job'[v] = job[v]
BY DEF TypeOK

\* A request whose next state is sound leaves the others sound.
LEMMA OneSound ==
  ASSUME TypeOK, InFlightInv, Grows, NEW w \in Worker,
         \A v \in Worker \ {w} : pc'[v] = pc[v] /\ job'[v] = job[v],
         Sound(w)',
         \A v \in Worker \ {w} : pc[v] = "queue" => jobs'[job[v].note] = jobs[job[v].note],
         \A v \in Worker \ {w} :
           pc'[w] = "queue" /\ pc[v] = "queue" => job[v].note # job'[w].note,
         \A k \in 1..Len(events') : events'[k].known => rows' # <<>>
  PROVE  (\A v \in Worker : Sound(v))' /\ InFlightInv'
<1>1. ASSUME NEW v \in Worker PROVE Sound(v)'
  <2>1. CASE v = w
    BY <2>1
  <2>2. CASE v # w
    <3>1. Sound(v) /\ (pc[v] = "queue" => jobs[job[v].note] = "none")
      BY AllSound DEF Sound, InRequest
    <3> QED
      BY <2>2, <3>1, OtherSound
  <2> QED
    BY <2>1, <2>2
<1>2. \A u, v \in Worker :
        u # v /\ pc'[u] = "queue" /\ pc'[v] = "queue" => job'[u].note # job'[v].note
  BY DEF InFlightInv
<1> QED
  BY <1>1, <1>2 DEF InFlightInv, Sound

\* An announcement stays made.
LEMMA AnnouncedStays ==
  ASSUME TypeOK, Grows, NEW k,
         \E n \in 1..Len(notes) :
           notes[n].about = k /\ notes[n].to \in Donor /\ jobs[n] # "none"
  PROVE  \E n \in 1..Len(notes') :
           notes'[n].about = k /\ notes'[n].to \in Donor /\ jobs'[n] # "none"
<1>1. PICK n \in 1..Len(notes) :
        notes[n].about = k /\ notes[n].to \in Donor /\ jobs[n] # "none"
  OBVIOUS
<1>2. n \in Note /\ n \in 1..Len(notes')
  BY NoteRows DEF Grows, TypeOK
<1> QED
  BY <1>1, <1>2 DEF Grows

\* What a step keeps or establishes.
Kept == TypeOK' /\ InFlightInv' /\ AckedSuccessIsAnnounced'

\* Only the events that are acknowledged now need an announcement.
LEMMA AckedGrow ==
  ASSUME TypeOK, Grows, AckedSuccessIsAnnounced,
         \A k \in acked' \ acked :
           events[k].kind = "paid" /\ events[k].known =>
             \E n \in 1..Len(notes') :
               notes'[n].about = k /\ notes'[n].to \in Donor /\ jobs'[n] # "none",
         acked' \subseteq 1..Len(events)
  PROVE  AckedSuccessIsAnnounced'
<1> SUFFICES ASSUME NEW k \in acked', events'[k].kind = "paid", events'[k].known
             PROVE  \E n \in 1..Len(notes') :
                      notes'[n].about = k /\ notes'[n].to \in Donor /\ jobs'[n] # "none"
  BY DEF AckedSuccessIsAnnounced
<1>1. events'[k] = events[k]
  BY DEF Grows
<1>2. CASE k \in acked
  <2>1. events[k].kind = "paid" /\ events[k].known
    BY <1>1
  <2>2. \E n \in 1..Len(notes) :
          notes[n].about = k /\ notes[n].to \in Donor /\ jobs[n] # "none"
    BY <1>2, <2>1 DEF AckedSuccessIsAnnounced
  <2> QED
    BY <2>2, AnnouncedStays
<1>3. CASE k \notin acked
  BY <1>1, <1>3
<1> QED
  BY <1>2, <1>3

LEMMA StartsKeep ==
  ASSUME IInv, NEW w \in Worker, Attempting',
         \/ \E u \in Donor : CreateStart(w, u)
         \/ \E k \in 1..MaxEvents : WebhookStart(w, k)
  PROVE  Kept
<1>1. TypeOK /\ InFlightInv /\ AckedSuccessIsAnnounced
  BY DEF IInv
<1>2. /\ UNCHANGED <<notes, jobs, provider, rows, events, acked, crashes, applied>>
      /\ overlapped' \in BOOLEAN
  BY <1>1 DEF CreateStart, WebhookStart, Start, noteVars, TypeOK
<1>3. creates' \in 0..MaxCreates /\ duplicates' \in 0..MaxDuplicates
  BY <1>1, DonationAssumption DEF CreateStart, WebhookStart, TypeOK
<1>4. Grows
  BY <1>1, <1>2, StayGrow DEF NotesStay
<1>5. PICK j \in Job, l \in {"find", "match"} :
        /\ pc' = [pc EXCEPT ![w] = l] /\ job' = [job EXCEPT ![w] = j]
        /\ l = "find" => j.op = "create" /\ j.user \in Donor
        /\ l = "match" => j.op = "webhook" /\ j.event \in 1..Len(events)
  <2>1. ASSUME NEW u \in Donor, CreateStart(w, u)
        PROVE  \E j \in Job :
                 /\ pc' = [pc EXCEPT ![w] = "find"] /\ job' = [job EXCEPT ![w] = j]
                 /\ j.op = "create" /\ j.user \in Donor
    <3> DEFINE j == [op |-> "create", user |-> u, event |-> 0, matched |-> 0,
                     verified |-> FALSE, note |-> 0, count |-> 0]
    <3>1. j \in Job /\ j.op = "create" /\ j.user \in Donor
      BY DEF Job
    <3> QED
      BY <2>1, <3>1 DEF CreateStart, Start, Goto
  <2>2. ASSUME NEW k \in 1..MaxEvents, WebhookStart(w, k)
        PROVE  \E j \in Job :
                 /\ pc' = [pc EXCEPT ![w] = "match"] /\ job' = [job EXCEPT ![w] = j]
                 /\ j.op = "webhook" /\ j.event \in 1..Len(events)
    <3> DEFINE j == [op |-> "webhook", user |-> None, event |-> k, matched |-> 0,
                     verified |-> FALSE, note |-> 0, count |-> 0]
    <3>1. j \in Job /\ j.op = "webhook" /\ j.event \in 1..Len(events)
      BY <2>2, DonationAssumption DEF Job, WebhookStart
    <3> QED
      BY <2>2, <3>1 DEF WebhookStart, Start, Goto
  <2> QED
    BY <2>1, <2>2
<1>6. /\ pc' \in [Worker -> PC] /\ job' \in [Worker -> Job \cup {None}]
      /\ pc'[w] = l /\ job'[w] = j
      /\ \A v \in Worker \ {w} : pc'[v] = pc[v] /\ job'[v] = job[v]
  BY <1>1, <1>5, JobSteps DEF PC
<1>7. Sound(w)'
  BY <1>2, <1>5, <1>6, DonationAssumption DEF Sound, InRequest
<1>8. (\A v \in Worker : Sound(v))' /\ InFlightInv'
  BY <1>1, <1>2, <1>4, <1>5, <1>6, <1>7, OneSound DEF InFlightInv
<1>9. TypeOK'
  BY <1>1, <1>2, <1>3, <1>6, <1>8 DEF TypeOK, Attempting, Sound
<1>10. AckedSuccessIsAnnounced'
  BY <1>2 DEF IInv, AckedSuccessIsAnnounced
<1> QED
  BY <1>8, <1>9, <1>10 DEF Kept

\* A step of the request of w that leaves a sound request.
LEMMA StepKeeps ==
  ASSUME IInv, NEW w \in Worker, Attempting', Grows,
         NEW l \in PC, NEW j \in Job \cup {None},
         pc' = [pc EXCEPT ![w] = l], job' = [job EXCEPT ![w] = j],
         Sound(w)',
         rows' \in Seq(Row), rows # <<>> => rows' # <<>>, applied' \subseteq Status,
         UNCHANGED unchanged,
         \A v \in Worker \ {w} : pc[v] = "queue" => jobs'[job[v].note] = jobs[job[v].note],
         \A v \in Worker \ {w} : l = "queue" /\ pc[v] = "queue" => job[v].note # j.note,
         acked' \subseteq 1..Len(events),
         \A k \in acked' \ acked :
           events[k].kind = "paid" /\ events[k].known =>
             \E n \in 1..Len(notes') :
               notes'[n].about = k /\ notes'[n].to \in Donor /\ jobs'[n] # "none"
  PROVE  Kept
<1>1. TypeOK /\ InFlightInv /\ AckedSuccessIsAnnounced
  BY DEF IInv
<1>2. UNCHANGED <<provider, events, creates, duplicates, crashes, overlapped>>
  BY DEF unchanged
<1>3. /\ pc' \in [Worker -> PC] /\ job' \in [Worker -> Job \cup {None}]
      /\ pc'[w] = l /\ job'[w] = j
      /\ \A v \in Worker \ {w} : pc'[v] = pc[v] /\ job'[v] = job[v]
  BY <1>1, JobSteps
<1>4. \A k \in 1..Len(events') : events'[k].known => rows' # <<>>
  BY <1>1, <1>2 DEF InFlightInv
<1>5. (\A v \in Worker : Sound(v))' /\ InFlightInv'
  BY <1>1, <1>3, <1>4, OneSound
<1>6. TypeOK'
  BY <1>1, <1>2, <1>3, <1>5 DEF TypeOK, Attempting, Sound
<1>7. AckedSuccessIsAnnounced'
  BY <1>1, <1>2, AckedGrow
<1> QED
  BY <1>5, <1>6, <1>7 DEF Kept

LEMMA QuietGrows ==
  ASSUME TypeOK, Quiet, UNCHANGED <<provider, events>>, Len(rows) <= Len(rows'), Len(rows') \in Nat
  PROVE  /\ Grows
         /\ \A v \in Worker : pc[v] = "queue" => jobs'[job[v].note] = jobs[job[v].note]
BY LenProperties DEF Quiet, Grows, TypeOK, NoteTypeOK

\* The ends of a request that acknowledge nothing.
LEMMA EndKeeps ==
  ASSUME IInv, NEW w \in Worker, Attempting', Grows, Respond(w),
         rows' \in Seq(Row), rows # <<>> => rows' # <<>>, applied' \subseteq Status,
         UNCHANGED <<unchanged, acked>>,
         \A v \in Worker \ {w} : pc[v] = "queue" => jobs'[job[v].note] = jobs[job[v].note]
  PROVE  Kept
<1>1. pc' = [pc EXCEPT ![w] = "idle"] /\ job' = [job EXCEPT ![w] = None]
  BY DEF Respond, Goto
<1>2. TypeOK /\ "idle" \in PC
  BY DEF IInv, PC
<1>3. pc'[w] = "idle" /\ job'[w] = None
  BY <1>1, <1>2, JobSteps
<1>4. Sound(w)'
  BY <1>3 DEF Sound, InRequest
<1>5. acked' \subseteq 1..Len(events) /\ acked' = acked
  BY <1>2 DEF TypeOK
<1> QED
  BY <1>1, <1>2, <1>4, <1>5, StepKeeps

LEMMA FaultKeeps ==
  ASSUME IInv, NEW w \in Worker, Attempting', Fault(w)
  PROVE  Kept
<1>1. /\ Respond(w) /\ UNCHANGED <<unchanged, rows, acked, applied>> /\ Quiet /\ TypeOK
      /\ UNCHANGED <<provider, events>>
  BY QuietSteps DEF Fault, IInv, unchanged
<1>2. /\ Grows
      /\ \A v \in Worker : pc[v] = "queue" => jobs'[job[v].note] = jobs[job[v].note]
  BY <1>1, QuietGrows, LenProperties DEF TypeOK
<1>3. rows' \in Seq(Row) /\ applied' \subseteq Status /\ (rows # <<>> => rows' # <<>>)
  BY <1>1 DEF TypeOK
<1> QED
  BY <1>1, <1>2, <1>3, EndKeeps

LEMMA CreateFindKeeps ==
  ASSUME IInv, NEW w \in Worker, Attempting', CreateFind(w)
  PROVE  Kept
<1>1. /\ UNCHANGED <<unchanged, rows, acked, applied>> /\ Quiet /\ TypeOK
      /\ UNCHANGED <<provider, events>> /\ pc[w] = "find"
  BY QuietSteps DEF CreateFind, IInv, unchanged
<1>2. /\ Grows
      /\ \A v \in Worker : pc[v] = "queue" => jobs'[job[v].note] = jobs[job[v].note]
  BY <1>1, QuietGrows, LenProperties DEF TypeOK
<1>3. rows' \in Seq(Row) /\ applied' \subseteq Status /\ (rows # <<>> => rows' # <<>>)
  BY <1>1 DEF TypeOK
<1>4. CASE Respond(w)
  BY <1>1, <1>2, <1>3, <1>4, EndKeeps
<1>5. CASE Goto(w, "insert") /\ UNCHANGED job
  <2>1. /\ pc' = [pc EXCEPT ![w] = "insert"] /\ job' = [job EXCEPT ![w] = job[w]]
        /\ job[w] \in Job \cup {None} /\ "insert" \in PC
    BY <1>1, <1>5 DEF Goto, TypeOK, PC
  <2>2. Sound(w) /\ job[w] # None
    BY <1>1, AllSound DEF IInv, Sound
  <2>3. Sound(w)'
    BY <1>1, <2>1, <2>2, JobSteps DEF Sound, InRequest
  <2>4. acked' \subseteq 1..Len(events) /\ acked' = acked
    BY <1>1 DEF TypeOK
  <2> QED
    BY <1>1, <1>2, <1>3, <2>1, <2>3, <2>4, StepKeeps
<1> QED
  BY <1>4, <1>5 DEF CreateFind

LEMMA CreateInsertKeeps ==
  ASSUME IInv, NEW w \in Worker, Attempting', CreateInsert(w)
  PROVE  Kept
<1> DEFINE new == [user |-> job[w].user, status |-> "Pending", verified |-> FALSE]
<1>1. /\ UNCHANGED <<unchanged, acked, applied>> /\ Quiet /\ TypeOK
      /\ UNCHANGED <<provider, events>> /\ pc[w] = "insert" /\ rows' = Append(rows, new)
  BY QuietSteps DEF CreateInsert, IInv, unchanged
<1>2. Sound(w) /\ job[w] \in Job
  BY <1>1, AllSound, JobTypes DEF IInv
<1>3. new \in Row
  BY <1>1, <1>2 DEF Sound, InRequest, Row, Status
<1>4. rows \in Seq(Row) /\ rows' \in Seq(Row) /\ Len(rows) \in Nat /\ Len(rows') = Len(rows) + 1
      /\ rows' # <<>>
  BY <1>1, <1>3, LenProperties DEF TypeOK
<1>5. /\ Grows
      /\ \A v \in Worker : pc[v] = "queue" => jobs'[job[v].note] = jobs[job[v].note]
  BY <1>1, <1>4, QuietGrows
<1>6. applied' \subseteq Status
  BY <1>1 DEF TypeOK
<1>7. CASE Respond(w)
  BY <1>1, <1>4, <1>5, <1>6, <1>7, EndKeeps
<1>8. CASE Admin # None /\ Goto(w, "row") /\ UNCHANGED job
  <2>1. /\ pc' = [pc EXCEPT ![w] = "row"] /\ job' = [job EXCEPT ![w] = job[w]]
        /\ job[w] \in Job \cup {None} /\ "row" \in PC
    BY <1>1, <1>8 DEF Goto, TypeOK, PC
  <2>2. pc'[w] = "row" /\ job'[w] = job[w] /\ job[w].op = "create" /\ job[w] # None
    BY <1>1, <1>2, <2>1, JobSteps DEF Sound, InRequest
  <2>3. Sound(w)'
    BY <1>8, <2>2 DEF Sound, InRequest
  <2>4. acked' \subseteq 1..Len(events) /\ acked' = acked
    BY <1>1 DEF TypeOK
  <2> QED
    BY <1>1, <1>4, <1>5, <1>6, <2>1, <2>3, <2>4, StepKeeps
<1> QED
  BY <1>7, <1>8 DEF CreateInsert

\* A webhook that is answered with 200.
LEMMA AnswerKeeps ==
  ASSUME IInv, NEW w \in Worker, Attempting', Grows, Answer200(w), job[w].event \in 1..Len(events),
         rows' \in Seq(Row), rows # <<>> => rows' # <<>>, applied' \subseteq Status,
         UNCHANGED unchanged,
         \A v \in Worker \ {w} : pc[v] = "queue" => jobs'[job[v].note] = jobs[job[v].note],
         events[job[w].event].kind = "paid" /\ events[job[w].event].known =>
           \E n \in 1..Len(notes') :
             notes'[n].about = job[w].event /\ notes'[n].to \in Donor /\ jobs'[n] # "none"
  PROVE  Kept
<1>1. /\ pc' = [pc EXCEPT ![w] = "idle"] /\ job' = [job EXCEPT ![w] = None]
      /\ acked' = acked \cup {job[w].event}
  BY DEF Answer200, Respond, Goto
<1>2. TypeOK /\ "idle" \in PC
  BY DEF IInv, PC
<1>3. pc'[w] = "idle" /\ job'[w] = None
  BY <1>1, <1>2, JobSteps
<1>4. Sound(w)'
  BY <1>3 DEF Sound, InRequest
<1>5. acked' \subseteq 1..Len(events) /\ acked' \ acked \subseteq {job[w].event}
  BY <1>1, <1>2 DEF TypeOK
<1>6. \A k \in acked' \ acked :
        events[k].kind = "paid" /\ events[k].known =>
          \E n \in 1..Len(notes') :
            notes'[n].about = k /\ notes'[n].to \in Donor /\ jobs'[n] # "none"
  BY <1>5
<1> QED
  BY <1>1, <1>2, <1>4, <1>5, <1>6, StepKeeps

LEMMA WebhookMatchKeeps ==
  ASSUME IInv, NEW w \in Worker, Attempting', WebhookMatch(w)
  PROVE  Kept
<1> DEFINE e == job[w].event
<1>1. /\ UNCHANGED <<unchanged, rows, applied>> /\ Quiet /\ TypeOK
      /\ UNCHANGED <<provider, events>> /\ pc[w] = "match"
  BY QuietSteps DEF WebhookMatch, IInv, unchanged
<1>2. /\ Grows
      /\ \A v \in Worker : pc[v] = "queue" => jobs'[job[v].note] = jobs[job[v].note]
  BY <1>1, QuietGrows, LenProperties DEF TypeOK
<1>3. rows' \in Seq(Row) /\ applied' \subseteq Status /\ (rows # <<>> => rows' # <<>>)
  BY <1>1 DEF TypeOK
<1>4. job[w] \in Job /\ job[w].op = "webhook" /\ e \in 1..Len(events)
  BY <1>1, AllSound, JobTypes DEF IInv, Sound, InRequest
<1>5. CASE (rows = <<>> \/ NextStatus(events[e].kind) = None) /\ Answer200(w)
  <2>1. ~(events[e].kind = "paid" /\ events[e].known)
    BY <1>4, <1>5, DonationAssumption DEF IInv, InFlightInv, NextStatus, Status
  <2> QED
    BY <1>1, <1>2, <1>3, <1>4, <1>5, <2>1, AnswerKeeps
<1>6. CASE /\ NextStatus(events[e].kind) # None
           /\ \E i \in 1..Len(rows) :
                job' = [job EXCEPT ![w].matched = i, ![w].verified = rows[i].verified]
           /\ Goto(w, "update") /\ UNCHANGED acked
  <2>1. PICK i \in 1..Len(rows) :
          job' = [job EXCEPT ![w].matched = i, ![w].verified = rows[i].verified]
    BY <1>6
  <2> DEFINE j == [job[w] EXCEPT !.matched = i, !.verified = rows[i].verified]
  <2>2. rows[i].verified \in BOOLEAN /\ i \in Nat
    BY <1>1, <2>1, JobTypes DEF Row
  <2>3. j \in Job /\ j.op = "webhook" /\ j.event = e /\ j.matched = i
    BY <1>4, <2>2 DEF Job
  <2>4. job' = [job EXCEPT ![w] = j] /\ pc' = [pc EXCEPT ![w] = "update"] /\ "update" \in PC
    BY <1>1, <1>6, <2>1 DEF TypeOK, Goto, PC
  <2> HIDE DEF j
  <2>5. pc'[w] = "update" /\ job'[w] = j /\ j # None
    BY <1>1, <2>3, <2>4, JobSteps, DonationAssumption
  <2>6. NextStatus(events[e].kind) # None
    BY <1>6
  <2>7. Sound(w)'
    BY <1>1, <1>4, <2>3, <2>5, <2>6 DEF Sound, InRequest, NextStatus
  <2>8. acked' \subseteq 1..Len(events) /\ acked' = acked
    BY <1>1, <1>6 DEF TypeOK
  <2> QED
    BY <1>1, <1>2, <1>3, <2>3, <2>4, <2>7, <2>8, StepKeeps
<1> QED
  BY <1>5, <1>6 DEF WebhookMatch

LEMMA WebhookUpdateKeeps ==
  ASSUME IInv, NEW w \in Worker, Attempting', WebhookUpdate(w)
  PROVE  Kept
<1> DEFINE e == job[w].event
           status == NextStatus(events[e].kind)
<1>1. /\ UNCHANGED unchanged /\ Quiet /\ TypeOK /\ UNCHANGED <<provider, events>> /\ pc[w] = "update"
  BY QuietSteps DEF WebhookUpdate, IInv, unchanged
<1>2. job[w] \in Job /\ job[w].op = "webhook" /\ e \in 1..Len(events)
      /\ job[w].matched \in 1..Len(rows) /\ job[w] # None
  BY <1>1, AllSound, JobTypes DEF IInv, Sound, InRequest
<1>3. status # None
  BY <1>1, <1>2, AllSound DEF IInv, Sound, InRequest
<1>4. status \in Status /\ (events[e].kind = "paid" => status = "Succeeded")
  BY <1>3 DEF NextStatus, Status
<1> DEFINE row(i) == [user |-> rows[i].user, status |-> status, verified |-> Verified(w, status)]
<1>5. Verified(w, status) \in BOOLEAN
  BY <1>2 DEF Verified, Job
<1>6. \A i \in 1..Len(rows) : row(i) \in Row
  BY <1>1, <1>4, <1>5, JobTypes DEF Row
<1>7. rows' = [i \in 1..Len(rows) |-> row(i)] /\ applied' = applied \cup {status}
  BY DEF WebhookUpdate
<1> HIDE DEF row
<1>8. Len(rows) \in Nat /\ rows' \in [1..Len(rows) -> Row]
  BY <1>1, <1>6, <1>7, JobTypes
<1>9. rows' \in Seq(Row) /\ Len(rows') = Len(rows) /\ (rows # <<>> => rows' # <<>>)
  <2>1. rows' \in Seq(Row)
    BY <1>8, SeqDef
  <2>2. Len(rows') = Len(rows)
    BY <1>8, <2>1, LenProperties
  <2>3. Len(rows) > 0 /\ Len(<<>>) = 0
    BY <1>1, <1>2, JobTypes
  <2> QED
    BY <2>1, <2>2, <2>3
<1>10. applied' \subseteq Status
  BY <1>1, <1>4, <1>7 DEF TypeOK
<1>11. /\ Grows
       /\ \A v \in Worker : pc[v] = "queue" => jobs'[job[v].note] = jobs[job[v].note]
  BY <1>1, <1>8, <1>9, QuietGrows
<1>12. CASE status = "Succeeded"
  <2>1. /\ pc' = [pc EXCEPT ![w] = "row"] /\ job' = [job EXCEPT ![w] = job[w]]
        /\ job[w] \in Job \cup {None} /\ "row" \in PC /\ acked' = acked
    BY <1>1, <1>12 DEF Goto, TypeOK, PC, WebhookUpdate
  <2>2. pc'[w] = "row" /\ job'[w] = job[w]
    BY <1>1, <2>1, JobSteps
  <2>3. Sound(w)'
    BY <1>1, <1>2, <1>9, <2>2 DEF Sound, InRequest
  <2>4. acked' \subseteq 1..Len(events)
    BY <1>1, <2>1 DEF TypeOK
  <2> QED
    BY <1>1, <1>9, <1>10, <1>11, <2>1, <2>3, <2>4, StepKeeps
<1>13. CASE status # "Succeeded"
  <2>1. Answer200(w) /\ events[e].kind # "paid"
    BY <1>4, <1>13 DEF WebhookUpdate
  <2> QED
    BY <1>1, <1>2, <1>9, <1>10, <1>11, <2>1, AnswerKeeps
<1> QED
  BY <1>12, <1>13

LEMMA NotifyRowSound ==
  ASSUME IInv, NEW w \in Worker, Attempting', NotifyRow(w)
  PROVE  Kept
<1> DEFINE n == Len(notes) + 1
           j == [job[w] EXCEPT !.note = n]
<1>1. /\ TypeOK /\ Attempting /\ Pushes /\ Counted /\ InRequest(w) /\ pc[w] = "row"
      /\ UNCHANGED <<unchanged, provider, events, rows, acked, applied, jobs>>
  BY DEF IInv, InFlightInv, NotifyRow, unchanged, queueVars
<1>2. /\ Len(notes') = n /\ n \in Note /\ Len(notes) \in Nat
      /\ \A m \in 1..Len(notes) : notes'[m] = notes[m]
      /\ notes'[n].to = Recipient(w) /\ notes'[n].about = job[w].event /\ jobs[n] = "none"
  BY <1>1, NotifyRowKeeps, NoteRows
<1>3. job[w] \in Job /\ job[w].op \in {"create", "webhook"}
  BY <1>1, JobTypes
<1>4. j \in Job /\ j.op = job[w].op /\ j.event = job[w].event /\ j.note = n
      /\ j.matched = job[w].matched /\ j.user = job[w].user
  BY <1>2, <1>3 DEF Job
<1>5. job' = [job EXCEPT ![w] = j] /\ pc' = [pc EXCEPT ![w] = "queue"] /\ "queue" \in PC
  BY <1>1 DEF NotifyRow, TypeOK, Goto, PC
<1> HIDE DEF j
<1>6. pc'[w] = "queue" /\ job'[w] = j /\ j # None
  BY <1>1, <1>4, <1>5, JobSteps, DonationAssumption
<1>7. Grows
  BY <1>1, <1>2, LenProperties DEF Grows, TypeOK
<1>8. job[w].op = "webhook" => Recipient(w) \in Donor
  BY <1>1, RecipientIsUser
<1>9. Sound(w)'
  BY <1>1, <1>2, <1>4, <1>6, <1>8 DEF Sound, InRequest
<1>10. \A v \in Worker \ {w} :
         /\ pc[v] = "queue" => jobs'[job[v].note] = jobs[job[v].note]
         /\ "queue" = "queue" /\ pc[v] = "queue" => job[v].note # j.note
  BY <1>1, <1>2, <1>4 DEF TypeOK
<1>11. rows' \in Seq(Row) /\ applied' \subseteq Status /\ (rows # <<>> => rows' # <<>>)
       /\ acked' \subseteq 1..Len(events) /\ acked' = acked
  BY <1>1 DEF TypeOK
<1> QED
  BY <1>1, <1>4, <1>5, <1>7, <1>9, <1>10, <1>11, StepKeeps

LEMMA NotifyQueueSound ==
  ASSUME IInv, NEW w \in Worker, Attempting', NotifyQueue(w)
  PROVE  Kept
<1> DEFINE n == job[w].note
<1>1. /\ TypeOK /\ Attempting /\ Pushes /\ Counted /\ InRequest(w) /\ pc[w] = "queue"
      /\ UNCHANGED <<unchanged, provider, events, rows, acked, applied, job, notes>>
  BY DEF IInv, InFlightInv, NotifyQueue, unchanged
<1>2. n \in Note /\ n \in 1..Len(notes) /\ jobs' = [jobs EXCEPT ![n] = "waiting"]
  BY <1>1, NotifyQueueKeeps
<1>3. jobs'[n] = "waiting" /\ \A m \in Note \ {n} : jobs'[m] = jobs[m]
  BY <1>1, <1>2 DEF Attempting, NoteTypeOK
<1>4. /\ job' = [job EXCEPT ![w] = job[w]] /\ pc' = [pc EXCEPT ![w] = "count"]
      /\ "count" \in PC /\ job[w] \in Job /\ job[w] # None
  BY <1>1, JobTypes DEF NotifyQueue, TypeOK, Goto, PC
<1>5. pc'[w] = "count" /\ job'[w] = job[w]
  BY <1>1, <1>4, JobSteps
<1>6. Grows
  BY <1>1, <1>3, LenProperties DEF Grows, TypeOK, NoteTypeOK
<1>7. Sound(w)'
  BY <1>1, <1>2, <1>3, <1>4, <1>5 DEF Sound, InRequest
<1>8. \A v \in Worker \ {w} : pc[v] = "queue" => job[v].note \in Note \ {n}
  BY <1>1, NoteRows DEF IInv, InFlightInv, TypeOK
<1>9. \A v \in Worker \ {w} : pc[v] = "queue" => jobs'[job[v].note] = jobs[job[v].note]
  BY <1>3, <1>8
<1>10. rows' \in Seq(Row) /\ applied' \subseteq Status /\ (rows # <<>> => rows' # <<>>)
       /\ acked' \subseteq 1..Len(events) /\ acked' = acked
  BY <1>1 DEF TypeOK
<1> QED
  BY <1>1, <1>4, <1>6, <1>7, <1>9, <1>10, StepKeeps

LEMMA NotifyCountSound ==
  ASSUME IInv, NEW w \in Worker, Attempting', NotifyCount(w)
  PROVE  Kept
<1> DEFINE j == [job[w] EXCEPT !.count = Unread(notes[job[w].note].to)]
<1>1. /\ TypeOK /\ Attempting /\ InRequest(w) /\ pc[w] = "count"
      /\ UNCHANGED <<unchanged, provider, events, rows, acked, applied, notes, jobs>>
  BY DEF IInv, InFlightInv, NotifyCount, unchanged, queueVars
<1>2. notes[job[w].note].to \in User /\ job[w] \in Job
  BY <1>1, JobTypes, NoteRows DEF TypeOK
<1>3. /\ j \in Job /\ j.op = job[w].op /\ j.event = job[w].event /\ j.note = job[w].note
      /\ j.matched = job[w].matched /\ j.user = job[w].user
  BY <1>1, <1>2, UnreadCounts DEF Job, TypeOK
<1>4. job' = [job EXCEPT ![w] = j] /\ pc' = [pc EXCEPT ![w] = "emit"] /\ "emit" \in PC
  BY <1>1 DEF NotifyCount, Goto, PC
<1> HIDE DEF j
<1>5. pc'[w] = "emit" /\ job'[w] = j /\ j # None
  BY <1>1, <1>3, <1>4, JobSteps, DonationAssumption
<1>6. Grows
  BY <1>1, StayGrow DEF NotesStay
<1>7. Sound(w)'
  BY <1>1, <1>3, <1>5 DEF Sound, InRequest, TypeOK
<1>8. \A v \in Worker \ {w} : pc[v] = "queue" => jobs'[job[v].note] = jobs[job[v].note]
  BY <1>1
<1>9. rows' \in Seq(Row) /\ applied' \subseteq Status /\ (rows # <<>> => rows' # <<>>)
      /\ acked' \subseteq 1..Len(events) /\ acked' = acked
  BY <1>1 DEF TypeOK
<1> QED
  BY <1>1, <1>3, <1>4, <1>6, <1>7, <1>8, <1>9, StepKeeps

LEMMA NotifyEmitSound ==
  ASSUME IInv, NEW w \in Worker, Attempting', NotifyEmit(w)
  PROVE  Kept
<1>1. /\ TypeOK /\ InRequest(w) /\ pc[w] = "emit" /\ job[w] \in Job
      /\ UNCHANGED <<unchanged, provider, events, rows, applied, notes, jobs>>
  BY JobTypes DEF IInv, InFlightInv, NotifyEmit, unchanged, queueVars
<1>2. Grows
  BY <1>1, StayGrow DEF NotesStay
<1>3. rows' \in Seq(Row) /\ applied' \subseteq Status /\ (rows # <<>> => rows' # <<>>)
  BY <1>1 DEF TypeOK
<1>4. CASE job[w].op = "webhook" /\ Answer200(w)
  <2>1. /\ job[w].event \in 1..Len(events) /\ job[w].note \in 1..Len(notes')
        /\ notes'[job[w].note].about = job[w].event /\ notes'[job[w].note].to \in Donor
        /\ jobs'[job[w].note] # "none"
    BY <1>1, <1>4 DEF InRequest, TypeOK
  <2> QED
    BY <1>1, <1>2, <1>3, <1>4, <2>1, AnswerKeeps
<1>5. CASE Respond(w) /\ UNCHANGED acked
  BY <1>1, <1>2, <1>3, <1>5, EndKeeps
<1> QED
  BY <1>4, <1>5 DEF NotifyEmit

LEMMA AnnounceKeeps ==
  ASSUME IInv, Attempting', NEW kind \in Kind, Announce(kind)
  PROVE  Kept
<1> DEFINE new == [kind |-> kind, known |-> rows # <<>>]
<1>1. /\ TypeOK /\ InFlightInv /\ AckedSuccessIsAnnounced
      /\ UNCHANGED <<notes, jobs, provider, rows, acked, pc, job, creates, duplicates, crashes,
                     applied, overlapped>>
      /\ events' = Append(events, new)
  BY DEF IInv, Announce, noteVars
<1>2. new \in Event
  BY DEF Event
<1>3. /\ events \in Seq(Event) /\ events' \in Seq(Event) /\ Len(events) \in Nat
      /\ Len(events') = Len(events) + 1
      /\ \A k \in 1..Len(events) : events'[k] = events[k]
      /\ events'[Len(events) + 1] = new
  BY <1>1, <1>2, LenProperties DEF TypeOK
<1>4. Grows
  BY <1>1, <1>3, LenProperties DEF Grows, TypeOK, NoteTypeOK
<1>5. ASSUME NEW v \in Worker PROVE Sound(v)'
  <2>1. Sound(v) /\ (pc[v] = "queue" => jobs[job[v].note] = "none")
    BY <1>1, AllSound DEF Sound, InRequest
  <2> QED
    BY <1>1, <1>4, <2>1, OtherSound
<1>6. ASSUME NEW k \in 1..Len(events'), events'[k].known PROVE rows' # <<>>
  <2>1. CASE k \in 1..Len(events)
    BY <1>1, <1>3, <1>6, <2>1 DEF InFlightInv
  <2>2. CASE k = Len(events) + 1
    <3>1. events'[k] = new
      BY <1>3, <2>2
    <3>2. new.known
      BY <1>6, <3>1
    <3> QED
      BY <1>1, <3>2
  <2> QED
    BY <1>3, <2>1, <2>2
<1>7. InFlightInv'
  BY <1>1, <1>5, <1>6 DEF InFlightInv, Sound
<1>8. acked' \subseteq 1..Len(events')
  BY <1>1, <1>3 DEF TypeOK
<1>9. TypeOK'
  BY <1>1, <1>3, <1>5, <1>8 DEF TypeOK, Attempting, Sound
<1>10. AckedSuccessIsAnnounced'
  BY <1>1, <1>4, AckedGrow DEF TypeOK
<1> QED
  BY <1>7, <1>9, <1>10 DEF Kept

LEMMA CrashSound ==
  ASSUME IInv, Attempting', Crash
  PROVE  Kept
<1>1. TypeOK /\ Attempting /\ Pushes /\ Counted /\ InFlightInv /\ AckedSuccessIsAnnounced
  BY DEF IInv
<1>2. /\ UNCHANGED <<provider, rows, events, acked, creates, duplicates, applied, overlapped>>
      /\ pc' = [w \in Worker |-> "idle"] /\ job' = [w \in Worker |-> None]
  BY DEF Crash
<1>3. NotesStay /\ crashes' \in 0..MaxFaults
  BY <1>1, CrashKeeps
<1>4. Grows
  BY <1>1, <1>2, <1>3, StayGrow
<1>5. \A v \in Worker : Sound(v)'
  BY <1>2 DEF Sound, InRequest
<1>6. InFlightInv'
  BY <1>1, <1>2, <1>5 DEF InFlightInv, Sound
<1>7. TypeOK'
  BY <1>1, <1>2, <1>3, <1>5 DEF TypeOK, Attempting, Sound, PC
<1>8. AckedSuccessIsAnnounced'
  BY <1>1, <1>2, <1>4, AckedGrow DEF TypeOK
<1> QED
  BY <1>6, <1>7, <1>8 DEF Kept

LEMMA NoteNextSound ==
  ASSUME IInv, Attempting', NotesStay, UNCHANGED donationVars
  PROVE  Kept
<1>1. TypeOK /\ InFlightInv /\ AckedSuccessIsAnnounced
  BY DEF IInv
<1>2. UNCHANGED <<provider, rows, events, acked, pc, job, creates, duplicates, crashes,
                  applied, overlapped>>
  BY DEF donationVars
<1>3. Grows
  BY <1>1, <1>2, StayGrow
<1>4. ASSUME NEW v \in Worker PROVE Sound(v)'
  <2>1. Sound(v) /\ (pc[v] = "queue" => job[v].note \in Note /\ jobs[job[v].note] = "none")
    BY <1>1, AllSound, NoteRows DEF Sound, InRequest, TypeOK
  <2> QED
    BY <1>1, <1>2, <1>3, <2>1, OtherSound DEF NotesStay
<1>5. InFlightInv'
  BY <1>1, <1>2, <1>4 DEF InFlightInv, Sound
<1>6. TypeOK'
  BY <1>1, <1>2, <1>3, <1>4 DEF TypeOK, Attempting, Sound
<1>7. AckedSuccessIsAnnounced'
  BY <1>1, <1>2, <1>3, AckedGrow DEF TypeOK
<1> QED
  BY <1>5, <1>6, <1>7 DEF Kept

-----------------------------------------------------------------------------
(* The theorems.                                                           *)

LEMMA InitIInv == Init => IInv
<1> SUFFICES ASSUME Init PROVE IInv
  OBVIOUS
<1> USE NotificationAssumption, DonationAssumption
<1>1. NoteTypeOK /\ \A n \in Note : tries[n] < Attempts
  BY EmptySeq DEF Init, NoteInit, NoteTypeOK, JobState
<1>2. pc \in [Worker -> PC] /\ job \in [Worker -> Job \cup {None}]
      /\ \A w \in Worker : pc[w] = "idle" /\ job[w] = None
  BY DEF Init, PC
<1>3. rows = <<>> /\ events = <<>> /\ Len(events) = 0
  BY EmptySeq DEF Init
<1>4. TypeOK
  <2>1. rows \in Seq(Row) /\ events \in Seq(Event) /\ acked \subseteq 1..Len(events)
    BY <1>3, EmptySeq DEF Init
  <2>2. creates \in 0..MaxCreates /\ duplicates \in 0..MaxDuplicates /\ crashes \in 0..MaxFaults
    BY DEF Init
  <2>3. provider \in {"Stripe", "Store"} /\ applied \subseteq Status /\ overlapped \in BOOLEAN
    BY Zenon DEF Init
  <2> QED
    BY <1>1, <1>2, <2>1, <2>2, <2>3, Zenon DEF TypeOK
<1>5. InFlightInv
  BY <1>2, <1>3 DEF InFlightInv, InRequest
<1>6. Pushes /\ Counted
  BY DEF Init, NoteInit, Pushes, Counted
<1>7. AckedSuccessIsAnnounced
  BY DEF Init, AckedSuccessIsAnnounced
<1> QED
  BY <1>1, <1>4, <1>5, <1>6, <1>7 DEF IInv, Attempting

LEMMA NextIInv == IInv /\ [Next]_vars => IInv'
<1> SUFFICES ASSUME IInv, [Next]_vars PROVE IInv'
  OBVIOUS
<1>1. TypeOK /\ Attempting /\ Pushes /\ Counted /\ InFlightInv /\ crashes \in Nat
      /\ \A w \in Worker : InRequest(w)
  BY NotificationAssumption DEF IInv, InFlightInv, TypeOK
<1>2. ASSUME Attempting', Pushes', Counted', Kept PROVE IInv'
  BY <1>2 DEF IInv, Kept
<1>3. CASE NoteNext /\ UNCHANGED donationVars
  <2>1. UNCHANGED crashes
    BY <1>3 DEF donationVars
  <2>2. Attempting' /\ NotesStay /\ Pushes' /\ faults \in Nat /\ faults' \in Nat /\ faults <= faults'
    BY <1>1, <1>3, <2>1, NoteNextKeeps
  <2>3. Counted'
    BY <1>1, <2>1, <2>2 DEF Counted
  <2> QED
    BY <1>2, <1>3, <2>2, <2>3, NoteNextSound
<1>4. ASSUME NEW w \in Worker,
             \/ \E u \in Donor : CreateStart(w, u)
             \/ \E k \in 1..MaxEvents : WebhookStart(w, k)
      PROVE  IInv'
  BY <1>1, <1>2, <1>4, QuietSteps, QuietKeeps, StartsKeep
<1>5. ASSUME NEW w \in Worker, Serve(w) PROVE IInv'
  <2>1. CASE CreateFind(w)
    BY <1>1, <1>2, <2>1, QuietSteps, QuietKeeps, CreateFindKeeps
  <2>2. CASE CreateInsert(w)
    BY <1>1, <1>2, <2>2, QuietSteps, QuietKeeps, CreateInsertKeeps
  <2>3. CASE WebhookMatch(w)
    BY <1>1, <1>2, <2>3, QuietSteps, QuietKeeps, WebhookMatchKeeps
  <2>4. CASE WebhookUpdate(w)
    BY <1>1, <1>2, <2>4, QuietSteps, QuietKeeps, WebhookUpdateKeeps
  <2>5. CASE NotifyRow(w)
    BY <1>1, <1>2, <2>5, NotifyRowKeeps, NotifyRowSound
  <2>6. CASE NotifyQueue(w)
    BY <1>1, <1>2, <2>6, NotifyQueueKeeps, NotifyQueueSound
  <2>7. CASE NotifyCount(w)
    BY <1>1, <1>2, <2>7, NotifyEmitKeeps, NotifyCountSound
  <2>8. CASE Fault(w)
    BY <1>1, <1>2, <2>8, QuietSteps, QuietKeeps, FaultKeeps
  <2>9. CASE NotifyEmit(w)
    BY <1>1, <1>2, <2>9, NotifyEmitKeeps, NotifyEmitSound
  <2> QED
    BY <1>5, <2>1, <2>2, <2>3, <2>4, <2>5, <2>6, <2>7, <2>8, <2>9 DEF Serve
<1>6. ASSUME NEW kind \in Kind, Announce(kind) PROVE IInv'
  <2>1. Quiet
    BY <1>6 DEF Quiet, Announce, noteVars, badgeVars
  <2> QED
    BY <1>1, <1>2, <1>6, <2>1, QuietKeeps, AnnounceKeeps
<1>7. CASE Crash
  BY <1>1, <1>2, <1>7, CrashKeeps, CrashSound
<1>8. CASE UNCHANGED vars
  <2>1. Quiet /\ UNCHANGED donationVars
    BY <1>8 DEF vars, noteVars, donationVars, badgeVars, Quiet
  <2> QED
    BY <1>1, <1>2, <2>1, QuietKeeps, NoteNextSound
<1> QED
  BY <1>3, <1>4, <1>5, <1>6, <1>7, <1>8 DEF Next

LEMMA Inductive == Spec => []IInv
BY InitIInv, NextIInv, PTL DEF Spec

\* No step leaves the types: the columns and keys hold what the code expects, a
\* job is of a row, and no two runners have the same job.
THEOREM TypeCorrect == Spec => []TypeOK
<1>1. IInv => TypeOK
  BY DEF IInv
<1> QED
  BY <1>1, Inductive, PTL

\* However often a job is run, whatever fails and however the requests interleave, its
\* row reaches the device at most once, plus once more for each stop of the process.
THEOREM PushesOnce == Spec => []PushedOnce
<1>1. IInv => PushedOnce
  BY DEF IInv, Pushes, PushedOnce
<1> QED
  BY <1>1, Inductive, PTL

\* The provider is not told that a success was taken before the donor's
\* notification is in the queue.
THEOREM SuccessesAnnounced == Spec => []AckedSuccessIsAnnounced
<1>1. IInv => AckedSuccessIsAnnounced
  BY DEF IInv
<1> QED
  BY <1>1, Inductive, PTL

-----------------------------------------------------------------------------
(* The ledger while requests do not overlap: what a request has read of    *)
(* the rows still holds when it writes them.                               *)

Alone == ~overlapped =>
  \A v, w \in Worker : pc[v] # "idle" /\ pc[w] # "idle" => v = w

Ledger ==
  /\ Len(rows) <= 1
  /\ \A i \in 1..Len(rows) : rows[i].verified <=> "Succeeded" \in applied
  /\ rows = <<>> => "Succeeded" \notin applied

\* What worker w has read is so.
StillSo(w) ==
  /\ pc[w] = "insert" => rows = <<>>
  /\ pc[w] = "update" => (job[w].verified <=> "Succeeded" \in applied)

SerialInv ==
  /\ Alone
  /\ ~overlapped => Ledger
  /\ ~overlapped => \A w \in Worker : StillSo(w)

Starts(w) ==
  \/ \E u \in Donor : CreateStart(w, u)
  \/ \E k \in 1..MaxEvents : WebhookStart(w, k)

\* The steps that start, end or read nothing of a request.
Aside == UNCHANGED <<rows, applied, pc, job, overlapped>>

LEMMA Steps ==
  ASSUME [Next]_vars
  PROVE  Aside \/ Crash \/ \E w \in Worker : Starts(w) \/ Serve(w)
BY DEF Next, Aside, Starts, Announce, donationVars, vars

\* A request goes on or ends; the flag tells what it told before.
LEMMA ServeMoves ==
  ASSUME NEW w \in Worker, Serve(w)
  PROVE  pc[w] # "idle" /\ overlapped' = overlapped /\ \E l : Goto(w, l)
BY DEF Serve, CreateFind, CreateInsert, WebhookMatch, WebhookUpdate, NotifyRow, NotifyQueue,
       NotifyCount, NotifyEmit, Fault, Respond, Answer200, unchanged

\* A step of w that does not overlap another request finds the others idle.
LEMMA StepAlone ==
  ASSUME TypeOK, Alone, NEW w \in Worker, Starts(w) \/ Serve(w), ~overlapped'
  PROVE  /\ ~overlapped
         /\ \A v \in Worker \ {w} : pc[v] = "idle" /\ pc'[v] = "idle"
<1>0. pc \in [Worker -> PC]
  BY DEF TypeOK
<1>1. CASE Starts(w)
  <2>1. /\ overlapped' = (overlapped \/ \E v \in Worker \ {w} : pc[v] # "idle")
        /\ \E l : Goto(w, l)
    BY <1>1 DEF Starts, CreateStart, WebhookStart, Start
  <2>2. ~overlapped /\ \A v \in Worker \ {w} : pc[v] = "idle"
    BY <2>1, Zenon
  <2> QED
    BY <1>0, <2>1, <2>2 DEF Goto
<1>2. CASE Serve(w)
  <2>1. pc[w] # "idle" /\ overlapped' = overlapped /\ \E l : Goto(w, l)
    BY <1>2, ServeMoves
  <2>2. ~overlapped
    BY <2>1, Zenon
  <2>3. \A v \in Worker \ {w} : pc[v] = "idle"
    BY <2>1, <2>2, Zenon DEF Alone
  <2> QED
    BY <1>0, <2>1, <2>2, <2>3 DEF Goto
<1> QED
  BY <1>1, <1>2

LEMMA NextAlone == TypeOK /\ Alone /\ [Next]_vars => Alone'
<1> SUFFICES ASSUME TypeOK, Alone, [Next]_vars, ~overlapped',
                    NEW u \in Worker, NEW v \in Worker, pc'[u] # "idle", pc'[v] # "idle"
             PROVE  u = v
  BY Zenon DEF Alone
<1>1. ASSUME NEW w \in Worker, Starts(w) \/ Serve(w) PROVE u = v
  BY <1>1, StepAlone
<1>2. CASE Aside
  BY <1>2, Zenon DEF Aside, Alone
<1>3. CASE Crash
  BY <1>3 DEF Crash
<1> QED
  BY <1>1, <1>2, <1>3, Steps

\* The rows that a webhook alone writes: verified as the history says.
LEMMA UpdateAlone ==
  ASSUME TypeOK, InFlightInv, Ledger, NEW w \in Worker, StillSo(w), WebhookUpdate(w)
  PROVE  Ledger'
<1> DEFINE status == NextStatus(events[job[w].event].kind)
           row(i) == [user |-> rows[i].user, status |-> status, verified |-> Verified(w, status)]
<1>1. /\ pc[w] = "update" /\ job[w].matched \in 1..Len(rows) /\ job[w].verified \in BOOLEAN
      /\ Len(rows) \in Nat /\ Len(rows) <= 1
      /\ job[w].verified <=> "Succeeded" \in applied
  BY JobTypes DEF WebhookUpdate, TypeOK, Ledger, StillSo, Job
<1>2. status \in Status
  BY <1>1, JobTypes DEF InFlightInv, InRequest, NextStatus, Status
<1>3. rows' = [i \in 1..Len(rows) |-> row(i)] /\ applied' = applied \cup {status}
  BY DEF WebhookUpdate
<1>4. Verified(w, status) <=> "Succeeded" \in applied'
  BY <1>1, <1>3 DEF Verified
<1>5. Verified(w, status) \in BOOLEAN
  BY <1>1 DEF Verified
<1>6. \A i \in 1..Len(rows) : row(i) \in Row /\ (row(i).verified <=> "Succeeded" \in applied')
  BY <1>1, <1>2, <1>4, <1>5, JobTypes DEF Row
<1> HIDE DEF row
<1>7. rows' \in [1..Len(rows) -> Row]
  BY <1>3, <1>6
<1>8. rows' \in Seq(Row) /\ Len(rows') = Len(rows)
  BY <1>1, <1>7, SeqDef, LenProperties
<1>9. Len(rows) > 0 /\ Len(<<>>) = 0
  BY <1>1
<1>10. rows' # <<>>
  BY <1>8, <1>9
<1>11. \A i \in 1..Len(rows') : rows'[i].verified <=> "Succeeded" \in applied'
  BY <1>3, <1>6, <1>8
<1> QED
  BY <1>1, <1>8, <1>10, <1>11 DEF Ledger

\* The row that a POST alone inserts: the only one, and no success before it.
LEMMA InsertAlone ==
  ASSUME TypeOK, Ledger, NEW w \in Worker, StillSo(w), CreateInsert(w)
  PROVE  Ledger'
<1> DEFINE new == [user |-> job[w].user, status |-> "Pending", verified |-> FALSE]
<1>1. /\ rows = <<>> /\ rows' = Append(rows, new) /\ applied' = applied
      /\ "Succeeded" \notin applied
  BY DEF CreateInsert, StillSo, Ledger
<1>2. rows' = <<new>>
  BY <1>1
<1>3. Len(rows') = 1 /\ rows'[1] = new /\ rows' # <<>>
  BY <1>2
<1> QED
  BY <1>1, <1>3 DEF Ledger

LEMMA NextSerialInv == IInv /\ SerialInv /\ [Next]_vars => SerialInv'
<1> SUFFICES ASSUME IInv, SerialInv, [Next]_vars PROVE SerialInv'
  OBVIOUS
<1>1. TypeOK /\ InFlightInv
  BY DEF IInv
<1>2. Alone'
  BY <1>1, NextAlone DEF SerialInv
<1> SUFFICES ASSUME ~overlapped' PROVE Ledger' /\ \A w \in Worker : StillSo(w)'
  BY <1>2, Zenon DEF SerialInv
<1> DEFINE Goal == Ledger' /\ \A w \in Worker : StillSo(w)'
<1>3. CASE Aside
  <2>1. Ledger /\ \A w \in Worker : StillSo(w)
    BY <1>3, Zenon DEF Aside, SerialInv
  <2> QED
    BY <1>3, <2>1 DEF Aside, Ledger, StillSo
<1>4. CASE Crash
  <2>1. overlapped' = overlapped
    BY <1>4 DEF Crash
  <2>2. Ledger
    BY <2>1, Zenon DEF SerialInv
  <2> QED
    BY <1>4, <2>2 DEF Crash, Ledger, StillSo
<1>5. ASSUME NEW w \in Worker, Starts(w) \/ Serve(w) PROVE Goal
  <2>1. ~overlapped /\ \A v \in Worker \ {w} : pc[v] = "idle" /\ pc'[v] = "idle"
    BY <1>1, <1>5, StepAlone DEF SerialInv
  <2>2. Ledger /\ StillSo(w)
    BY <2>1, Zenon DEF SerialInv
  <2>3. pc \in [Worker -> PC] /\ job \in [Worker -> Job \cup {None}]
    BY <1>1 DEF TypeOK
  <2>4. ASSUME StillSo(w)', Ledger' PROVE Goal
    BY <2>1, <2>4 DEF StillSo
  <2>5. ASSUME rows' = rows, applied' = applied PROVE Ledger'
    BY <2>2, <2>5 DEF Ledger
  <2> HIDE DEF Goal
  <2>6. ASSUME pc'[w] \notin {"insert", "update"}, rows' = rows, applied' = applied PROVE Goal
    BY <2>4, <2>5, <2>6 DEF StillSo
  <2> USE DEF Goto, Respond, Answer200
  <2>7. CASE \/ Starts(w) \/ NotifyRow(w) \/ NotifyQueue(w) \/ NotifyCount(w) \/ NotifyEmit(w)
             \/ Fault(w)
    <3>1. rows' = rows /\ applied' = applied
      BY <2>7 DEF Starts, CreateStart, WebhookStart, Start, NotifyRow, NotifyQueue,
                  NotifyCount, NotifyEmit, Fault
    <3>2. pc'[w] \in {"find", "match", "queue", "count", "emit", "idle"}
      BY <2>3, <2>7 DEF Starts, CreateStart, WebhookStart, Start, NotifyRow, NotifyQueue,
                        NotifyCount, NotifyEmit, Fault
    <3> QED
      BY <2>6, <3>1, <3>2
  <2>8. CASE CreateFind(w)
    <3>1. /\ rows' = rows /\ applied' = applied
          /\ pc'[w] = "idle" \/ (pc'[w] = "insert" /\ rows = <<>>)
      BY <2>3, <2>8 DEF CreateFind
    <3> QED
      BY <2>4, <2>5, <3>1 DEF StillSo
  <2>9. CASE CreateInsert(w)
    <3>1. Ledger'
      BY <1>1, <2>2, <2>9, InsertAlone
    <3>2. pc'[w] \in {"idle", "row"}
      BY <2>3, <2>9 DEF CreateInsert
    <3> QED
      BY <2>4, <3>1, <3>2 DEF StillSo
  <2>10. CASE WebhookMatch(w)
    <3>1. rows' = rows /\ applied' = applied /\ pc[w] = "match"
      BY <2>10 DEF WebhookMatch
    <3>2. ASSUME NEW i \in 1..Len(rows),
                 job' = [job EXCEPT ![w].matched = i, ![w].verified = rows[i].verified],
                 pc' = [pc EXCEPT ![w] = "update"]
          PROVE  Goal
      <4>1. job[w] \in Job
        BY <1>1, <3>1, JobTypes
      <4>2. job'[w].verified = rows[i].verified /\ pc'[w] = "update"
        BY <2>3, <3>2, <4>1 DEF Job
      <4>3. StillSo(w)'
        BY <2>2, <3>1, <4>2 DEF StillSo, Ledger
      <4> QED
        BY <2>4, <2>5, <3>1, <4>3
    <3>3. CASE pc' = [pc EXCEPT ![w] = "idle"]
      BY <2>3, <2>6, <3>1, <3>3
    <3> QED
      BY <2>10, <3>2, <3>3 DEF WebhookMatch
  <2>11. CASE WebhookUpdate(w)
    <3>1. Ledger'
      BY <1>1, <2>2, <2>11, UpdateAlone
    <3>2. pc'[w] \in {"idle", "row"}
      BY <2>3, <2>11 DEF WebhookUpdate
    <3> QED
      BY <2>4, <3>1, <3>2 DEF StillSo
  <2> QED
    BY <1>5, <2>7, <2>8, <2>9, <2>10, <2>11 DEF Serve
<1> QED
  BY <1>3, <1>4, <1>5, Steps

LEMMA InitSerialInv == Init => SerialInv
<1> SUFFICES ASSUME Init PROVE SerialInv
  OBVIOUS
<1>1. Alone /\ \A w \in Worker : StillSo(w)
  BY DEF Init, Alone, StillSo
<1>2. Ledger
  BY DEF Init, Ledger
<1> QED
  BY <1>1, <1>2, Zenon DEF SerialInv

\* Deliveries that come again or late, calls that fail and restarts leave the
\* transaction with one row that is verified exactly if a success was recorded,
\* as long as no two requests have overlapped.
THEOREM LedgerTheorem == Spec => []LedgerConsistent
<1>1. SerialInv => LedgerConsistent
  <2> SUFFICES ASSUME SerialInv, ~overlapped PROVE Ledger
    BY Zenon DEF LedgerConsistent, Ledger
  <2> QED
    BY Zenon DEF SerialInv
<1> QED
  BY <1>1, InitSerialInv, NextSerialInv, Inductive, PTL DEF Spec

-----------------------------------------------------------------------------
(* Tokens: what a runner is about to clear was refused.                    *)

RefusedInv == \A r \in Runner : At(r, "clear") => run[r].token \in dead

\* A runner that goes on keeps its note, and its token unless it reads it.
LEMMA RunGoes ==
  ASSUME Attempting, NEW r \in Runner, run[r] # None,
         NEW l \in {"load", "token", "push", "clear", "complete"}, RunGoto(r, l)
  PROVE  /\ run'[r] # None /\ run'[r].at = l /\ run'[r].token = run[r].token
         /\ \A q \in Runner \ {r} : run'[q] = run[q]
<1>1. run[r] \in Run /\ run \in [Runner -> Run \cup {None}]
  BY RunRows DEF Attempting, NoteTypeOK
<1> DEFINE R == [run[r] EXCEPT !.at = l]
<1>2. R \in Run /\ R.at = l /\ R.token = run[r].token
  BY <1>1 DEF Run
<1> HIDE DEF R
<1>3. run' = [run EXCEPT ![r] = R]
  BY DEF RunGoto, R
<1> QED
  BY <1>1, <1>2, <1>3, NotificationAssumption

LEMMA NextRefused == IInv /\ RefusedInv /\ [Next]_vars => RefusedInv' /\ dead \subseteq dead'
<1> SUFFICES ASSUME IInv, RefusedInv, [Next]_vars PROVE RefusedInv' /\ dead \subseteq dead'
  OBVIOUS
<1>1. Attempting /\ run \in [Runner -> Run \cup {None}]
  BY DEF IInv, Attempting, NoteTypeOK
<1>2. CASE run' = run /\ dead \subseteq dead'
  BY <1>2 DEF RefusedInv, At
<1>3. ASSUME NEW r \in Runner, dead' = dead,
             \A q \in Runner \ {r} : run'[q] = run[q],
             run'[r] # None /\ run'[r].at = "clear" => run'[r].token \in dead
      PROVE  RefusedInv' /\ dead \subseteq dead'
  BY <1>3 DEF RefusedInv, At
<1>4. ASSUME NEW r \in Runner, NEW n \in Note, RunTake(r, n)
      PROVE  RefusedInv' /\ dead \subseteq dead'
  BY <1>1, <1>3, <1>4 DEF RunTake
<1>5. ASSUME NEW r \in Runner, RunClear(r) \/ RunCount(r) \/ RunEmit(r)
      PROVE  RefusedInv' /\ dead \subseteq dead'
  <2>1. dead' = dead /\ run[r] # None /\ run[r] \in Run
    BY <1>5, <1>1, RunRows DEF RunClear, RunCount, RunEmit, At
  <2>2. CASE \E l \in {"token", "complete"} : RunGoto(r, l)
    BY <1>1, <1>3, <2>1, <2>2, RunGoes
  <2>3. ASSUME NEW l \in {"badge", "token", "complete"}, NEW c \in Nat,
               run' = [run EXCEPT ![r] = [run[r] EXCEPT !.at = l, !.count = c]]
        PROVE  RefusedInv' /\ dead \subseteq dead'
    <3> DEFINE R == [run[r] EXCEPT !.at = l, !.count = c]
    <3>1. run' = [run EXCEPT ![r] = R]
      BY <2>3
    <3>2. R.at # "clear"
      BY <2>1 DEF Run
    <3> HIDE DEF R
    <3> QED
      BY <1>1, <1>3, <2>1, <3>1, <3>2
  <2>4. AfterEmit(r) \in {"token", "complete"}
    BY DEF AfterEmit
  <2>5. Unread(To(r)) \in Nat
    BY <1>1, <2>1, RunRows, UnreadCounts DEF Attempting
  <2>6. \/ \E l \in {"token", "complete"} : RunGoto(r, l)
        \/ run' = [run EXCEPT ![r] = [run[r] EXCEPT !.at = "badge", !.count = Unread(To(r))]]
        \/ run' = [run EXCEPT ![r] = [run[r] EXCEPT !.at = AfterEmit(r), !.count = 0]]
    BY <1>5, <2>4 DEF RunClear, RunCount, RunEmit
  <2> QED
    BY <2>2, <2>3, <2>4, <2>5, <2>6
<1>6. ASSUME NEW r \in Runner, RunToken(r)
      PROVE  RefusedInv' /\ dead \subseteq dead'
  <2> DEFINE t == token[To(r)]
             R == [run[r] EXCEPT !.at = IF t = None THEN "complete" ELSE "push", !.token = t]
  <2>1. run' = [run EXCEPT ![r] = R] /\ dead' = dead /\ run[r] # None
    BY <1>6 DEF RunToken, At
  <2>2. R.at # "clear"
    BY <1>1, <2>1, RunRows DEF Run
  <2> HIDE DEF R
  <2> QED
    BY <1>1, <1>3, <2>1, <2>2
<1>7. ASSUME NEW r \in Runner, RunPush(r)
      PROVE  RefusedInv' /\ dead \subseteq dead'
  <2>1. PICK l \in {"clear", "complete"} :
          RunGoto(r, l) /\ dead' = dead /\ run[r] # None /\ (l = "clear" => run[r].token \in dead)
    BY <1>7 DEF RunPush, At
  <2> QED
    BY <1>1, <1>3, <2>1, RunGoes
<1>8. ASSUME NEW r \in Runner, RunComplete(r) \/ RunFail(r)
      PROVE  RefusedInv' /\ dead \subseteq dead'
  <2>1. run' = [run EXCEPT ![r] = None] /\ dead' = dead
    BY <1>8 DEF RunComplete, RunFail
  <2> QED
    BY <1>1, <1>3, <2>1
<1>9. CASE NoteNext
  BY <1>2, <1>4, <1>5, <1>6, <1>7, <1>8, <1>9
     DEF NoteNext, Work, MarkAllRead, MarkRead, GetMyNotifications, MarkCount, MarkEmit, MarkFail,
         SaveToken, ClearToken, TokenDies, unchangedByMark, queueVars
<1>10. CASE Crash
  BY <1>10 DEF Crash, RunnersStop, RefusedInv, At
<1>11. ASSUME NEW w \in Worker, Starts(w) \/ Serve(w) PROVE run' = run /\ dead' = dead
  BY <1>11 DEF Starts, CreateStart, WebhookStart, Start, Serve, CreateFind, CreateInsert,
               WebhookMatch, WebhookUpdate, NotifyRow, NotifyQueue, NotifyCount, NotifyEmit, Fault,
               noteVars, queueVars
<1> QED
  BY <1>2, <1>9, <1>10, <1>11 DEF Next, Starts, Announce, vars, noteVars

\* The worker clears a token that the push service has refused, or one that
\* was saved since the worker read the column.
THEOREM TokenTheorem == Spec => TokenKept
<1> DEFINE Step ==
      \A r \in Runner : At(r, "clear") /\ run'[r] # run[r] /\ token' # token =>
        token[To(r)] \in dead \/ token[To(r)] # run[r].token
<1>1. Init => RefusedInv
  BY DEF Init, NoteInit, RefusedInv, At
<1>2. IInv /\ RefusedInv /\ [Next]_vars => RefusedInv'
  BY NextRefused
<1>3. RefusedInv => Step
  BY DEF RefusedInv
<1>4. RefusedInv => [Step]_vars
  BY <1>3
<1> QED
  BY <1>1, <1>2, <1>4, Inductive, PTL DEF Spec, TokenKept

-----------------------------------------------------------------------------
(* The unread badge: unless something fails, the count that a user was     *)
(* shown last is right or was outrun, or its last reader has yet to emit   *)
(* it, or somebody is about to read it.                                    *)

\* Actor `by` is going to read the count of u.
Owes(u, by) ==
  \/ by = <<"app", u>> /\ mark[u] # None /\ mark[u].at = "count"
  \/ \E w \in Worker :
       by = <<"request", w>> /\ pc[w] \in {"queue", "count"} /\ notes[job[w].note].to = u

\* Actor `by` is about to emit the count c to u.
Carries(u, by, c) ==
  \/ by = <<"app", u>> /\ mark[u] # None /\ mark[u].at = "badge" /\ mark[u].count = c
  \/ \E w \in Worker :
       by = <<"request", w>> /\ pc[w] = "emit" /\ notes[job[w].note].to = u /\ job[w].count = c
  \/ \E r \in Runner :
       by = <<"runner", r>> /\ At(r, "badge") /\ To(r) = u /\ run[r].count = c

Owed(u) == \E by \in Actor : Owes(u, by)

\* Unless the count of u is going to be read: the one that was read last, if it is yet
\* to be emitted, and otherwise the one that was emitted last, is right.
InOrder(u) ==
  \/ latest[u] = None /\ (Owed(u) \/ shown[u] = Unread(u) \/ u \in outrun)
  \/ \E by \in Actor, c \in Nat :
       latest[u] = by /\ Carries(u, by, c) /\ (Owed(u) \/ c = Unread(u))

BadgeInv == faults = 0 => \A u \in User : InOrder(u)

\* A step of actor x: what the others are about to do stays.
StepOf(x) ==
  /\ \A n \in 1..Len(notes) : notes'[n].to = notes[n].to
  /\ \A u \in User : <<"app", u>> # x => mark'[u] = mark[u]
  /\ \A w \in Worker : <<"request", w>> # x => pc'[w] = pc[w] /\ job'[w] = job[w]
  /\ \A r \in Runner : <<"runner", r>> # x => run'[r] = run[r]

LEMMA OthersStay ==
  ASSUME TypeOK, Attempting, NEW x, StepOf(x), NEW u \in User, NEW by, by # x
  PROVE  /\ Owes(u, by) => Owes(u, by)'
         /\ \A c : Carries(u, by, c) => Carries(u, by, c)'
<1>1. \A w \in Worker : pc[w] \in {"queue", "count", "emit"} => job[w].note \in 1..Len(notes)
  BY DEF TypeOK
<1>2. \A r \in Runner : run[r] # None => run[r].note \in 1..Len(notes)
  BY RunRows
<1>3. Owes(u, by) => Owes(u, by)'
  BY <1>1 DEF Owes, StepOf
<1>4. ASSUME NEW c, Carries(u, by, c) PROVE Carries(u, by, c)'
  <2>1. CASE by = <<"app", u>> /\ mark[u] # None /\ mark[u].at = "badge" /\ mark[u].count = c
    BY <2>1 DEF Carries, StepOf
  <2>2. ASSUME NEW w \in Worker, by = <<"request", w>>, pc[w] = "emit",
               notes[job[w].note].to = u, job[w].count = c
        PROVE  Carries(u, by, c)'
    BY <1>1, <2>2 DEF Carries, StepOf
  <2>3. ASSUME NEW r \in Runner, by = <<"runner", r>>, At(r, "badge"), To(r) = u, run[r].count = c
        PROVE  Carries(u, by, c)'
    BY <1>2, <2>3 DEF Carries, StepOf, At, To
  <2> QED
    BY <1>4, <2>1, <2>2, <2>3 DEF Carries
<1> QED
  BY <1>3, <1>4

\* An actor carries one count.
LEMMA CarriesOne ==
  ASSUME NEW u, NEW by, NEW c, NEW d, Carries(u, by, c), Carries(u, by, d)
  PROVE  c = d
BY DEF Carries

\* A step of x that neither reads nor emits the count of u.
LEMMA UserKept ==
  ASSUME TypeOK, Attempting, NEW x, StepOf(x), NEW u \in User, InOrder(u),
         latest'[u] = latest[u], shown'[u] = shown[u], u \in outrun => u \in outrun',
         Unread(u)' = Unread(u) \/ Owed(u)',
         Owes(u, x) => Owes(u, x)',
         \A c \in Nat : ~Carries(u, x, c)
  PROVE  InOrder(u)'
<1>1. Owed(u) => Owed(u)'
  <2>1. ASSUME NEW by \in Actor, Owes(u, by) PROVE Owes(u, by)'
    BY <2>1, OthersStay
  <2> QED
    BY <2>1 DEF Owed
<1>2. CASE latest[u] = None /\ (Owed(u) \/ shown[u] = Unread(u) \/ u \in outrun)
  BY <1>1, <1>2 DEF InOrder
<1>3. ASSUME NEW by \in Actor, NEW c \in Nat, latest[u] = by, Carries(u, by, c),
             Owed(u) \/ c = Unread(u)
      PROVE  InOrder(u)'
  <2>1. by # x
    BY <1>3
  <2>2. Carries(u, by, c)'
    BY <1>3, <2>1, OthersStay
  <2> QED
    BY <1>1, <1>3, <2>2 DEF InOrder
<1> QED
  BY <1>2, <1>3 DEF InOrder

\* x reads the count of v.
LEMMA CountKept ==
  ASSUME TypeOK, Attempting, NEW x \in Actor, StepOf(x), NEW v \in User, Count(v, x),
         UNCHANGED notes, Carries(v, x, Unread(v))',
         \A u \in User \ {v} : ~Owes(u, x) /\ \A c \in Nat : ~Carries(u, x, c),
         \A u \in User : InOrder(u)
  PROVE  \A u \in User : InOrder(u)'
<1>1. /\ latest \in [User -> Actor \cup {None}]
      /\ latest' = [latest EXCEPT ![v] = x] /\ UNCHANGED <<shown, outrun>>
  BY DEF Count, TypeOK, NoteTypeOK
<1>2. \A u \in User : Unread(u)' = Unread(u)
  BY DEF Unread
<1>3. InOrder(v)'
  <2>1. Unread(v) \in Nat /\ Unread(v)' = Unread(v)
    BY <1>2, UnreadCounts DEF Attempting
  <2> DEFINE d == Unread(v)
  <2>2. latest'[v] = x
    BY <1>1
  <2>3. \E c \in Nat : Carries(v, x, c)' /\ c = Unread(v)'
    BY <2>1
  <2> QED
    BY <2>2, <2>3 DEF InOrder
<1>4. ASSUME NEW u \in User, u # v PROVE InOrder(u)'
  <2>1. latest'[u] = latest[u]
    BY <1>1, <1>4
  <2> QED
    BY <1>1, <1>2, <1>4, <2>1, UserKept
<1> QED
  BY <1>3, <1>4

\* x emits to v what it has read.
LEMMA EmitKept ==
  ASSUME TypeOK, Attempting, NEW x \in Actor, StepOf(x), NEW v \in User, NEW c \in Nat,
         Emit(v, x, c), UNCHANGED notes, Carries(v, x, c),
         \A u \in User : ~Owes(u, x),
         \A u \in User \ {v} : \A d \in Nat : ~Carries(u, x, d),
         \A u \in User : InOrder(u)
  PROVE  \A u \in User : InOrder(u)'
<1>1. /\ latest \in [User -> Actor \cup {None}] /\ shown \in [User -> Nat]
      /\ shown' = [shown EXCEPT ![v] = c]
      /\ IF latest[v] = x
         THEN outrun' = outrun \ {v} /\ latest' = [latest EXCEPT ![v] = None]
         ELSE outrun' = outrun \cup {v} /\ UNCHANGED latest
  BY DEF Emit, TypeOK, NoteTypeOK
<1>2. \A u \in User : Unread(u)' = Unread(u)
  BY DEF Unread
<1>3. Owed(v) => Owed(v)'
  <2>1. ASSUME NEW by \in Actor, Owes(v, by) PROVE Owes(v, by)'
    BY <2>1, OthersStay
  <2> QED
    BY <2>1 DEF Owed
<1>4. InOrder(v)'
  <2>1. CASE latest[v] = x
    <3>1. latest'[v] = None /\ shown'[v] = c
      BY <1>1, <2>1
    <3>2. Owed(v) \/ c = Unread(v)
      BY <2>1, CarriesOne, NotificationAssumption DEF InOrder
    <3> QED
      BY <1>2, <1>3, <3>1, <3>2 DEF InOrder
  <2>2. CASE latest[v] = None
    <3>1. latest'[v] = None /\ v \in outrun'
      BY <1>1, <2>2, NotificationAssumption
    <3> QED
      BY <3>1 DEF InOrder
  <2>3. CASE latest[v] # x /\ latest[v] # None
    <3>1. PICK by \in Actor, d \in Nat :
            latest[v] = by /\ Carries(v, by, d) /\ (Owed(v) \/ d = Unread(v))
      BY <2>3 DEF InOrder
    <3>2. latest'[v] = by /\ by # x
      BY <1>1, <2>3, <3>1
    <3>3. Carries(v, by, d)'
      BY <3>1, <3>2, OthersStay
    <3> QED
      BY <1>2, <1>3, <3>1, <3>2, <3>3 DEF InOrder
  <2> QED
    BY <2>1, <2>2, <2>3
<1>5. ASSUME NEW u \in User, u # v PROVE InOrder(u)'
  <2>1. latest'[u] = latest[u] /\ shown'[u] = shown[u] /\ (u \in outrun => u \in outrun')
    BY <1>1, <1>5
  <2> QED
    BY <1>2, <1>5, <2>1, UserKept
<1> QED
  BY <1>4, <1>5

LEMMA RunnerBadge ==
  ASSUME TypeOK, Attempting, NEW r \in Runner,
         \/ \E n \in Note : RunTake(r, n)
         \/ RunStep(r),
         faults = 0, faults' = 0, UNCHANGED <<pc, job>>, \A u \in User : InOrder(u)
  PROVE  \A u \in User : InOrder(u)'
<1> DEFINE x == <<"runner", r>>
<1>1. /\ x \in Actor /\ run \in [Runner -> Run \cup {None}]
      /\ \A u \in User : ~Owes(u, x)
      /\ \A u \in User, c \in Nat : Carries(u, x, c) => At(r, "badge") /\ To(r) = u
  BY DEF Actor, Owes, Carries, Attempting, NoteTypeOK
<1>2. StepOf(x) /\ notes' = notes
  <2>1. UNCHANGED <<notes, mark>> /\ \E R : run' = [run EXCEPT ![r] = R]
    BY DEF RunTake, RunStep, RunCount, RunEmit, RunToken, RunPush, RunClear, RunComplete, RunFail,
           RunGoto
  <2>2. \A q \in Runner : q # r => run'[q] = run[q]
    BY <1>1, <2>1
  <2> QED
    BY <2>1, <2>2 DEF StepOf
<1>3. ~Fails
  BY DEF Fails
<1>4. CASE RunCount(r)
  <2>1. /\ run[r] # None /\ run[r] \in Run /\ run[r].note \in 1..Len(notes) /\ To(r) \in User
        /\ ~At(r, "badge")
    BY <1>4, RunRows DEF RunCount, At
  <2> DEFINE v == To(r)
             R == [run[r] EXCEPT !.at = "badge", !.count = Unread(v)]
  <2>2. Count(v, x) /\ run' = [run EXCEPT ![r] = R]
    BY <1>3, <1>4 DEF RunCount
  <2>3. R.at = "badge" /\ R.count = Unread(v) /\ R.note = run[r].note /\ R \in Run
    <3>1. Unread(v) \in Nat
      BY <2>1, UnreadCounts DEF Attempting
    <3> QED
      BY <2>1, <3>1 DEF Run
  <2> HIDE DEF R
  <2>4. run'[r] = R /\ R # None
    BY <1>1, <2>2, <2>3, NotificationAssumption
  <2>5. \A u \in User : Unread(u)' = Unread(u)
    <3>1. UNCHANGED notes
      BY <1>2
    <3> QED
      BY <3>1, Zenon DEF Unread
  <2> HIDE DEF v
  <2>6. ASSUME NEW u \in User, u = v PROVE Carries(u, x, Unread(u))'
    <3>1. To(r)' = v
      BY <1>2, <2>3, <2>4 DEF To, v
    <3> QED
      BY <2>3, <2>4, <2>5, <2>6, <3>1 DEF Carries, At
  <2>7. v \in User /\ \A u \in User \ {v} : \A c \in Nat : ~Carries(u, x, c)
    BY <1>1, <2>1 DEF v
  <2>8. PICK u \in User : u = v
    BY <2>7
  <2> HIDE DEF x
  <2>9. Carries(u, x, Unread(u))' /\ Count(u, x)
    BY <2>2, <2>6, <2>8
  <2> QED
    BY <1>1, <1>2, <2>7, <2>8, <2>9, CountKept
<1>5. CASE RunEmit(r)
  <2>1. run[r] # None /\ To(r) \in User /\ run[r].count \in Nat
    BY <1>5, RunRows DEF RunEmit, At, Run
  <2>2. Emit(To(r), x, run[r].count) /\ Carries(To(r), x, run[r].count)
    BY <1>5 DEF RunEmit, Carries
  <2>3. \A u \in User \ {To(r)} : \A d \in Nat : ~Carries(u, x, d)
    BY <1>1
  <2>4. PICK v \in User, c \in Nat : v = To(r) /\ c = run[r].count
    BY <2>1
  <2> HIDE DEF x
  <2> QED
    BY <1>1, <1>2, <2>2, <2>3, <2>4, EmitKept
<1>6. CASE ~RunCount(r) /\ ~RunEmit(r)
  <2>1. UNCHANGED badgeVars /\ ~At(r, "badge")
    BY <1>3, <1>6 DEF RunTake, RunStep, RunToken, RunPush, RunClear, RunComplete, RunFail, At
  <2>2. \A u \in User : /\ latest'[u] = latest[u] /\ shown'[u] = shown[u] /\ (u \in outrun => u \in outrun')
                        /\ Unread(u)' = Unread(u) /\ \A c \in Nat : ~Carries(u, x, c)
    BY <1>1, <1>2, <2>1 DEF badgeVars, Unread
  <2> HIDE DEF x
  <2> QED
    BY <1>1, <1>2, <2>2, UserKept
<1> QED
  BY <1>4, <1>5, <1>6

\* Rows that are appended or marked for v leave the others' counts alone.
LEMMA UnreadOfOthers ==
  ASSUME NoteTypeOK, NEW v \in User,
         \/ \E about, push : InsertNote(v, about, push)
         \/ MarkAllRead(v)
         \/ \E n \in Note : MarkRead(v, n)
  PROVE  \A u \in User \ {v} : Unread(u)' = Unread(u)
<1> SUFFICES ASSUME NEW u \in User \ {v}
             PROVE  {n \in 1..Len(notes) : notes[n].to = u /\ ~notes[n].read} =
                    {n \in 1..Len(notes') : notes'[n].to = u /\ ~notes'[n].read}
  BY DEF Unread
<1>1. notes \in Seq(NoteRow) /\ Len(notes) \in Nat
  BY NoteRows DEF NoteTypeOK
<1>2. ASSUME NEW about, NEW push, InsertNote(v, about, push)
      PROVE  {n \in 1..Len(notes) : notes[n].to = u /\ ~notes[n].read} =
             {n \in 1..Len(notes') : notes'[n].to = u /\ ~notes'[n].read}
  <2> DEFINE row == [to |-> v, about |-> about, push |-> push, read |-> FALSE]
  <2>1. notes' = Append(notes, row) /\ row.to = v
    BY <1>2 DEF InsertNote
  <2> HIDE DEF row
  <2>2. /\ Len(notes') = Len(notes) + 1 /\ notes'[Len(notes) + 1] = row
        /\ \A n \in 1..Len(notes) : notes'[n] = notes[n]
    BY <1>1, <2>1
  <2>3. \A m \in 1..Len(notes') : m \in 1..Len(notes) \/ m = Len(notes) + 1
    BY <1>1, <2>2
  <2>4. 1..Len(notes) \subseteq 1..Len(notes')
    BY <1>1, <2>2
  <2> QED
    BY <2>1, <2>2, <2>3, <2>4
<1>3. CASE MarkAllRead(v)
  <2>1. notes' = [m \in 1..Len(notes) |->
                    IF notes[m].to = v THEN [notes[m] EXCEPT !.read = TRUE] ELSE notes[m]]
    BY <1>3 DEF MarkAllRead, AllMarked
  <2>2. \A m \in 1..Len(notes) : [notes[m] EXCEPT !.read = TRUE].to = notes[m].to
    BY NoteRows DEF NoteRow
  <2>3. Len(notes') = Len(notes)
    BY <1>1, <2>1
  <2>4. \A m \in 1..Len(notes) :
          /\ notes'[m].to = notes[m].to
          /\ notes[m].to # v => notes'[m] = notes[m]
    BY <2>1, <2>2
  <2> QED
    BY <2>3, <2>4
<1>4. ASSUME NEW n \in Note, MarkRead(v, n)
      PROVE  {m \in 1..Len(notes) : notes[m].to = u /\ ~notes[m].read} =
             {m \in 1..Len(notes') : notes'[m].to = u /\ ~notes'[m].read}
  <2>1. /\ n \in 1..Len(notes) /\ notes[n].to = v
        /\ notes' = [notes EXCEPT ![n] = [notes[n] EXCEPT !.read = TRUE]]
    BY <1>4 DEF MarkRead
  <2>2. [notes[n] EXCEPT !.read = TRUE].to = v
    BY <2>1, NoteRows DEF NoteRow
  <2>3. Len(notes') = Len(notes) /\ notes'[n].to = v
        /\ \A m \in 1..Len(notes) : m # n => notes'[m] = notes[m]
    BY <1>1, <2>1, <2>2
  <2> QED
    BY <2>1, <2>3
<1> QED
  BY <1>2, <1>3, <1>4

LEMMA AppBadge ==
  ASSUME TypeOK, Attempting, NEW v \in User, AppStep(v),
         faults = 0, faults' = 0, UNCHANGED <<pc, job>>, \A u \in User : InOrder(u)
  PROVE  \A u \in User : InOrder(u)'
<1> DEFINE x == <<"app", v>>
<1>1. /\ x \in Actor /\ mark \in [User -> Mark \cup {None}]
      /\ \A u \in User : Owes(u, x) => u = v /\ mark[v] # None /\ mark[v].at = "count"
      /\ \A u \in User, c \in Nat : Carries(u, x, c) => u = v /\ mark[v] # None /\ mark[v].at = "badge"
  BY DEF Actor, Owes, Carries, Attempting, NoteTypeOK
<1>2. StepOf(x)
  <2>1. \A n \in 1..Len(notes) : notes'[n].to = notes[n].to
    BY MarksTyped DEF NotesStay
  <2>2. run' = run /\ \A u \in User \ {v} : mark'[u] = mark[u]
    BY <1>1 DEF AppStep, MarkAllRead, MarkRead, GetMyNotifications, MarkCount, MarkEmit, MarkFail,
                ThenCount, queueVars, unchangedByMark
  <2> QED
    BY <2>1, <2>2 DEF StepOf
<1>3. ~MarkFail(v)
  BY DEF MarkFail, Fails
<1>4. CASE MarkCount(v)
  <2> DEFINE M == [at |-> "badge", count |-> Unread(v)]
  <2>1. /\ Count(v, x) /\ mark' = [mark EXCEPT ![v] = M] /\ UNCHANGED notes
        /\ mark[v] # None /\ mark[v].at = "count"
    BY <1>4 DEF MarkCount
  <2>2. M \in Mark /\ M.at = "badge" /\ M.count = Unread(v)
    BY UnreadCounts DEF Mark, Attempting
  <2>3. Unread(v) = Unread(v)'
    BY <2>1 DEF Unread
  <2> HIDE DEF M
  <2>4. mark'[v] = M /\ M # None
    BY <1>1, <2>1, <2>2, NotificationAssumption
  <2>5. Carries(v, x, Unread(v))'
    BY <2>2, <2>3, <2>4 DEF Carries
  <2>6. \A u \in User \ {v} : ~Owes(u, x) /\ \A c \in Nat : ~Carries(u, x, c)
    BY <1>1
  <2> HIDE DEF x
  <2> QED
    BY <1>1, <1>2, <2>1, <2>5, <2>6, CountKept
<1>5. CASE MarkEmit(v)
  <2>1. /\ Emit(v, x, mark[v].count) /\ UNCHANGED notes
        /\ mark[v] # None /\ mark[v].at = "badge"
    BY <1>5 DEF MarkEmit
  <2>2. mark[v].count \in Nat
    BY <1>1, <2>1 DEF Mark
  <2>3. Carries(v, x, mark[v].count)
    BY <2>1 DEF Carries
  <2>4. /\ \A u \in User : ~Owes(u, x)
        /\ \A u \in User \ {v} : \A d \in Nat : ~Carries(u, x, d)
    BY <1>1, <2>1
  <2>5. PICK c \in Nat : c = mark[v].count
    BY <2>2
  <2> HIDE DEF x
  <2> QED
    BY <1>1, <1>2, <2>1, <2>3, <2>4, <2>5, EmitKept
<1>6. CASE MarkAllRead(v) \/ (\E n \in Note : MarkRead(v, n)) \/ GetMyNotifications(v)
  <2>1. UNCHANGED badgeVars /\ mark[v] = None /\ ThenCount(v)
    BY <1>6 DEF MarkAllRead, MarkRead, GetMyNotifications
  <2>2. Owes(v, x)'
    <3>1. mark'[v] = [at |-> "count", count |-> 0] /\ [at |-> "count", count |-> 0] \in Mark
      BY <1>1, <2>1 DEF ThenCount, Mark
    <3> QED
      BY <3>1, NotificationAssumption DEF Owes
  <2>3. \A u \in User : /\ latest'[u] = latest[u] /\ shown'[u] = shown[u] /\ (u \in outrun => u \in outrun')
                        /\ Owes(u, x) => Owes(u, x)' 
                        /\ \A c \in Nat : ~Carries(u, x, c)
    BY <1>1, <2>1 DEF badgeVars
  <2>4. \A u \in User \ {v} : Unread(u)' = Unread(u)
    <3>1. CASE GetMyNotifications(v)
      BY <3>1 DEF GetMyNotifications, Unread
    <3> QED
      BY <1>6, <3>1, UnreadOfOthers DEF Attempting
  <2>5. Owed(v)'
    BY <1>1, <2>2 DEF Owed
  <2> HIDE DEF x
  <2>6. InOrder(v)'
    BY <1>2, <2>3, <2>5, UserKept
  <2>7. ASSUME NEW u \in User, u # v PROVE InOrder(u)'
    BY <1>2, <2>3, <2>4, <2>7, UserKept
  <2> QED
    BY <2>6, <2>7
<1> QED
  BY <1>3, <1>4, <1>5, <1>6 DEF AppStep

LEMMA RequestBadge ==
  ASSUME TypeOK, Attempting, \A w \in Worker : InRequest(w), NEW w \in Worker,
         Starts(w) \/ Serve(w), faults = 0, faults' = 0, \A u \in User : InOrder(u)
  PROVE  \A u \in User : InOrder(u)'
<1> DEFINE x == <<"request", w>>
<1> USE DEF Goto, Respond, Answer200
<1>1. /\ x \in Actor /\ pc \in [Worker -> PC] /\ job \in [Worker -> Job \cup {None}]
      /\ \A u \in User : Owes(u, x) => pc[w] \in {"queue", "count"} /\ notes[job[w].note].to = u
      /\ \A u \in User, c \in Nat : Carries(u, x, c) => pc[w] = "emit" /\ notes[job[w].note].to = u
      /\ ~Fault(w)
  BY DEF Actor, Owes, Carries, TypeOK, Fault, Fails
<1>2. /\ UNCHANGED <<mark, run>>
      /\ \A v \in Worker \ {w} : pc'[v] = pc[v] /\ job'[v] = job[v]
  BY <1>1 DEF Starts, CreateStart, WebhookStart, Start, Serve, CreateFind, CreateInsert, WebhookMatch,
              WebhookUpdate, NotifyRow, NotifyQueue, NotifyCount, NotifyEmit, noteVars, queueVars
<1>3. \A n \in 1..Len(notes) : notes'[n].to = notes[n].to
  <2>1. CASE NotifyRow(w)
    BY <2>1, NoteRows DEF NotifyRow, InsertNote, Attempting, NoteTypeOK
  <2>2. CASE UNCHANGED notes
    BY <2>2
  <2> QED
    BY <1>1, <2>1, <2>2 DEF Starts, CreateStart, WebhookStart, Start, Serve, CreateFind, CreateInsert,
              WebhookMatch, WebhookUpdate, NotifyQueue, NotifyCount, NotifyEmit, noteVars
<1>4. StepOf(x)
  BY <1>2, <1>3 DEF StepOf
<1>5. CASE UNCHANGED <<notes, badgeVars>> /\ pc[w] \notin {"queue", "count", "emit"}
  <2>1. \A u \in User : Unread(u)' = Unread(u)
    BY <1>5 DEF Unread
  <2>2. \A u \in User : /\ latest'[u] = latest[u] /\ shown'[u] = shown[u] /\ (u \in outrun => u \in outrun')
                        /\ ~Owes(u, x) /\ \A c \in Nat : ~Carries(u, x, c)
    BY <1>1, <1>5 DEF badgeVars
  <2> HIDE DEF x
  <2> QED
    BY <1>4, <2>1, <2>2, UserKept
<1>6. CASE NotifyRow(w)
  <2> DEFINE n == Len(notes) + 1
             j == [job[w] EXCEPT !.note = n]
             to == Recipient(w)
  <2>1. /\ pc[w] = "row" /\ to \in User /\ job[w] \in Job /\ UNCHANGED badgeVars
        /\ InsertNote(to, job[w].event, TRUE)
        /\ pc' = [pc EXCEPT ![w] = "queue"] /\ job' = [job EXCEPT ![w] = j]
    BY <1>6, RecipientIsUser, JobTypes DEF NotifyRow
  <2>2. notes'[n].to = to
    BY <2>1, NoteRows DEF InsertNote, Attempting, NoteTypeOK
  <2>3. j.note = n
    BY <2>1 DEF Job
  <2> HIDE DEF j, n, to
  <2>4. pc'[w] = "queue" /\ job'[w].note = n
    BY <1>1, <2>1, <2>3
  <2>5. PICK v \in User : v = to
    BY <2>1
  <2>6. Owed(v)'
    BY <1>1, <2>2, <2>4, <2>5 DEF Owed, Owes
  <2>7. \A u \in User \ {v} : Unread(u)' = Unread(u)
    BY <2>1, <2>5, UnreadOfOthers DEF Attempting
  <2>8. \A u \in User : /\ latest'[u] = latest[u] /\ shown'[u] = shown[u] /\ (u \in outrun => u \in outrun')
                        /\ ~Owes(u, x) /\ \A c \in Nat : ~Carries(u, x, c)
    BY <1>1, <2>1 DEF badgeVars
  <2> HIDE DEF x
  <2>9. InOrder(v)'
    BY <1>4, <2>6, <2>8, UserKept
  <2>10. ASSUME NEW u \in User, u # v PROVE InOrder(u)'
    BY <1>4, <2>7, <2>8, <2>10, UserKept
  <2> QED
    BY <2>9, <2>10
<1>7. CASE NotifyQueue(w)
  <2>1. /\ UNCHANGED <<notes, badgeVars, job>> /\ pc[w] = "queue"
        /\ pc' = [pc EXCEPT ![w] = "count"]
    BY <1>7 DEF NotifyQueue, unchanged
  <2>2. pc'[w] = "count"
    BY <1>1, <2>1
  <2>3. \A u \in User : Owes(u, x) => Owes(u, x)'
    BY <1>1, <2>1, <2>2 DEF Owes
  <2>4. \A u \in User : Unread(u)' = Unread(u)
    BY <2>1 DEF Unread
  <2>5. \A u \in User : /\ latest'[u] = latest[u] /\ shown'[u] = shown[u] /\ (u \in outrun => u \in outrun')
                        /\ \A c \in Nat : ~Carries(u, x, c)
    BY <1>1, <2>1 DEF badgeVars
  <2> HIDE DEF x
  <2> QED
    BY <1>4, <2>3, <2>4, <2>5, UserKept
<1>8. CASE NotifyCount(w)
  <2> DEFINE to == notes[job[w].note].to
             j == [job[w] EXCEPT !.count = Unread(to)]
  <2>1. /\ pc[w] = "count" /\ Count(to, x) /\ job' = [job EXCEPT ![w] = j]
        /\ pc' = [pc EXCEPT ![w] = "emit"] /\ UNCHANGED notes
    BY <1>8 DEF NotifyCount
  <2>2. /\ job[w] \in Job /\ job[w].note \in 1..Len(notes) /\ to \in User
    BY <2>1, JobTypes, NoteRows DEF TypeOK
  <2>3. j.count = Unread(to) /\ j.note = job[w].note
    BY <2>2 DEF Job
  <2> HIDE DEF j
  <2>4. pc'[w] = "emit" /\ job'[w] = j
    BY <1>1, <2>1
  <2>5. notes'[job'[w].note].to = to
    BY <2>1, <2>3, <2>4
  <2> HIDE DEF to
  <2>6. PICK v \in User : v = to
    BY <2>2
  <2>7. Unread(v)' = Unread(v)
    BY <2>1 DEF Unread
  <2>8. Carries(v, x, Unread(v))'
    BY <2>3, <2>4, <2>5, <2>6, <2>7 DEF Carries
  <2>9. \A u \in User \ {v} : ~Owes(u, x) /\ \A c \in Nat : ~Carries(u, x, c)
    BY <1>1, <2>1, <2>6 DEF to
  <2> HIDE DEF x
  <2> QED
    BY <1>1, <1>4, <2>1, <2>6, <2>8, <2>9, CountKept
<1>9. CASE NotifyEmit(w)
  <2>1. /\ pc[w] = "emit" /\ Emit(notes[job[w].note].to, x, job[w].count) /\ UNCHANGED notes
    BY <1>9 DEF NotifyEmit
  <2>2. job[w].count \in Nat /\ notes[job[w].note].to \in User
    BY <2>1, JobTypes, NoteRows DEF TypeOK, Job
  <2>3. PICK v \in User, c \in Nat : v = notes[job[w].note].to /\ c = job[w].count
    BY <2>2
  <2>4. Carries(v, x, c)
    BY <2>1, <2>3 DEF Carries
  <2>5. /\ \A u \in User : ~Owes(u, x)
        /\ \A u \in User \ {v} : \A d \in Nat : ~Carries(u, x, d)
    BY <1>1, <2>1, <2>3
  <2> HIDE DEF x
  <2> QED
    BY <1>1, <1>4, <2>1, <2>3, <2>4, <2>5, EmitKept
<1>10. CASE \/ Starts(w) \/ CreateFind(w) \/ CreateInsert(w) \/ WebhookMatch(w) \/ WebhookUpdate(w)
  <2>1. UNCHANGED <<notes, badgeVars>> /\ pc[w] \notin {"queue", "count", "emit"}
    BY <1>10 DEF Starts, CreateStart, WebhookStart, Start, CreateFind, CreateInsert, WebhookMatch,
                 WebhookUpdate, noteVars, badgeVars
  <2> QED
    BY <1>5, <2>1
<1> QED
  BY <1>1, <1>6, <1>7, <1>8, <1>9, <1>10 DEF Serve

\* A step that touches nobody's badge.
LEMMA AsideBadge ==
  ASSUME TypeOK, Attempting, UNCHANGED <<notes, mark, run, badgeVars, pc, job>>,
         \A u \in User : InOrder(u)
  PROVE  \A u \in User : InOrder(u)'
<1>1. StepOf(None)
  BY DEF StepOf
<1>2. \A u \in User : Unread(u)' = Unread(u)
  BY DEF Unread
<1>3. \A u \in User : ~Owes(u, None) /\ \A c \in Nat : ~Carries(u, None, c)
  BY NotificationAssumption DEF Owes, Carries, Actor
<1>4. \A u \in User : latest'[u] = latest[u] /\ shown'[u] = shown[u] /\ (u \in outrun => u \in outrun')
  BY DEF badgeVars
<1> QED
  BY <1>1, <1>2, <1>3, <1>4, UserKept

LEMMA NextBadge == IInv /\ BadgeInv /\ [Next]_vars => BadgeInv'
<1> SUFFICES ASSUME IInv, BadgeInv, [Next]_vars, faults' = 0 PROVE \A u \in User : InOrder(u)'
  BY Zenon DEF BadgeInv
<1>1. /\ TypeOK /\ Attempting /\ Pushes /\ Counted /\ InFlightInv /\ crashes \in Nat
      /\ faults \in Nat /\ \A w \in Worker : InRequest(w)
  BY NotificationAssumption DEF IInv, InFlightInv, TypeOK, NoteTypeOK
<1>2. faults = 0
  <2>1. CASE NoteNext /\ UNCHANGED donationVars
    BY <1>1, <2>1, NoteNextKeeps DEF donationVars
  <2>2. CASE Crash
    BY <1>1, <2>2 DEF Crash, Fails
  <2>3. ASSUME NEW w \in Worker, Starts(w) \/ Serve(w) PROVE faults' = faults \/ Fails
    BY <2>3 DEF Starts, CreateStart, WebhookStart, Start, Serve, CreateFind, CreateInsert,
                WebhookMatch, WebhookUpdate, NotifyRow, NotifyQueue, NotifyCount, NotifyEmit,
                Fault, noteVars
  <2>4. ASSUME NEW w \in Worker, Starts(w) \/ Serve(w) PROVE faults = 0
    BY <1>1, <2>3, <2>4 DEF Fails
  <2> QED
    BY <2>1, <2>2, <2>4 DEF Next, Starts, Announce, vars, noteVars
<1>3. \A u \in User : InOrder(u)
  BY <1>2 DEF BadgeInv
<1>4. CASE UNCHANGED <<notes, mark, run, badgeVars, pc, job>>
  BY <1>1, <1>3, <1>4, AsideBadge
<1>5. CASE NoteNext /\ UNCHANGED donationVars
  <2>1. UNCHANGED <<pc, job>>
    BY <1>5 DEF donationVars
  <2>2. ASSUME NEW r \in Runner, (\E n \in Note : RunTake(r, n)) \/ RunStep(r)
        PROVE  \A u \in User : InOrder(u)'
    BY <1>1, <1>2, <1>3, <2>1, <2>2, RunnerBadge
  <2>3. ASSUME NEW u \in User, AppStep(u) PROVE \A v \in User : InOrder(v)'
    BY <1>1, <1>2, <1>3, <2>1, <2>3, AppBadge
  <2>4. CASE \/ \E u \in User : ClearToken(u) \/ \E t \in Token : SaveToken(u, t)
             \/ \E t \in Token : TokenDies(t)
    <3>1. UNCHANGED <<notes, mark, run, badgeVars>>
      BY <2>4 DEF ClearToken, SaveToken, TokenDies, queueVars
    <3> QED
      BY <1>4, <2>1, <3>1
  <2> QED
    BY <1>5, <2>2, <2>3, <2>4, NotificationAssumption DEF NoteNext, Work, RunStep, AppStep
<1>6. CASE Crash
  BY <1>1, <1>6 DEF Crash, Fails
<1>7. ASSUME NEW w \in Worker, Starts(w) \/ Serve(w) PROVE \A u \in User : InOrder(u)'
  BY <1>1, <1>2, <1>3, <1>7, RequestBadge
<1>8. ASSUME NEW kind \in Kind, Announce(kind) PROVE \A u \in User : InOrder(u)'
  BY <1>4, <1>8 DEF Announce, noteVars, badgeVars
<1>9. CASE UNCHANGED vars
  BY <1>4, <1>9 DEF vars, noteVars, donationVars, badgeVars
<1> QED
  BY <1>5, <1>6, <1>7, <1>8, <1>9 DEF Next, Starts

\* When no call has failed, the process has not stopped, and nobody has a count to
\* read or to emit, the count every user was shown last is right, or it was read
\* before another that was emitted earlier: no interleaving of the recipients'
\* requests, the callers' and the job worker makes it wrong in any other way.
THEOREM BadgeTheorem == Spec => []BadgeIsCurrent
<1>1. Init => BadgeInv
  <2> SUFFICES ASSUME Init, NEW u \in User PROVE InOrder(u)
    BY DEF BadgeInv
  <2>1. latest[u] = None /\ shown[u] = 0 /\ notes = <<>>
    BY DEF Init, NoteInit
  <2>2. Unread(u) = Cardinality({})
    <3>1. 1..Len(notes) = {}
      BY <2>1
    <3>2. {n \in 1..Len(notes) : notes[n].to = u /\ ~notes[n].read} = {}
      BY <3>1
    <3> QED
      BY <3>2 DEF Unread
  <2> QED
    BY <2>1, <2>2, FS_EmptySet DEF InOrder
<1>2. IInv /\ BadgeInv => BadgeIsCurrent
  <2> SUFFICES ASSUME IInv, BadgeInv, faults = 0, NothingToEmit, NEW u \in User
               PROVE  shown[u] = Unread(u) \/ u \in outrun
    BY Zenon DEF BadgeIsCurrent
  <2>1. \A by : ~Owes(u, by) /\ \A c : ~Carries(u, by, c)
    BY DEF NothingToEmit, Owes, Carries
  <2>2. InOrder(u)
    BY DEF BadgeInv
  <2> QED
    BY <2>1, <2>2 DEF InOrder, Owed
<1> QED
  BY <1>1, <1>2, NextBadge, Inductive, PTL DEF Spec

=============================================================================
