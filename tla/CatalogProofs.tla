--------------------------- MODULE CatalogProofs ---------------------------
(***************************************************************************)
(* Proofs about Catalog for any sets of rows and concurrent requests and   *)
(* any number of requests.                                                 *)
(*                                                                         *)
(* The calls of the four services take few shapes: a request begins, reads *)
(* something, ends, uploads, writes its row, removes an image, or turns to *)
(* undo what it did.  NextActs shows that every step has one of them, and  *)
(* the invariants are shown for the shapes; so are they for Crash.         *)
(*                                                                         *)
(* ImageInv holds however requests overlap, as long as no body has given   *)
(* the URL of another row's upload: an image that is about to be stored is *)
(* nobody else's, and whoever has read an image deletes it for the row it  *)
(* has read it from.  SerialInv holds until they overlap: what the request *)
(* has read is still so, and the bucket has nothing but the images in use  *)
(* and what the request's next call accounts for.                          *)
(***************************************************************************)
EXTENDS Catalog, TLAPS

-----------------------------------------------------------------------------
(* Types, and what a request has at each of its calls.                     *)

\* The local state j of a request whose next call is l.
JobOK(l, j) ==
  /\ l = "load" => j.op # "create"
  /\ l \in {"category", "subcategory"} => j.op \in {"create", "update"}
  /\ l = "category" => j.category # None
  /\ l = "subcategory" => j.subcategory # None
  /\ l \in {"name", "upload"} => j.op # "delete"
  /\ l \in {"load", "category", "subcategory", "name", "upload"} => j.new = 0
  /\ l = "upload" => j.field = "file"
  /\ l = "write" /\ j.field = "file" => j.new # 0
  /\ l = "drop" => j.op # "create" /\ j.old # 0 /\ (j.op # "delete" => j.new # 0)
  /\ l = "rollback" => j.op \in {"create", "update"} /\ j.new # 0
  /\ l = "load" \/ j.op = "create" => j.old = 0
  /\ j.field # "file" => j.new = 0
  /\ j.new # Outside
  /\ j.op = "profile" <=> j.row \in Profile
  /\ j.op = "profile" => j.field # "none"
  /\ j.op = "delete" => j.field = "none"

\* What can happen that leaves an image or a row behind.
Mishap == {"s3", "profile", "delete", "reused", "text", "category", "stop"}

TypeInv ==
  /\ rows \in [Id -> Row \cup {None}] /\ \A r \in Profile : rows[r] # None
  /\ uploads \in Nat /\ uploads >= Outside /\ bucket \subseteq (Outside + 1)..uploads
  /\ overlapped \in BOOLEAN
  /\ mishaps \subseteq Mishap /\ moved \subseteq Subcategory
  /\ pc \in [Worker -> PC] /\ job \in [Worker -> Job \cup {None}]
  /\ \A w \in Worker :
       /\ pc[w] = "idle" <=> job[w] = None
       /\ pc[w] # "idle" => JobOK(pc[w], job[w])
       /\ pc[w] # "idle" /\ job[w].op # "create" => rows[job[w].row] # None

\* Request w goes on to the call l with the local state j; the others stay.
Goes(w, l, j) ==
  /\ pc' = [pc EXCEPT ![w] = l]
  /\ job' = [job EXCEPT ![w] = j]

LEMMA FrameOK ==
  ASSUME TypeInv, NEW w \in Worker, NEW l \in PC, NEW j \in Job \cup {None}, Goes(w, l, j),
         l = "idle" <=> j = None,
         l # "idle" => JobOK(l, j) /\ (j.op # "create" => rows'[j.row] # None),
         \A r \in Id : rows[r] # None => rows'[r] # None
  PROVE  /\ pc' \in [Worker -> PC] /\ job' \in [Worker -> Job \cup {None}]
         /\ \A v \in Worker :
              /\ pc'[v] = "idle" <=> job'[v] = None
              /\ pc'[v] # "idle" => JobOK(pc'[v], job'[v])
              /\ pc'[v] # "idle" /\ job'[v].op # "create" => rows'[job'[v].row] # None
<1>1. /\ pc' \in [Worker -> PC] /\ pc'[w] = l /\ job'[w] = j
      /\ \A v \in Worker \ {w} : pc'[v] = pc[v] /\ job'[v] = job[v]
  BY DEF Goes, TypeInv
<1>2. job' \in [Worker -> Job \cup {None}]
  BY DEF Goes, TypeInv
<1>3. \A v \in Worker : pc[v] # "idle" => job[v] \in Job
  BY DEF TypeInv
<1>4. \A v \in Worker : pc[v] # "idle" => job[v].row \in Id
  BY <1>3 DEF Job
<1>5. ASSUME NEW v \in Worker
      PROVE  /\ pc'[v] = "idle" <=> job'[v] = None
             /\ pc'[v] # "idle" => JobOK(pc'[v], job'[v])
             /\ pc'[v] # "idle" /\ job'[v].op # "create" => rows'[job'[v].row] # None
  BY <1>1, <1>4 DEF TypeInv
<1> QED
  BY <1>1, <1>2, <1>5

LEMMA RespondGoes ==
  ASSUME TypeInv, NEW w \in Worker, Respond(w)
  PROVE  Goes(w, "idle", None) /\ "idle" \in PC
BY DEF Respond, Goto, Goes, TypeInv, PC

LEMMA GotoGoes ==
  ASSUME TypeInv, NEW w \in Worker, NEW l, Goto(w, l), UNCHANGED job
  PROVE  Goes(w, l, job[w])
BY DEF Goto, Goes, TypeInv

LEMMA Relations ==
  ASSUME NEW c, NEW s
  PROVE  /\ RelationStep(c, s) \in {"category", "subcategory", "name"}
         /\ RelationStep(c, s) = "category" => c # None
         /\ RelationStep(c, s) = "subcategory" => s # None
         /\ s # None => RelationStep(c, s) # "name"
BY DEF RelationStep
-----------------------------------------------------------------------------
(* The shapes of a step.                                                   *)

\* The calls that only read, and the upload.
Early == {"load", "category", "subcategory", "name", "upload"}

\* A request starts.
Begins(w) ==
  \E l \in {"load", "category", "subcategory", "name"}, k \in Job :
    /\ pc[w] = "idle" /\ Goes(w, l, k) /\ JobOK(l, k)
    /\ k.old = 0 /\ k.new = 0
    /\ k.op = "create" <=> rows[k.row] = None
    /\ l = "name" => k.op = "create" /\ k.subcategory = None
    /\ l # "load" => k.op = "create"
    /\ overlapped' = (overlapped \/ \E v \in Worker \ {w} : pc[v] # "idle")
    /\ UNCHANGED <<rows, bucket, uploads, mishaps, moved>>

\* What the row names, when it is read, is what the body does not give.
Keeps(k) ==
  k.op = "update" /\ k.row \in Program =>
    /\ k.category = None => rows[k.row].category = None
    /\ k.subcategory = None => rows[k.row].subcategory = None

\* The subcategory exists and is one of the category.
Agrees(k) ==
  k.subcategory # None =>
    /\ rows[k.subcategory] # None
    /\ k.category # None => rows[k.subcategory].category = k.category

\* A request has read something and goes on.
Reads(w) ==
  \E l \in {"category", "subcategory", "name", "upload", "write", "drop"}, k \in Job :
    /\ pc[w] \in Early \ {"upload"} /\ Goes(w, l, k) /\ JobOK(l, k)
    /\ k.op = job[w].op /\ k.row = job[w].row /\ k.field = job[w].field /\ k.new = 0
    /\ \/ /\ pc[w] = "load"
          /\ Live(k.row) /\ k.old = rows[k.row].image
          /\ Keeps(k) /\ (l = "name" /\ k.op # "profile" => k.subcategory = None)
          /\ l \in {"write", "drop"} => k.op = "delete" /\ (l = "write" => k.old = 0)
          /\ l # "upload"
       \/ /\ pc[w] \in {"category", "subcategory"}
          /\ k.old = job[w].old /\ k.subcategory = job[w].subcategory
          /\ k.op = "update" => k.category = job[w].category
          /\ l \in {"subcategory", "name"}
          /\ l = "name" => Agrees(k)
       \/ pc[w] = "name" /\ k = job[w] /\ l \in {"upload", "write"}
    /\ UNCHANGED <<rows, bucket, uploads, mishaps, moved, overlapped>>

\* A request ends without having written.
Ends(w) ==
  /\ pc[w] # "idle" /\ Goes(w, "idle", None)
  /\ mishaps \subseteq mishaps' /\ mishaps' \subseteq Mishap
  /\ \/ pc[w] \in Early
     \/ /\ pc[w] = "write" /\ job[w].op \in {"create", "update"}
        /\ job[w].new = 0 \/ mishaps' # {}
     \/ /\ pc[w] = "write" /\ job[w].op \in {"profile", "delete"}
        /\ Torn(w) \/ job[w].new # 0 => job[w].op \in mishaps'
     \/ pc[w] \in {"drop", "rollback"} /\ "s3" \in mishaps'
  /\ UNCHANGED <<rows, bucket, uploads, moved, overlapped>>

\* A file is uploaded.
Uploads(w) ==
  /\ pc[w] = "upload"
  /\ uploads' = uploads + 1 /\ bucket' = bucket \cup {uploads + 1}
  /\ \E l \in {"write", "drop"} :
       /\ Goes(w, l, [job[w] EXCEPT !.new = uploads + 1])
       /\ l = "drop" <=> job[w].op = "profile" /\ job[w].old # 0
  /\ UNCHANGED <<rows, mishaps, moved, overlapped>>

\* A text that replaces an image, or is that of another upload, is remembered.
Tells(w, image) ==
  job[w].field = "text" /\ job[w].url # image =>
    /\ Uploaded(image) => "text" \in mishaps'
    /\ Uploaded(job[w].url) => "reused" \in mishaps'

\* The row x that w writes over row r.
Written(w, x) ==
  LET r == job[w].row
  IN
  \/ /\ job[w].op = "create"
     /\ x = [live |-> TRUE, image |-> ImageAfter(w, 0), category |-> job[w].category,
             subcategory |-> job[w].subcategory]
     /\ Tells(w, 0) /\ UNCHANGED moved
  \/ /\ job[w].op = "update"
     /\ x.live = rows[r].live /\ x.image = ImageAfter(w, rows[r].image)
     /\ x.category = (IF job[w].given /\ job[w].category # None
                      THEN job[w].category ELSE rows[r].category)
     /\ x.subcategory = (IF job[w].given /\ job[w].subcategory # None
                         THEN job[w].subcategory ELSE rows[r].subcategory)
     /\ moved' = IF r \in Subcategory /\ x.category # rows[r].category
                 THEN moved \cup {r} ELSE moved
     /\ Tells(w, rows[r].image)
  \/ /\ job[w].op = "profile"
     /\ x = [rows[r] EXCEPT !.image = ImageAfter(w, rows[r].image)]
     /\ Tells(w, rows[r].image) /\ UNCHANGED moved
  \/ /\ job[w].op = "delete"
     /\ x = [rows[r] EXCEPT !.live = FALSE]
     /\ UNCHANGED moved

Writes(w) ==
  \E x \in Row, l \in {"idle", "drop"} :
    /\ pc[w] = "write" /\ Goes(w, l, IF l = "idle" THEN None ELSE job[w])
    /\ l = "drop" <=> job[w].op = "update" /\ job[w].new # 0 /\ job[w].old # 0
    /\ rows' = [rows EXCEPT ![job[w].row] = x] /\ Written(w, x)
    /\ mishaps \subseteq mishaps' /\ mishaps' \subseteq mishaps \cup {"text", "reused"}
    /\ UNCHANGED <<bucket, uploads, overlapped>>

\* An image is deleted, the old one or the one that was uploaded.
Removes(w) ==
  /\ \/ /\ pc[w] = "drop" /\ bucket' = bucket \ {job[w].old}
        /\ IF job[w].op = "update" THEN Goes(w, "idle", None) ELSE Goes(w, "write", job[w])
     \/ pc[w] = "rollback" /\ bucket' = bucket \ {job[w].new} /\ Goes(w, "idle", None)
  /\ UNCHANGED <<rows, uploads, mishaps, moved, overlapped>>

\* A refused write is rolled back; so is an update whose old image is not
\* deleted, while a deletion goes on.
Undoes(w) ==
  /\ \/ /\ pc[w] = "write" /\ job[w].op \in {"create", "update"} /\ job[w].new # 0
        /\ Goes(w, "rollback", job[w]) /\ UNCHANGED mishaps
     \/ /\ pc[w] = "drop" /\ job[w].op = "update" /\ Goes(w, "rollback", job[w])
        /\ mishaps' = mishaps \cup {"s3"}
     \/ /\ pc[w] = "drop" /\ job[w].op = "delete" /\ Goes(w, "write", job[w])
        /\ mishaps' = mishaps \cup {"s3"}
  /\ UNCHANGED <<rows, bucket, uploads, moved, overlapped>>

Acts(w) ==
  Begins(w) \/ Reads(w) \/ Ends(w) \/ Uploads(w) \/ Writes(w) \/ Removes(w) \/ Undoes(w)

\* What is known of a request in flight.
LEMMA InFlight ==
  ASSUME TypeInv, NEW w \in Worker, pc[w] # "idle"
  PROVE  /\ job[w] \in Job /\ job[w].row \in Id /\ JobOK(pc[w], job[w])
         /\ job[w].op # "create" => rows[job[w].row] \in Row
         /\ job[w].category \in Category \cup {None}
         /\ job[w].subcategory \in Subcategory \cup {None}
<1>1. job[w] \in Job
  BY DEF TypeInv
<1> QED
  BY <1>1 DEF TypeInv, Job

LEMMA StartBegins ==
  ASSUME TypeInv, NEW w \in Worker, pc[w] = "idle",
         NEW op \in {"create", "update", "profile", "delete"}, NEW r \in Id, NEW f \in ImageField,
         NEW c \in Category \cup {None}, NEW s \in Subcategory \cup {None},
         NEW l \in {"load", "category", "subcategory", "name"}, Start(w, op, r, f, c, s, l),
         op = "create" <=> rows[r] = None,
         IF op = "create" THEN l = RelationStep(c, s) ELSE l = "load",
         op = "profile" <=> r \in Profile, op = "profile" => f # "none", op = "delete" => f = "none"
  PROVE  Begins(w)
<1>u. PICK u \in URLs(f) :
        job' = [job EXCEPT ![w] = [op |-> op, row |-> r, field |-> f, category |-> c,
                                   subcategory |-> s, given |-> c # None \/ s # None,
                                   url |-> u, old |-> 0, new |-> 0]]
  BY DEF Start
<1>n. u \in Nat
  BY <1>u DEF URLs, Outside, TypeInv
<1> DEFINE k == [op |-> op, row |-> r, field |-> f, category |-> c, subcategory |-> s,
                 given |-> c # None \/ s # None, url |-> u, old |-> 0, new |-> 0]
<1>1. k \in Job
  BY <1>n DEF Job, ImageField
<1>2. /\ k.op = op /\ k.row = r /\ k.field = f /\ k.category = c /\ k.subcategory = s
      /\ k.old = 0 /\ k.new = 0
  OBVIOUS
<1>3. Goes(w, l, k) /\ UNCHANGED <<rows, bucket, uploads, mishaps, moved>>
      /\ overlapped' = (overlapped \/ \E v \in Worker \ {w} : pc[v] # "idle")
  BY <1>u DEF Start, Goes, Goto
<1> HIDE DEF k
<1>4. JobOK(l, k)
  BY <1>2, Relations DEF JobOK, Outside
<1> QED
  BY <1>1, <1>2, <1>3, <1>4, Relations DEF Begins

LEMMA RequestBegins ==
  ASSUME TypeInv, NEW w \in Worker, Requests(w)
  PROVE  Begins(w)
<1>1. PICK r \in Id :
        \/ \E f \in ImageField, c \in Category \cup {None}, s \in Subcategory \cup {None} :
             CreateStart(w, r, f, c, s) \/ UpdateStart(w, r, f, c, s)
        \/ \E f \in ImageField : ProfileStart(w, r, f)
        \/ DeleteStart(w, r)
  BY DEF Requests
<1>2. pc[w] = "idle"
  BY DEF Requests
<1>3. ASSUME NEW f \in ImageField, NEW c \in Category \cup {None}, NEW s \in Subcategory \cup {None},
             CreateStart(w, r, f, c, s)
      PROVE  Begins(w)
  <2>1. r \in Category \cup Subcategory \cup Program
    BY <1>3 DEF CreateStart, Id
  <2>2. r \notin Profile
    BY <2>1, CatalogAssumption
  <2> QED
    BY <1>2, <1>3, <2>2, StartBegins, Relations DEF CreateStart
<1>4. ASSUME NEW f \in ImageField, NEW c \in Category \cup {None}, NEW s \in Subcategory \cup {None},
             UpdateStart(w, r, f, c, s)
      PROVE  Begins(w)
  BY <1>2, <1>4, StartBegins DEF UpdateStart
<1>5. ASSUME NEW f \in ImageField, ProfileStart(w, r, f)
      PROVE  Begins(w)
  BY <1>2, <1>5, StartBegins DEF ProfileStart, TypeInv
<1>6. CASE DeleteStart(w, r)
  BY <1>2, <1>6, StartBegins DEF DeleteStart, ImageField
<1> QED
  BY <1>1, <1>3, <1>4, <1>5, <1>6

LEMMA LoadActs ==
  ASSUME TypeInv, NEW w \in Worker, Load(w)
  PROVE  Acts(w)
<1> DEFINE r == job[w].row
           x == rows[r]
           c == IF r \in Program THEN Effective(job[w].category, x.category) ELSE job[w].category
           s == IF r \in Program THEN Effective(job[w].subcategory, x.subcategory) ELSE None
           l == CASE job[w].op = "delete" -> IF x.image = 0 THEN "write" ELSE "drop"
                  [] job[w].op = "profile" -> "name"
                  [] job[w].op = "update" /\ r \in Subcategory /\ c = x.category -> "name"
                  [] OTHER -> RelationStep(c, s)
           k == [job[w] EXCEPT !.old = x.image, !.category = c, !.subcategory = s]
<1>1. /\ pc[w] = "load" /\ job[w] \in Job /\ r \in Id /\ JobOK("load", job[w]) /\ x \in Row
      /\ job[w].category \in Category \cup {None} /\ job[w].subcategory \in Subcategory \cup {None}
      /\ UNCHANGED <<rows, bucket, uploads, mishaps, moved, overlapped>>
  BY InFlight DEF Load, Keep, JobOK
<1>2. CASE Respond(w)
  BY <1>1, <1>2, RespondGoes DEF Acts, Ends, Early, TypeInv
<1>3. CASE ~Respond(w)
  <2>1. /\ x.live /\ ~(job[w].op = "update" /\ r \in Program /\ c = None /\ s = None)
        /\ job' = [job EXCEPT ![w].old = x.image, ![w].category = c, ![w].subcategory = s]
        /\ Goto(w, l)
    BY <1>3 DEF Load
  <2>2. c \in Category \cup {None} /\ s \in Subcategory \cup {None} /\ x.image \in Nat
    BY <1>1 DEF Effective, Row
  <2>3. k \in Job /\ k.old = x.image /\ k.category = c /\ k.subcategory = s
        /\ k.op = job[w].op /\ k.row = r /\ k.field = job[w].field /\ k.new = job[w].new
    BY <1>1, <2>2 DEF Job
  <2>4. job' = [job EXCEPT ![w] = k]
    BY <2>1 DEF TypeInv
  <2> DEFINE p == Effective(job[w].category, x.category)
  <2>5. r \in Program => /\ c = None => x.category = None
                         /\ s = None => x.subcategory = None
    BY DEF Effective
  <2>6. r \notin Program => s = None
    OBVIOUS
  <2>7. /\ l \in {"category", "subcategory", "name", "write", "drop"}
        /\ l = "category" => c # None
        /\ l = "subcategory" => s # None
        /\ l = "name" /\ job[w].op # "profile" => s = None
        /\ l \in {"write", "drop"} => job[w].op = "delete" /\ (l = "write" <=> x.image = 0)
        /\ l \in {"category", "subcategory", "name"} => job[w].op # "delete"
        /\ l \in {"category", "subcategory"} => job[w].op # "profile"
    <3>1. CASE job[w].op = "delete"
      <4>1. l = IF x.image = 0 THEN "write" ELSE "drop"
        BY <3>1
      <4> HIDE DEF l, c, s, x
      <4> QED
        BY <3>1, <4>1
    <3>2. CASE job[w].op = "profile"
      <4>1. l = "name"
        BY <3>2
      <4> HIDE DEF l, c, s, x
      <4> QED
        BY <3>2, <4>1
    <3>3. CASE job[w].op = "update" /\ r \in Subcategory /\ c = x.category
      <4>1. r \notin Program
        BY <3>3, CatalogAssumption
      <4> QED
        BY <2>6, <3>3, <4>1
    <3>4. CASE /\ job[w].op \notin {"delete", "profile"}
                /\ ~(job[w].op = "update" /\ r \in Subcategory /\ c = x.category)
      <4>1. l = RelationStep(c, s)
        BY <3>4
      <4> HIDE DEF l, c, s
      <4> QED
        BY <3>4, <4>1, Relations
    <3> QED
      BY <3>1, <3>2, <3>3, <3>4
  <2> HIDE DEF k, l, c, s
  <2>8. JobOK(l, k)
    <3>1. /\ k.op # "create" /\ k.new = 0 /\ (k.field # "file" => k.new = 0)
          /\ (k.op = "profile" <=> k.row \in Profile)
          /\ (k.op = "profile" => k.field # "none") /\ (k.op = "delete" => k.field = "none")
          /\ k.new # Outside
          /\ k.op \in {"create", "update", "profile", "delete"}
      BY <1>1, <2>3 DEF JobOK, Job
    <3>2. CASE l \in {"write", "drop"}
      BY <2>3, <2>7, <3>1, <3>2 DEF JobOK
    <3>3. CASE l \in {"category", "subcategory", "name"}
      BY <2>3, <2>7, <3>1, <3>3 DEF JobOK
    <3> QED
      BY <2>7, <3>2, <3>3
  <2>9. Goes(w, l, k)
    BY <2>1, <2>4 DEF Goes, Goto
  <2>a. k.new = 0
    BY <1>1, <2>3 DEF JobOK
  <2>b. Live(k.row)
    BY <1>1, <2>1, <2>3, CatalogAssumption DEF Live
  <2>c. Keeps(k)
    BY <2>3, <2>5 DEF Keeps
  <2>10. Reads(w)
    BY <1>1, <2>3, <2>7, <2>8, <2>9, <2>a, <2>b, <2>c DEF Reads, Early
  <2> QED
    BY <2>10 DEF Acts
<1> QED
  BY <1>2, <1>3

LEMMA CheckActs ==
  ASSUME TypeInv, NEW w \in Worker, Categories(w) \/ Subcategories(w) \/ Names(w)
  PROVE  Acts(w)
<1> DEFINE j == job[w]
<1>1. /\ pc[w] \in {"category", "subcategory", "name"} /\ pc[w] # "idle"
      /\ UNCHANGED <<rows, bucket, uploads, mishaps, moved, overlapped>>
  BY DEF Categories, Subcategories, Names, Keep
<1>2. /\ j \in Job /\ j.row \in Id /\ JobOK(pc[w], j)
      /\ j.category \in Category \cup {None} /\ j.subcategory \in Subcategory \cup {None}
  BY <1>1, InFlight
<1>3. CASE Respond(w)
  BY <1>1, <1>3, RespondGoes DEF Acts, Ends, Early, TypeInv
<1>4. CASE Categories(w) /\ ~Respond(w)
  <2> DEFINE l == RelationStep(None, j.subcategory)
  <2>1. pc[w] = "category" /\ Goes(w, l, j)
    BY <1>4, GotoGoes DEF Categories
  <2>2. l \in {"subcategory", "name"} /\ (l = "subcategory" <=> j.subcategory # None)
    BY Relations
  <2> HIDE DEF l
  <2>3. JobOK(l, j)
    BY <1>2, <2>1, <2>2 DEF JobOK
  <2>4. l = "name" => Agrees(j)
    BY <2>2 DEF Agrees
  <2>5. j.new = 0
    BY <1>2, <2>1 DEF JobOK
  <2> QED
    BY <1>1, <1>2, <2>1, <2>2, <2>3, <2>4, <2>5 DEF Acts, Reads, Early
<1>5. CASE Subcategories(w) /\ ~Respond(w)
  <2> DEFINE x == rows[j.subcategory]
             c == IF j.op = "create" THEN x.category ELSE j.category
             k == [j EXCEPT !.category = c]
  <2>1. /\ pc[w] = "subcategory" /\ Live(j.subcategory) /\ (j.category # None => x.category = j.category)
        /\ job' = [job EXCEPT ![w].category = c] /\ Goto(w, "name")
    BY <1>5 DEF Subcategories
  <2>2. j.subcategory \in Id /\ x \in Row /\ x.category \in Category \cup {None}
    BY <1>2, <2>1 DEF Live, TypeInv, Row, JobOK, Id
  <2>3. k \in Job /\ k.category = c /\ k.op = j.op /\ k.row = j.row /\ k.field = j.field
        /\ k.new = j.new /\ k.old = j.old /\ k.subcategory = j.subcategory
    BY <1>2, <2>2 DEF Job
  <2>4. Goes(w, "name", k)
    BY <2>1 DEF Goes, Goto, TypeInv
  <2>5. Agrees(k)
    BY <2>1, <2>3 DEF Agrees, Live
  <2> HIDE DEF k
  <2>6. JobOK("name", k)
    BY <1>2, <2>1, <2>3 DEF JobOK
  <2>7. k.new = 0 /\ (k.op = "update" => k.category = j.category)
    BY <1>2, <2>1, <2>3 DEF JobOK
  <2> QED
    BY <1>1, <1>2, <2>1, <2>3, <2>4, <2>5, <2>6, <2>7 DEF Acts, Reads, Early
<1>6. CASE Names(w) /\ ~Respond(w)
  <2> DEFINE l == IF j.field = "file" THEN "upload" ELSE "write"
  <2>1. pc[w] = "name" /\ Goes(w, l, j)
    BY <1>6, GotoGoes DEF Names
  <2>2. l \in {"upload", "write"} /\ (l = "upload" <=> j.field = "file")
    OBVIOUS
  <2> HIDE DEF l
  <2>3. JobOK(l, j) /\ j.new = 0
    BY <1>2, <2>1, <2>2 DEF JobOK
  <2> QED
    BY <1>1, <1>2, <2>1, <2>2, <2>3 DEF Acts, Reads, Early
<1> QED
  BY <1>3, <1>4, <1>5, <1>6

LEMMA UploadActs ==
  ASSUME TypeInv, NEW w \in Worker, Upload(w)
  PROVE  Acts(w)
<1> DEFINE j == job[w]
<1>1. /\ pc[w] = "upload" /\ pc[w] # "idle" /\ UNCHANGED <<rows, mishaps, moved, overlapped>>
      /\ j \in Job
  BY InFlight DEF Upload, Keep
<1>2. CASE Respond(w) /\ UNCHANGED <<bucket, uploads>>
  BY <1>1, <1>2, RespondGoes DEF Acts, Ends, Early, TypeInv
<1>3. CASE ~(Respond(w) /\ UNCHANGED <<bucket, uploads>>)
  <2> DEFINE l == IF j.op = "profile" /\ j.old # 0 THEN "drop" ELSE "write"
  <2>1. /\ uploads' = uploads + 1 /\ bucket' = bucket \cup {uploads + 1}
        /\ job' = [job EXCEPT ![w].new = uploads + 1] /\ Goto(w, l)
    BY <1>3 DEF Upload
  <2>2. Goes(w, l, [j EXCEPT !.new = uploads + 1])
    BY <2>1 DEF Goes, Goto, TypeInv
  <2>3. Uploads(w)
    BY <1>1, <2>1, <2>2 DEF Uploads
  <2> QED
    BY <2>3 DEF Acts
<1> QED
  BY <1>2, <1>3

LEMMA TextsTell ==
  ASSUME NEW w \in Worker, NEW i, mishaps' = mishaps \cup TextMishaps(w, i)
  PROVE  /\ Tells(w, i) /\ mishaps \subseteq mishaps'
         /\ mishaps' \subseteq mishaps \cup {"text", "reused"}
BY DEF TextMishaps, Tells

LEMMA InsertActs ==
  ASSUME TypeInv, NEW w \in Worker, Insert(w)
  PROVE  Acts(w)
<1> DEFINE j == job[w]
           x == [live |-> TRUE, image |-> ImageAfter(w, 0), category |-> j.category,
                 subcategory |-> j.subcategory]
<1>1. /\ pc[w] = "write" /\ pc[w] # "idle" /\ j.op = "create"
      /\ UNCHANGED <<bucket, uploads, moved, overlapped>>
  BY DEF Insert, At, Keep
<1>2. /\ j \in Job /\ j.row \in Id
      /\ j.category \in Category \cup {None} /\ j.subcategory \in Subcategory \cup {None}
  BY <1>1, InFlight
<1>3. mishaps \subseteq Mishap
  BY DEF TypeInv
<1>4. CASE /\ rows' = [rows EXCEPT ![j.row] = x] /\ Respond(w)
           /\ mishaps' = mishaps \cup TextMishaps(w, 0)
  <2>0. ImageAfter(w, 0) \in Nat
    BY <1>2 DEF ImageAfter, Job, ImageField
  <2>1. x \in Row
    BY <1>2, <2>0 DEF Row
  <2>2. Goes(w, "idle", None)
    BY <1>4, RespondGoes
  <2>t. Tells(w, 0) /\ mishaps \subseteq mishaps' /\ mishaps' \subseteq mishaps \cup {"text", "reused"}
    BY <1>4, TextsTell
  <2>3. Written(w, x)
    BY <1>1, <2>t DEF Written
  <2> HIDE DEF x
  <2>4. Writes(w)
    BY <1>1, <1>4, <2>1, <2>2, <2>3, <2>t DEF Writes
  <2> QED
    BY <2>4 DEF Acts
<1>5. CASE Respond(w) /\ UNCHANGED rows /\ j.new = 0 /\ UNCHANGED mishaps
  <2>1. Goes(w, "idle", None)
    BY <1>5, RespondGoes
  <2> QED
    BY <1>1, <1>3, <1>5, <2>1 DEF Acts, Ends
<1>6. CASE Respond(w) /\ UNCHANGED rows /\ mishaps' = mishaps \cup {"category"}
  <2>1. Goes(w, "idle", None)
    BY <1>6, RespondGoes
  <2> QED
    BY <1>1, <1>3, <1>6, <2>1 DEF Acts, Ends, Mishap
<1>7. CASE Goto(w, "rollback") /\ UNCHANGED <<rows, job, mishaps>> /\ j.new # 0
  <2>1. Goes(w, "rollback", j)
    BY <1>7, GotoGoes
  <2> QED
    BY <1>1, <1>7, <2>1 DEF Acts, Undoes
<1> HIDE DEF x
<1> QED
  BY <1>4, <1>5, <1>6, <1>7 DEF Insert, x

LEMMA UpdateActs ==
  ASSUME TypeInv, NEW w \in Worker, Update(w)
  PROVE  Acts(w)
<1> DEFINE j == job[w]
           r == j.row
           y == rows[r]
           c == IF j.given /\ j.category # None THEN j.category ELSE y.category
           s == IF j.given /\ j.subcategory # None THEN j.subcategory ELSE y.subcategory
           x == [live |-> y.live, image |-> ImageAfter(w, y.image), category |-> c,
                 subcategory |-> s]
<1>1. /\ pc[w] = "write" /\ pc[w] # "idle" /\ j.op = "update"
      /\ UNCHANGED <<bucket, uploads, overlapped>>
  BY DEF Update, At, Keep
<1>2. /\ j \in Job /\ r \in Id /\ y \in Row
      /\ j.category \in Category \cup {None} /\ j.subcategory \in Subcategory \cup {None}
  BY <1>1, InFlight
<1>3. mishaps \subseteq Mishap
  BY DEF TypeInv
<1>4. CASE UpdateRefused(w) /\ UNCHANGED <<rows, mishaps, moved>>
  <2>1. CASE j.new = 0
    <3>1. Goes(w, "idle", None)
      BY <1>4, <2>1, RespondGoes DEF UpdateRefused
    <3> QED
      BY <1>1, <1>3, <1>4, <2>1, <3>1 DEF Acts, Ends
  <2>2. CASE j.new # 0
    <3>1. Goes(w, "rollback", j)
      BY <1>4, <2>2, GotoGoes DEF UpdateRefused
    <3> QED
      BY <1>1, <1>4, <2>2, <3>1 DEF Acts, Undoes
  <2> QED
    BY <2>1, <2>2
<1>5. CASE ~(UpdateRefused(w) /\ UNCHANGED <<rows, mishaps, moved>>)
  <2>1. /\ rows' = [rows EXCEPT ![r] = x]
        /\ IF j.new # 0 /\ j.old # 0 THEN Goto(w, "drop") /\ UNCHANGED job ELSE Respond(w)
        /\ mishaps' = mishaps \cup TextMishaps(w, y.image)
        /\ moved' = IF r \in Subcategory /\ c # y.category THEN moved \cup {r} ELSE moved
    BY <1>5 DEF Update
  <2>2. ImageAfter(w, y.image) \in Nat
    BY <1>2 DEF ImageAfter, Row, Job, ImageField
  <2>3. /\ y.live \in BOOLEAN /\ y.category \in Category \cup {None}
        /\ y.subcategory \in Subcategory \cup {None}
    BY <1>2 DEF Row
  <2>4. /\ c \in Category \cup {None} /\ s \in Subcategory \cup {None}
    BY <1>2, <2>3
  <2>5. x.live = y.live /\ x.image = ImageAfter(w, y.image) /\ x.category = c /\ x.subcategory = s
    OBVIOUS
  <2>6. x \in Row
    <3> HIDE DEF c, s, y
    <3> QED
      BY <2>2, <2>3, <2>4 DEF Row
  <2> HIDE DEF x
  <2>t. /\ Tells(w, y.image) /\ mishaps \subseteq mishaps'
        /\ mishaps' \subseteq mishaps \cup {"text", "reused"}
    BY <2>1, TextsTell
  <2>7. Written(w, x)
    BY <1>1, <2>1, <2>5, <2>t DEF Written
  <2>8. CASE j.new # 0 /\ j.old # 0
    <3>1. Goes(w, "drop", j)
      BY <2>1, <2>8, GotoGoes
    <3> QED
      BY <1>1, <2>1, <2>6, <2>7, <2>8, <2>t, <3>1 DEF Acts, Writes
  <2>9. CASE ~(j.new # 0 /\ j.old # 0)
    <3>1. Goes(w, "idle", None)
      BY <2>1, <2>9, RespondGoes
    <3> QED
      BY <1>1, <2>1, <2>6, <2>7, <2>9, <2>t, <3>1 DEF Acts, Writes
  <2> QED
    BY <2>8, <2>9
<1> QED
  BY <1>4, <1>5

LEMMA UpdateProfileActs ==
  ASSUME TypeInv, NEW w \in Worker, UpdateProfile(w)
  PROVE  Acts(w)
<1> DEFINE j == job[w]
           r == j.row
           i == ImageAfter(w, rows[r].image)
           x == [rows[r] EXCEPT !.image = i]
<1>1. /\ pc[w] = "write" /\ pc[w] # "idle" /\ j.op = "profile" /\ Respond(w)
      /\ UNCHANGED <<bucket, uploads, moved, overlapped>>
  BY DEF UpdateProfile, At, Keep
<1>2. j \in Job /\ r \in Id /\ rows[r] \in Row /\ JobOK("write", j)
  BY <1>1, InFlight
<1>3. mishaps \subseteq Mishap
  BY DEF TypeInv
<1>4. Goes(w, "idle", None)
  BY <1>1, RespondGoes
<1>5. i \in Nat
  BY <1>2 DEF ImageAfter, Row, Job, ImageField
<1>6. Torn(w) => j.new # 0
  BY <1>1, <1>2 DEF Torn, JobOK, Job, ImageField
<1>7. CASE rows' = [rows EXCEPT ![r] = x] /\ mishaps' = mishaps \cup TextMishaps(w, rows[r].image)
  <2>1. x \in Row
    BY <1>2, <1>5 DEF Row
  <2>2. /\ Tells(w, rows[r].image) /\ mishaps \subseteq mishaps'
        /\ mishaps' \subseteq mishaps \cup {"text", "reused"}
    BY <1>7, TextsTell
  <2>3. Written(w, x)
    BY <1>1, <2>2 DEF Written
  <2> HIDE DEF x
  <2> QED
    BY <1>1, <1>4, <1>7, <2>1, <2>2, <2>3 DEF Acts, Writes
<1>8. CASE UNCHANGED rows /\ mishaps' = IF j.new # 0 THEN mishaps \cup {"profile"} ELSE mishaps
  <2>1. mishaps \subseteq mishaps' /\ mishaps' \subseteq Mishap
        /\ (Torn(w) \/ j.new # 0 => j.op \in mishaps')
    BY <1>1, <1>3, <1>6, <1>8 DEF Mishap
  <2> QED
    BY <1>1, <1>4, <1>8, <2>1 DEF Acts, Ends
<1> QED
  BY <1>7, <1>8 DEF UpdateProfile

LEMMA SoftDeleteActs ==
  ASSUME TypeInv, NEW w \in Worker, SoftDelete(w)
  PROVE  Acts(w)
<1> DEFINE j == job[w]
           x == [rows[j.row] EXCEPT !.live = FALSE]
<1>1. /\ pc[w] = "write" /\ pc[w] # "idle" /\ j.op = "delete" /\ Respond(w)
      /\ UNCHANGED <<bucket, uploads, moved, overlapped>>
  BY DEF SoftDelete, At, Keep
<1>2. rows[j.row] \in Row /\ j.new = 0
  BY <1>1, InFlight DEF JobOK
<1>3. Goes(w, "idle", None)
  BY <1>1, RespondGoes
<1>4. CASE rows' = [rows EXCEPT ![j.row] = x] /\ UNCHANGED mishaps
  <2>1. x \in Row
    BY <1>2 DEF Row
  <2>2. Written(w, x)
    BY <1>1, <1>4 DEF Written
  <2> HIDE DEF x
  <2> QED
    BY <1>1, <1>3, <1>4, <2>1, <2>2 DEF Acts, Writes
<1>5. CASE UNCHANGED rows /\ mishaps' = IF Torn(w) THEN mishaps \cup {"delete"} ELSE mishaps
  <2>1. mishaps \subseteq mishaps' /\ mishaps' \subseteq Mishap
        /\ (Torn(w) \/ j.new # 0 => j.op \in mishaps')
    BY <1>1, <1>2, <1>5 DEF Mishap, TypeInv
  <2> QED
    BY <1>1, <1>3, <1>5, <2>1 DEF Acts, Ends
<1> QED
  BY <1>4, <1>5 DEF SoftDelete

LEMMA DropActs ==
  ASSUME TypeInv, NEW w \in Worker, Drop(w)
  PROVE  Acts(w)
<1> DEFINE j == job[w]
<1>1. /\ pc[w] = "drop" /\ pc[w] # "idle" /\ UNCHANGED <<rows, uploads, moved, overlapped>>
  BY DEF Drop, Keep
<1>2. j \in Job /\ JobOK("drop", j)
  BY <1>1, InFlight
<1>3. j.op \in {"update", "profile", "delete"}
  BY <1>2 DEF Job, JobOK
<1>4. mishaps \subseteq Mishap
  BY DEF TypeInv
<1>5. Respond(w) => Goes(w, "idle", None)
  BY RespondGoes
<1>6. /\ Goto(w, "write") /\ UNCHANGED job => Goes(w, "write", j)
      /\ Goto(w, "rollback") /\ UNCHANGED job => Goes(w, "rollback", j)
  BY GotoGoes
<1>7. CASE /\ bucket' = bucket \ {j.old} /\ UNCHANGED mishaps
           /\ IF j.op = "update" THEN Respond(w) ELSE Goto(w, "write") /\ UNCHANGED job
  BY <1>1, <1>5, <1>6, <1>7 DEF Acts, Removes
<1>8. CASE mishaps' = mishaps \cup {"s3"} /\ j.op = "delete" /\ Goto(w, "write")
           /\ UNCHANGED <<job, bucket>>
  BY <1>1, <1>6, <1>8 DEF Acts, Undoes
<1>9. CASE mishaps' = mishaps \cup {"s3"} /\ j.op = "update" /\ Goto(w, "rollback")
           /\ UNCHANGED <<job, bucket>>
  BY <1>1, <1>6, <1>9 DEF Acts, Undoes
<1>10. CASE mishaps' = mishaps \cup {"s3"} /\ j.op = "profile" /\ Respond(w) /\ UNCHANGED bucket
  BY <1>1, <1>4, <1>5, <1>10 DEF Acts, Ends, Mishap
<1> QED
  BY <1>3, <1>7, <1>8, <1>9, <1>10 DEF Drop

LEMMA RollbackActs ==
  ASSUME TypeInv, NEW w \in Worker, Rollback(w)
  PROVE  Acts(w)
<1>1. /\ pc[w] = "rollback" /\ pc[w] # "idle" /\ UNCHANGED <<rows, uploads, moved, overlapped>>
      /\ Respond(w)
  BY DEF Rollback, Keep
<1>2. Goes(w, "idle", None)
  BY <1>1, RespondGoes
<1>3. CASE bucket' = bucket \ {job[w].new} /\ UNCHANGED mishaps
  BY <1>1, <1>2, <1>3 DEF Acts, Removes
<1>4. CASE mishaps' = mishaps \cup {"s3"} /\ UNCHANGED bucket
  BY <1>1, <1>2, <1>4 DEF Acts, Ends, TypeInv, Mishap
<1> QED
  BY <1>3, <1>4 DEF Rollback

LEMMA NextActs ==
  ASSUME TypeInv, Next, ~Crash
  PROVE  \E w \in Worker : Acts(w)
<1>1. PICK w \in Worker : Requests(w) \/ Serve(w)
  BY DEF Next
<1>2. CASE Requests(w)
  BY <1>2, RequestBegins DEF Acts
<1>3. CASE Serve(w)
  BY <1>3, LoadActs, CheckActs, UploadActs, InsertActs, UpdateActs, UpdateProfileActs,
     SoftDeleteActs, DropActs, RollbackActs DEF Serve
<1> QED
  BY <1>1, <1>2, <1>3

LEMMA InitType == Init => TypeInv
<1> SUFFICES ASSUME Init PROVE TypeInv
  OBVIOUS
<1>1. \A c \in Category \cup {None} : Bare(c) \in Row
  BY DEF Bare, Row
<1>2. rows \in [Id -> Row \cup {None}]
  <2>1. {None} \cup {Bare(c) : c \in Category \cup {None}} \subseteq Row \cup {None}
    BY <1>1
  <2> QED
    BY <2>1 DEF Init
<1>3. \A r \in Profile : rows[r] # None
  BY DEF Init, Id
<1>4. /\ pc \in [Worker -> PC] /\ job \in [Worker -> Job \cup {None}]
      /\ \A w \in Worker : pc[w] = "idle" /\ job[w] = None
  BY DEF Init, PC
<1>5. uploads \in Nat /\ uploads >= Outside /\ bucket = {}
  BY DEF Init, Outside
<1>6. overlapped \in BOOLEAN /\ mishaps = {} /\ moved = {}
  BY DEF Init
<1> QED
  BY <1>2, <1>3, <1>4, <1>5, <1>6 DEF TypeInv

LEMMA BeginsType ==
  ASSUME TypeInv, NEW w \in Worker, Begins(w)
  PROVE  TypeInv'
<1>1. PICK l \in {"load", "category", "subcategory", "name"}, k \in Job :
        /\ Goes(w, l, k) /\ JobOK(l, k) /\ (k.op = "create" <=> rows[k.row] = None)
        /\ overlapped' = (overlapped \/ \E v \in Worker \ {w} : pc[v] # "idle")
        /\ UNCHANGED <<rows, bucket, uploads, mishaps, moved>>
  BY DEF Begins
<1>2. l \in PC /\ l # "idle" /\ k # None
  BY CatalogAssumption DEF PC
<1>3. overlapped' \in BOOLEAN
  BY <1>1 DEF TypeInv
<1> QED
  BY <1>1, <1>2, <1>3, FrameOK DEF TypeInv

LEMMA ReadsType ==
  ASSUME TypeInv, NEW w \in Worker, Reads(w)
  PROVE  TypeInv'
<1>1. PICK l \in {"category", "subcategory", "name", "upload", "write", "drop"}, k \in Job :
        /\ pc[w] \in Early /\ Goes(w, l, k) /\ JobOK(l, k)
        /\ k.op = job[w].op /\ k.row = job[w].row
        /\ UNCHANGED <<rows, bucket, uploads, mishaps, moved, overlapped>>
  BY DEF Reads
<1>2. l \in PC /\ l # "idle" /\ k # None /\ pc[w] # "idle"
  BY <1>1, CatalogAssumption DEF PC, Early
<1>3. k.op # "create" => rows'[k.row] # None
  BY <1>1, <1>2 DEF TypeInv
<1> QED
  BY <1>1, <1>2, <1>3, FrameOK DEF TypeInv

LEMMA EndsType ==
  ASSUME TypeInv, NEW w \in Worker, Ends(w)
  PROVE  TypeInv'
<1>1. /\ Goes(w, "idle", None) /\ mishaps' \subseteq Mishap
      /\ UNCHANGED <<rows, bucket, uploads, moved, overlapped>>
  BY DEF Ends
<1>2. "idle" \in PC
  BY DEF PC
<1> QED
  BY <1>1, <1>2, FrameOK DEF TypeInv

\* The job of a request that has uploaded its file.
LEMMA UploadedJob ==
  ASSUME TypeInv, NEW w \in Worker, pc[w] = "upload",
         NEW n \in Nat, n \notin {0, Outside},
         NEW l \in {"write", "drop"}, l = "drop" <=> job[w].op = "profile" /\ job[w].old # 0
  PROVE  LET k == [job[w] EXCEPT !.new = n]
         IN  /\ k \in Job /\ JobOK(l, k) /\ k.new = n
             /\ k.op = job[w].op /\ k.row = job[w].row /\ k.field = job[w].field
             /\ k.old = job[w].old
             /\ k.category = job[w].category /\ k.subcategory = job[w].subcategory
             /\ k.given = job[w].given
<1> DEFINE k == [job[w] EXCEPT !.new = n]
<1>1. job[w] \in Job /\ JobOK("upload", job[w])
  BY InFlight
<1>2. /\ k \in Job /\ k.new = n /\ k.op = job[w].op /\ k.row = job[w].row
      /\ k.field = job[w].field /\ k.old = job[w].old
      /\ k.category = job[w].category /\ k.subcategory = job[w].subcategory
      /\ k.given = job[w].given
  BY <1>1 DEF Job
<1> HIDE DEF k
<1>3. JobOK(l, k)
  BY <1>1, <1>2 DEF JobOK
<1> QED
  BY <1>2, <1>3 DEF k

LEMMA UploadsType ==
  ASSUME TypeInv, NEW w \in Worker, Uploads(w)
  PROVE  TypeInv'
<1> DEFINE k == [job[w] EXCEPT !.new = uploads + 1]
<1>1. /\ pc[w] = "upload"
      /\ uploads' = uploads + 1 /\ bucket' = bucket \cup {uploads + 1}
      /\ UNCHANGED <<rows, mishaps, moved, overlapped>>
  BY DEF Uploads
<1>2. PICK l \in {"write", "drop"} :
        Goes(w, l, k) /\ (l = "drop" <=> job[w].op = "profile" /\ job[w].old # 0)
  BY DEF Uploads
<1>3. /\ uploads \in Nat /\ uploads + 1 \in Nat /\ uploads + 1 \notin {0, Outside}
      /\ uploads + 1 >= Outside
  BY DEF TypeInv, Outside
<1>4. k \in Job /\ JobOK(l, k) /\ k.op = job[w].op /\ k.row = job[w].row
  BY <1>1, <1>2, <1>3, UploadedJob
<1> HIDE DEF k
<1>5. l \in PC /\ l # "idle" /\ k # None
  BY <1>4, CatalogAssumption DEF PC
<1>6. k.op # "create" => rows'[k.row] # None
  BY <1>1, <1>4 DEF TypeInv
<1>7. bucket' \subseteq (Outside + 1)..uploads'
  BY <1>1, <1>3 DEF TypeInv, Outside
<1> QED
  BY <1>1, <1>2, <1>3, <1>4, <1>5, <1>6, <1>7, FrameOK DEF TypeInv

LEMMA WritesType ==
  ASSUME TypeInv, NEW w \in Worker, Writes(w)
  PROVE  TypeInv'
<1>1. PICK x \in Row, l \in {"idle", "drop"} :
        /\ pc[w] = "write" /\ Goes(w, l, IF l = "idle" THEN None ELSE job[w])
        /\ l = "drop" <=> job[w].op = "update" /\ job[w].new # 0 /\ job[w].old # 0
        /\ rows' = [rows EXCEPT ![job[w].row] = x] /\ Written(w, x)
        /\ mishaps \subseteq mishaps' /\ mishaps' \subseteq mishaps \cup {"text", "reused"}
        /\ UNCHANGED <<bucket, uploads, overlapped>>
  BY DEF Writes
<1>2. job[w] \in Job /\ job[w].row \in Id /\ JobOK("write", job[w]) /\ job[w] # None
  BY <1>1, InFlight, CatalogAssumption
<1>3. rows' \in [Id -> Row \cup {None}] /\ \A r \in Id : rows[r] # None => rows'[r] # None
  BY <1>1, <1>2, CatalogAssumption DEF TypeInv
<1>4. \A r \in Profile : rows'[r] # None
  BY <1>3 DEF TypeInv, Id
<1>5. moved' \subseteq Subcategory
  BY <1>1 DEF Written, TypeInv
<1>m. mishaps' \subseteq Mishap
  BY <1>1 DEF TypeInv, Mishap
<1>6. CASE l = "idle"
  <2>1. Goes(w, "idle", None) /\ "idle" \in PC
    BY <1>1, <1>6 DEF PC
  <2> QED
    BY <1>1, <1>3, <1>4, <1>5, <1>m, <2>1, FrameOK DEF TypeInv
<1>7. CASE l = "drop"
  <2>1. Goes(w, "drop", job[w]) /\ "drop" \in PC
    BY <1>1, <1>7 DEF PC
  <2>2. JobOK("drop", job[w])
    BY <1>1, <1>2, <1>7 DEF JobOK
  <2>3. job[w].op # "create" => rows'[job[w].row] # None
    BY <1>1, <1>2, <1>3 DEF TypeInv
  <2> QED
    BY <1>1, <1>2, <1>3, <1>4, <1>5, <1>m, <2>1, <2>2, <2>3, FrameOK DEF TypeInv
<1> QED
  BY <1>6, <1>7

\* The local state of a request does not change when it goes on to an undoing
\* call, or to the write of its row.
LEMMA StaysType ==
  ASSUME TypeInv, NEW w \in Worker, pc[w] # "idle", NEW l \in {"write", "rollback"},
         Goes(w, l, job[w]), JobOK(l, job[w]), bucket' \subseteq bucket,
         mishaps' \subseteq mishaps \cup {"s3"},
         UNCHANGED <<rows, uploads, moved, overlapped>>
  PROVE  TypeInv'
<1>1. l \in PC /\ l # "idle" /\ job[w] \in Job /\ job[w] # None
  BY InFlight, CatalogAssumption DEF PC
<1>2. job[w].op # "create" => rows'[job[w].row] # None
  BY DEF TypeInv
<1>3. mishaps' \subseteq Mishap
  BY DEF TypeInv, Mishap
<1> QED
  BY <1>1, <1>2, <1>3, FrameOK DEF TypeInv

LEMMA RemovesType ==
  ASSUME TypeInv, NEW w \in Worker, Removes(w)
  PROVE  TypeInv'
<1>1. UNCHANGED <<rows, uploads, mishaps, moved, overlapped>> /\ bucket' \subseteq bucket
  BY DEF Removes
<1>2. CASE Goes(w, "idle", None)
  <2>1. "idle" \in PC
    BY DEF PC
  <2> QED
    BY <1>1, <1>2, <2>1, FrameOK DEF TypeInv
<1>3. CASE pc[w] = "drop" /\ job[w].op # "update" /\ Goes(w, "write", job[w])
  <2>1. JobOK("drop", job[w]) /\ job[w] \in Job
    BY <1>3, InFlight
  <2>2. JobOK("write", job[w])
    BY <1>3, <2>1 DEF JobOK, Job
  <2> QED
    BY <1>1, <1>3, <2>2, StaysType
<1> QED
  BY <1>2, <1>3 DEF Removes

LEMMA UndoesType ==
  ASSUME TypeInv, NEW w \in Worker, Undoes(w)
  PROVE  TypeInv'
<1>1. UNCHANGED <<rows, bucket, uploads, moved, overlapped>> /\ mishaps' \subseteq mishaps \cup {"s3"}
  BY DEF Undoes
<1>2. CASE /\ pc[w] = "write" /\ job[w].op \in {"create", "update"} /\ job[w].new # 0
           /\ Goes(w, "rollback", job[w])
  <2>1. JobOK("write", job[w])
    BY <1>2, InFlight
  <2>2. JobOK("rollback", job[w])
    BY <1>2, <2>1 DEF JobOK
  <2> QED
    BY <1>1, <1>2, <2>2, StaysType
<1>3. CASE pc[w] = "drop" /\ job[w].op = "update" /\ Goes(w, "rollback", job[w])
  <2>1. JobOK("drop", job[w])
    BY <1>3, InFlight
  <2>2. JobOK("rollback", job[w])
    BY <1>3, <2>1 DEF JobOK
  <2> QED
    BY <1>1, <1>3, <2>2, StaysType
<1>4. CASE pc[w] = "drop" /\ job[w].op = "delete" /\ Goes(w, "write", job[w])
  <2>1. JobOK("drop", job[w])
    BY <1>4, InFlight
  <2>2. JobOK("write", job[w])
    BY <1>4, <2>1 DEF JobOK
  <2> QED
    BY <1>1, <1>4, <2>2, StaysType
<1> QED
  BY <1>2, <1>3, <1>4 DEF Undoes

\* A stop leaves nobody in flight.
LEMMA CrashType ==
  ASSUME TypeInv, Crash
  PROVE  TypeInv'
<1>1. /\ pc' = [w \in Worker |-> "idle"] /\ job' = [w \in Worker |-> None]
      /\ mishaps' = mishaps \cup {"stop"} \cup {job[w].op : w \in {v \in Worker : Torn(v)}}
      /\ UNCHANGED <<rows, bucket, uploads, moved, overlapped>>
  BY DEF Crash, Keep
<1>2. /\ pc' \in [Worker -> PC] /\ job' \in [Worker -> Job \cup {None}]
      /\ \A w \in Worker : pc'[w] = "idle" /\ job'[w] = None
  BY <1>1 DEF PC
<1>3. mishaps' \subseteq Mishap
  <2>1. \A w \in Worker : Torn(w) => job[w].op \in Mishap
    BY DEF Torn, At, Mishap
  <2> QED
    BY <1>1, <2>1 DEF TypeInv, Mishap
<1> QED
  BY <1>1, <1>2, <1>3 DEF TypeInv

LEMMA NextType == TypeInv /\ [Next]_vars => TypeInv'
<1>1. ASSUME TypeInv, UNCHANGED vars
      PROVE  TypeInv'
  BY <1>1 DEF TypeInv, vars, hist, JobOK
<1>2. ASSUME TypeInv, Next
      PROVE  TypeInv'
  BY <1>2, NextActs, CrashType, BeginsType, ReadsType, EndsType, UploadsType, WritesType,
     RemovesType, UndoesType DEF Acts
<1> QED
  BY <1>1, <1>2

\* Every row and every request has the fields the requests give it, every
\* request is served only with what its earlier calls have found, and nothing
\* is in the bucket that was not uploaded.
THEOREM TypeCorrect == Spec => []TypeInv
BY InitType, NextType, PTL DEF Spec

-----------------------------------------------------------------------------
(* Images, however requests overlap.                                       *)

Busy == {w \in Worker : pc[w] # "idle"}

\* Row r has the image i.
Has(r, i) == rows[r] # None /\ rows[r].image = i

\* The images that are not in the bucket and that any row may have.
Elsewhere == {0, Outside}

\* The image of w is stored by nobody yet, and nobody will delete it.
Fresh(w) ==
  /\ \A r \in Id : ~Has(r, job[w].new)
  /\ \A v \in Busy : job[v].old # job[w].new

Numbers ==
  /\ \A r \in Id, i \in Nat : Has(r, i) => i <= uploads
  /\ \A w \in Busy : job[w].old <= uploads /\ job[w].new <= uploads

Distinct ==
  /\ \A r, q \in Id, i \in Nat \ Elsewhere : Has(r, i) /\ Has(q, i) => r = q
  /\ \A v, w \in Busy : job[w].new # 0 /\ job[v].new = job[w].new => v = w

\* Whoever has read an image will delete it for the row it has read it from.
Owned ==
  \A w \in Busy, r \in Id :
    job[w].old \notin Elsewhere /\ Has(r, job[w].old) => r = job[w].row

\* An image that is about to be stored is in the bucket and stays there.
Stored ==
  \A w \in Busy :
    job[w].new # 0 /\ (pc[w] = "write" \/ (pc[w] = "drop" /\ job[w].op = "profile")) =>
      Fresh(w) /\ job[w].new \in bucket

\* So does one that is about to be removed, unless the update has been written.
Undone == \A w \in Busy : pc[w] = "rollback" /\ "s3" \notin mishaps => Fresh(w)

\* An update drops the image it has replaced.
Replaced ==
  \A w \in Busy, r \in Id :
    pc[w] = "drop" /\ job[w].op = "update" /\ job[w].old \notin Elsewhere => ~Has(r, job[w].old)

\* A live row has its image, or there is a request that has deleted it and is
\* about to write the row.
Covered(r) ==
  \/ rows[r].image \in bucket \cup Elsewhere
  \/ \E w \in Busy : Torn(w) /\ job[w].row = r

AllCovered == mishaps \cap {"s3", "profile", "delete"} = {} => \A r \in Id : Live(r) => Covered(r)

ImageInv == Numbers /\ Distinct /\ Owned /\ Stored /\ Undone /\ Replaced /\ AllCovered

LEMMA UploadedIs == \A i \in Nat : Uploaded(i) <=> i \notin Elsewhere
BY DEF Uploaded, Elsewhere, Outside

\* What a step of w does to the others, and to w.
LEMMA Moves ==
  ASSUME TypeInv, NEW w \in Worker, NEW l, NEW j, Goes(w, l, j)
  PROVE  /\ pc'[w] = l /\ job'[w] = j
         /\ \A v \in Worker \ {w} : pc'[v] = pc[v] /\ job'[v] = job[v]
         /\ \A v \in Busy' : v # w => v \in Busy
         /\ w \in Busy' <=> l # "idle"
BY DEF Goes, TypeInv, Busy

\* The images of requests in flight are numbers.
LEMMA JobNumbers ==
  ASSUME TypeInv
  PROVE  \A w \in Busy : /\ w \in Worker /\ job[w] \in Job /\ job[w].old \in Nat /\ job[w].new \in Nat
                         /\ job[w].row \in Id /\ JobOK(pc[w], job[w])
BY DEF TypeInv, Busy, Job

LEMMA RowNumbers ==
  ASSUME TypeInv, NEW r \in Id, rows[r] # None
  PROVE  rows[r] \in Row /\ rows[r].image \in Nat /\ Has(r, rows[r].image)
BY DEF TypeInv, Row, Has

\* A step that neither writes a row nor touches the bucket: w may have read the
\* image of its row, and a refused write may have turned to its undoing.
LEMMA QuietImages ==
  ASSUME TypeInv, ImageInv, NEW w \in Worker, NEW l \in PC, NEW j, Goes(w, l, j),
         l # "idle" =>
           /\ j \in Job
           /\ j.new = 0 \/ (w \in Busy /\ j.new = job[w].new)
           /\ \/ j.old = 0
              \/ w \in Busy /\ j.old = job[w].old /\ j.row = job[w].row
              \/ rows[j.row] # None /\ j.old = rows[j.row].image,
         l \in {"write", "drop"} => j.new = 0,
         l = "rollback" => /\ j = job[w]
                           /\ (pc[w] = "write" /\ j.new # 0) \/ "s3" \in mishaps',
         l = "drop" => j.op # "update",
         Torn(w) => job[w].op \in mishaps',
         mishaps \subseteq mishaps',
         UNCHANGED <<rows, bucket, uploads>>
  PROVE  ImageInv'
<1>1. /\ pc'[w] = l /\ job'[w] = j
      /\ \A v \in Worker \ {w} : pc'[v] = pc[v] /\ job'[v] = job[v]
      /\ \A v \in Busy' : v # w => v \in Busy
      /\ w \in Busy' <=> l # "idle"
  BY Moves
<1>2. \A v \in Busy : /\ v \in Worker /\ job[v] \in Job /\ job[v].old \in Nat /\ job[v].new \in Nat
                      /\ job[v].row \in Id /\ JobOK(pc[v], job[v])
  BY JobNumbers
<1>3. l # "idle" => j.old \in Nat /\ j.new \in Nat /\ j.row \in Id
  BY DEF Job
<1>4. \A r \in Id : rows[r] # None => rows[r].image \in Nat /\ Has(r, rows[r].image)
  BY RowNumbers
<1>5. \A r \in Id : rows'[r] = rows[r]
  OBVIOUS
<1>6. \A v \in Busy' : v \in Worker
  BY DEF Busy
<1>7. Numbers'
  <2>1. ASSUME NEW v \in Busy'
        PROVE  job'[v].old <= uploads /\ job'[v].new <= uploads
    <3>1. CASE v # w
      BY <1>1, <1>6, <3>1 DEF ImageInv, Numbers
    <3>2. CASE v = w
      <4>1. 0 <= uploads
        BY DEF TypeInv
      <4>2. j.old <= uploads
        BY <1>1, <1>3, <1>4, <3>2, <4>1 DEF ImageInv, Numbers
      <4>3. j.new <= uploads
        BY <1>1, <1>3, <3>2, <4>1 DEF ImageInv, Numbers
      <4> QED
        BY <1>1, <3>2, <4>2, <4>3
    <3> QED
      BY <3>1, <3>2
  <2> QED
    BY <2>1 DEF ImageInv, Numbers, Has
<1>8. Distinct'
  BY <1>1, <1>6 DEF ImageInv, Distinct, Has
<1>9. Owned'
  <2>1. ASSUME NEW v \in Busy', NEW r \in Id, job'[v].old \notin Elsewhere, Has(r, job'[v].old)
        PROVE  r = job'[v].row
    <3>1. CASE v # w
      BY <1>1, <1>6, <2>1, <3>1 DEF ImageInv, Owned
    <3>2. CASE v = w /\ w \in Busy /\ j.old = job[w].old /\ j.row = job[w].row
      BY <1>1, <2>1, <3>2 DEF ImageInv, Owned
    <3>3. CASE v = w /\ rows[j.row] # None /\ j.old = rows[j.row].image
      BY <1>1, <1>3, <1>4, <2>1, <3>3 DEF ImageInv, Distinct
    <3>4. v = w => l # "idle" /\ j.old # 0
      BY <1>1, <2>1 DEF Elsewhere
    <3> QED
      BY <1>1, <2>1, <3>1, <3>2, <3>3, <3>4
  <2> QED
    BY <2>1 DEF Owned, Has
\* Whoever was fresh still is.
<1>10. ASSUME NEW v \in Busy, Fresh(v), job[v].new # 0, job'[v].new = job[v].new
       PROVE  Fresh(v)'
  <2>1. \A r \in Id : ~Has(r, job[v].new)
    BY <1>10 DEF Fresh
  <2>2. l # "idle" => j.old # job[v].new
    BY <1>3, <1>4, <1>10, <2>1 DEF Fresh
  <2>3. \A u \in Busy' : job'[u].old # job[v].new
    BY <1>1, <1>6, <1>10, <2>2 DEF Fresh
  <2> QED
    BY <1>10, <2>1, <2>3 DEF Fresh, Has
<1>11. Stored'
  <2>1. ASSUME NEW v \in Busy', job'[v].new # 0,
               pc'[v] = "write" \/ (pc'[v] = "drop" /\ job'[v].op = "profile")
        PROVE  Fresh(v)' /\ job'[v].new \in bucket
    <3>1. v # w /\ v \in Busy /\ pc'[v] = pc[v] /\ job'[v] = job[v]
      BY <1>1, <1>6, <2>1
    <3> QED
      BY <1>10, <2>1, <3>1 DEF ImageInv, Stored
  <2> QED
    BY <2>1 DEF Stored
<1>12. Undone'
  <2>1. ASSUME NEW v \in Busy', pc'[v] = "rollback", "s3" \notin mishaps'
        PROVE  Fresh(v)'
    <3>1. CASE v # w
      <4>1. v \in Busy /\ pc[v] = "rollback" /\ job'[v] = job[v] /\ job[v].new # 0
        BY <1>1, <1>2, <1>6, <2>1, <3>1 DEF JobOK
      <4> QED
        BY <1>10, <2>1, <4>1 DEF ImageInv, Undone
    <3>2. CASE v = w
      <4>1. v \in Busy /\ pc[v] = "write" /\ job'[v] = job[v] /\ job[v].new # 0
        BY <1>1, <2>1, <3>2 DEF Busy
      <4> QED
        BY <1>10, <4>1 DEF ImageInv, Stored
    <3> QED
      BY <3>1, <3>2
  <2> QED
    BY <2>1 DEF Undone
<1>13. Replaced'
  <2>1. ASSUME NEW v \in Busy', NEW r \in Id, pc'[v] = "drop", job'[v].op = "update",
               job'[v].old \notin Elsewhere
        PROVE  ~Has(r, job'[v].old)
    BY <1>1, <1>6, <2>1 DEF ImageInv, Replaced
  <2> QED
    BY <2>1 DEF Replaced, Has
<1>14. AllCovered'
  <2>1. ASSUME mishaps' \cap {"s3", "profile", "delete"} = {}, NEW r \in Id, Live(r)
        PROVE  Covered(r)'
    <3>1. Covered(r)
      BY <2>1 DEF ImageInv, AllCovered
    <3>2. CASE rows[r].image \in bucket \cup Elsewhere
      BY <3>2 DEF Covered
    <3>3. ASSUME NEW v \in Busy, Torn(v), job[v].row = r
          PROVE  Covered(r)'
      <4>1. v # w
        BY <2>1, <3>3 DEF Torn, At
      <4>2. v \in Busy' /\ job'[v] = job[v] /\ Torn(v)'
        BY <1>1, <1>2, <3>3, <4>1 DEF Busy, Torn, At
      <4> QED
        BY <3>3, <4>2 DEF Covered
    <3> QED
      BY <3>1, <3>2, <3>3 DEF Covered
  <2> QED
    BY <2>1 DEF AllCovered, Live
<1> QED
  BY <1>7, <1>8, <1>9, <1>11, <1>12, <1>13, <1>14 DEF ImageInv

LEMMA BeginsImages ==
  ASSUME TypeInv, ImageInv, NEW w \in Worker, Begins(w)
  PROVE  ImageInv'
<1>1. PICK l \in {"load", "category", "subcategory", "name"}, k \in Job :
        /\ pc[w] = "idle" /\ Goes(w, l, k) /\ k.old = 0 /\ k.new = 0
        /\ UNCHANGED <<rows, bucket, uploads, mishaps>>
  BY DEF Begins
<1>2. l \in PC /\ ~Torn(w)
  BY <1>1 DEF PC, Torn, At
<1> QED
  BY <1>1, <1>2, QuietImages

LEMMA ReadsImages ==
  ASSUME TypeInv, ImageInv, NEW w \in Worker, Reads(w)
  PROVE  ImageInv'
<1>1. PICK l \in {"category", "subcategory", "name", "upload", "write", "drop"}, k \in Job :
        /\ pc[w] \in Early /\ Goes(w, l, k) /\ k.new = 0
        /\ k.op = job[w].op /\ k.row = job[w].row
        /\ \/ Live(k.row) /\ k.old = rows[k.row].image /\ (l \in {"write", "drop"} => k.op = "delete")
           \/ k.old = job[w].old /\ l # "drop"
        /\ UNCHANGED <<rows, bucket, uploads, mishaps>>
  BY DEF Reads
<1>2. l \in PC /\ pc[w] \notin {"idle", "write"} /\ l # "rollback"
  BY <1>1 DEF PC, Early
<1>3. w \in Busy
  BY <1>2 DEF Busy
<1>4. l = "drop" => k.op # "update"
  BY <1>1
<1> QED
  BY <1>1, <1>2, <1>3, <1>4, QuietImages DEF Live, Torn, At

LEMMA EndsImages ==
  ASSUME TypeInv, ImageInv, NEW w \in Worker, Ends(w)
  PROVE  ImageInv'
<1>1. /\ Goes(w, "idle", None) /\ mishaps \subseteq mishaps' /\ UNCHANGED <<rows, bucket, uploads>>
      /\ Torn(w) => job[w].op \in mishaps'
  BY DEF Ends, Early, Torn, At
<1>2. "idle" \in PC
  BY DEF PC
<1> QED
  BY <1>1, <1>2, QuietImages

LEMMA UndoesImages ==
  ASSUME TypeInv, ImageInv, NEW w \in Worker, Undoes(w)
  PROVE  ImageInv'
<1>1. UNCHANGED <<rows, bucket, uploads>> /\ mishaps \subseteq mishaps' /\ pc[w] # "idle" /\ ~Torn(w)
  BY DEF Undoes, Torn, At
<1>2. w \in Busy /\ job[w] \in Job /\ JobOK(pc[w], job[w]) /\ "rollback" \in PC /\ "write" \in PC
  BY <1>1, InFlight DEF Busy, PC
<1>3. CASE /\ pc[w] = "write" /\ job[w].op \in {"create", "update"} /\ job[w].new # 0
           /\ Goes(w, "rollback", job[w])
  BY <1>1, <1>2, <1>3, QuietImages
<1>4. CASE pc[w] = "drop" /\ Goes(w, "rollback", job[w]) /\ "s3" \in mishaps'
  BY <1>1, <1>2, <1>4, QuietImages
<1>5. CASE pc[w] = "drop" /\ job[w].op = "delete" /\ Goes(w, "write", job[w])
  <2>1. job[w].new = 0
    BY <1>2, <1>5 DEF JobOK
  <2> QED
    BY <1>1, <1>2, <1>5, <2>1, QuietImages
<1> QED
  BY <1>3, <1>4, <1>5 DEF Undoes

LEMMA UploadsImages ==
  ASSUME TypeInv, ImageInv, NEW w \in Worker, Uploads(w)
  PROVE  ImageInv'
<1> DEFINE n == uploads + 1
           k == [job[w] EXCEPT !.new = n]
<1>1. /\ pc[w] = "upload" /\ uploads' = n /\ bucket' = bucket \cup {n}
      /\ UNCHANGED <<rows, mishaps, moved, overlapped>>
  BY DEF Uploads
<1>2. PICK l \in {"write", "drop"} :
        Goes(w, l, k) /\ (l = "drop" <=> job[w].op = "profile" /\ job[w].old # 0)
  BY DEF Uploads
<1>3. uploads \in Nat /\ n \in Nat /\ n # 0 /\ \A i \in Nat : i <= uploads => i <= n /\ i # n
  BY DEF TypeInv
<1>4. k.new = n /\ k.op = job[w].op /\ k.row = job[w].row /\ k.old = job[w].old
  BY <1>1, <1>2, <1>3, UploadedJob
<1> HIDE DEF n, k
<1>5. /\ pc'[w] = l /\ job'[w] = k
      /\ \A v \in Worker \ {w} : pc'[v] = pc[v] /\ job'[v] = job[v]
  BY <1>2, Moves
<1>6. w \in Busy /\ Busy' = Busy
  BY <1>1, <1>5 DEF Busy
<1>7. \A v \in Busy : /\ v \in Worker /\ job[v] \in Job /\ job[v].old \in Nat /\ job[v].new \in Nat
                      /\ job[v].row \in Id /\ JobOK(pc[v], job[v])
  BY JobNumbers
<1>8. \A v \in Busy : job'[v].old = job[v].old /\ job'[v].row = job[v].row /\ job'[v].op = job[v].op
                      /\ (v # w => pc'[v] = pc[v] /\ job'[v].new = job[v].new)
  BY <1>4, <1>5, <1>7
<1>9. \A r \in Id : ~Has(r, n)
  BY <1>3 DEF ImageInv, Numbers
<1>10. \A v \in Busy : job[v].old # n /\ job[v].new # n
  BY <1>3, <1>7 DEF ImageInv, Numbers
<1>11. Numbers'
  <2>1. \A r \in Id, i \in Nat : Has(r, i) => i <= n
    BY <1>3 DEF ImageInv, Numbers
  <2>2. \A v \in Busy : job'[v].old <= n /\ job'[v].new <= n
    BY <1>3, <1>4, <1>5, <1>7, <1>8 DEF ImageInv, Numbers
  <2> QED
    BY <1>1, <1>6, <2>1, <2>2 DEF Numbers, Has
<1>12. Distinct'
  <2>1. ASSUME NEW u \in Busy, NEW v \in Busy, job'[v].new # 0, job'[u].new = job'[v].new
        PROVE  u = v
    <3>1. CASE u # w /\ v # w
      BY <1>8, <2>1, <3>1 DEF ImageInv, Distinct
    <3>2. CASE u = w
      BY <1>4, <1>5, <1>8, <1>10, <2>1, <3>2
    <3>3. CASE v = w
      BY <1>4, <1>5, <1>8, <1>10, <2>1, <3>3
    <3> QED
      BY <3>1, <3>2, <3>3
  <2> QED
    BY <1>1, <1>6, <2>1 DEF ImageInv, Distinct, Has
<1>13. Owned'
  BY <1>1, <1>6, <1>8 DEF ImageInv, Owned, Has
<1>14. \A v \in Busy : v # w /\ Fresh(v) => Fresh(v)'
  BY <1>1, <1>6, <1>8 DEF Fresh, Has
<1>15. Fresh(w)'
  BY <1>1, <1>4, <1>5, <1>6, <1>8, <1>9, <1>10 DEF Fresh, Has
<1>16. Stored'
  <2>1. ASSUME NEW v \in Busy, job'[v].new # 0,
               pc'[v] = "write" \/ (pc'[v] = "drop" /\ job'[v].op = "profile")
        PROVE  Fresh(v)' /\ job'[v].new \in bucket'
    <3>1. CASE v # w
      BY <1>1, <1>8, <1>14, <2>1, <3>1 DEF ImageInv, Stored
    <3>2. CASE v = w
      BY <1>1, <1>4, <1>5, <1>15, <3>2
    <3> QED
      BY <3>1, <3>2
  <2> QED
    BY <1>6, <2>1 DEF Stored
<1>17. Undone'
  <2>1. ASSUME NEW v \in Busy, pc'[v] = "rollback", "s3" \notin mishaps
        PROVE  Fresh(v)'
    <3>1. v # w
      BY <1>5, <2>1
    <3> QED
      BY <1>8, <1>14, <2>1, <3>1 DEF ImageInv, Undone
  <2> QED
    BY <1>1, <1>6, <2>1 DEF Undone
<1>18. Replaced'
  <2>1. ASSUME NEW v \in Busy, NEW r \in Id, pc'[v] = "drop", job'[v].op = "update",
               job'[v].old \notin Elsewhere
        PROVE  ~Has(r, job'[v].old)
    <3>1. v # w
      BY <1>2, <1>5, <1>8, <2>1
    <3> QED
      BY <1>8, <2>1, <3>1 DEF ImageInv, Replaced
  <2> QED
    BY <1>1, <1>6, <2>1 DEF Replaced, Has
<1>19. AllCovered'
  <2>1. ASSUME NEW r \in Id, Covered(r)
        PROVE  Covered(r)'
    <3>1. CASE rows[r].image \in bucket \cup Elsewhere
      BY <1>1, <3>1 DEF Covered
    <3>2. ASSUME NEW v \in Busy, Torn(v), job[v].row = r
          PROVE  Covered(r)'
      <4>1. v # w
        BY <1>1, <3>2 DEF Torn, At
      <4>2. Torn(v)'
        BY <1>5, <1>7, <3>2, <4>1 DEF Torn, At
      <4> QED
        BY <1>6, <1>8, <3>2, <4>2 DEF Covered
    <3> QED
      BY <2>1, <3>1, <3>2 DEF Covered
  <2> QED
    BY <1>1, <2>1 DEF ImageInv, AllCovered, Live
<1> QED
  BY <1>11, <1>12, <1>13, <1>16, <1>17, <1>18, <1>19 DEF ImageInv

LEMMA RemovesImages ==
  ASSUME TypeInv, ImageInv, NEW w \in Worker, Removes(w)
  PROVE  ImageInv'
<1> DEFINE gone == IF pc[w] = "drop" THEN job[w].old ELSE job[w].new
<1>1. /\ UNCHANGED <<rows, uploads, mishaps>> /\ bucket' = bucket \ {gone}
      /\ pc[w] \in {"drop", "rollback"}
  BY DEF Removes
<1> DEFINE l == IF pc[w] = "drop" /\ job[w].op # "update" THEN "write" ELSE "idle"
           j == IF pc[w] = "drop" /\ job[w].op # "update" THEN job[w] ELSE None
<1>2. Goes(w, l, j)
  BY DEF Removes
<1>3. /\ l \in {"write", "idle"}
      /\ l = "write" <=> pc[w] = "drop" /\ job[w].op # "update"
      /\ l = "write" => j = job[w]
  OBVIOUS
<1>4. \/ gone = job[w].old /\ pc[w] = "drop"
      \/ gone = job[w].new /\ pc[w] = "rollback"
  BY <1>1
<1> HIDE DEF gone, l, j
<1>5. /\ pc'[w] = l /\ job'[w] = j
      /\ \A v \in Worker \ {w} : pc'[v] = pc[v] /\ job'[v] = job[v]
      /\ \A v \in Busy' : v # w => v \in Busy
      /\ w \in Busy' <=> l # "idle"
  BY <1>2, Moves
<1>6. w \in Busy /\ (\A v \in Busy' : v \in Worker) /\ \A v \in Busy : v \in Worker
  BY <1>1 DEF Busy
<1>7. \A v \in Busy : /\ job[v] \in Job /\ job[v].old \in Nat /\ job[v].new \in Nat
                      /\ job[v].row \in Id /\ JobOK(pc[v], job[v])
  BY JobNumbers
<1>8. \A v \in Busy' : /\ v \in Busy /\ job'[v] = job[v] /\ (v # w => pc'[v] = pc[v])
  BY <1>3, <1>5, <1>6
<1>9. \/ pc[w] = "drop" /\ job[w].old # 0
      \/ pc[w] = "rollback" /\ job[w].new # 0
  BY <1>1, <1>6, <1>7 DEF JobOK
<1>10. Numbers'
  BY <1>1, <1>8 DEF ImageInv, Numbers, Has
<1>11. Distinct'
  BY <1>1, <1>8 DEF ImageInv, Distinct, Has
<1>12. Owned'
  BY <1>1, <1>8 DEF ImageInv, Owned, Has
<1>13. \A v \in Busy' : Fresh(v) => Fresh(v)'
  BY <1>1, <1>8 DEF Fresh, Has
<1>14. Stored'
  <2>1. ASSUME NEW v \in Busy', job'[v].new # 0,
               pc'[v] = "write" \/ (pc'[v] = "drop" /\ job'[v].op = "profile")
        PROVE  Fresh(v)' /\ job'[v].new \in bucket'
    <3>1. v \in Busy /\ job'[v] = job[v] /\ job[v].new # 0
      BY <1>8, <2>1
    <3>2. pc[v] = "write" \/ (pc[v] = "drop" /\ job[v].op = "profile")
      <4>1. CASE v # w
        BY <1>8, <2>1, <4>1
      <4>2. CASE v = w
        <5>1. pc[w] = "drop" /\ job[w].op # "update" /\ JobOK("drop", job[w]) /\ job[w] \in Job
          BY <1>3, <1>5, <1>7, <2>1, <3>1, <4>2
        <5>2. job[w].op # "delete"
          BY <3>1, <4>2, <5>1 DEF JobOK
        <5> QED
          BY <4>2, <5>1, <5>2 DEF Job, JobOK
      <4> QED
        BY <4>1, <4>2
    <3>3. Fresh(v) /\ job[v].new \in bucket
      BY <3>1, <3>2 DEF ImageInv, Stored
    <3>4. gone # job[v].new
      <4>1. CASE gone = job[w].old
        BY <1>6, <3>3, <4>1 DEF Fresh
      <4>2. CASE gone = job[w].new /\ pc[w] = "rollback"
        <5>1. v # w
          BY <3>2, <4>2
        <5> QED
          BY <1>6, <3>1, <4>2, <5>1 DEF ImageInv, Distinct
      <4> QED
        BY <1>4, <4>1, <4>2
    <3> QED
      BY <1>1, <1>13, <2>1, <3>1, <3>3, <3>4
  <2> QED
    BY <2>1 DEF Stored
<1>15. Undone'
  <2>1. ASSUME NEW v \in Busy', pc'[v] = "rollback", "s3" \notin mishaps'
        PROVE  Fresh(v)'
    <3>1. v # w
      BY <1>3, <1>5, <2>1
    <3> QED
      BY <1>1, <1>8, <1>13, <2>1, <3>1 DEF ImageInv, Undone
  <2> QED
    BY <2>1 DEF Undone
<1>16. Replaced'
  <2>1. ASSUME NEW v \in Busy', NEW r \in Id, pc'[v] = "drop", job'[v].op = "update",
               job'[v].old \notin Elsewhere
        PROVE  ~Has(r, job'[v].old)
    <3>1. v # w
      BY <1>3, <1>5, <2>1
    <3> QED
      BY <1>8, <2>1, <3>1 DEF ImageInv, Replaced
  <2> QED
    BY <1>1, <2>1 DEF Replaced, Has
<1>17. AllCovered'
  <2>1. ASSUME mishaps \cap {"s3", "profile", "delete"} = {}, NEW r \in Id, Live(r)
        PROVE  Covered(r)'
    <3>1. Covered(r)
      BY <2>1 DEF ImageInv, AllCovered
    <3>2. ASSUME NEW v \in Busy, Torn(v), job[v].row = r
          PROVE  Covered(r)'
      <4>1. v # w
        BY <1>1, <3>2 DEF Torn, At
      <4>2. v \in Busy' /\ job'[v] = job[v] /\ Torn(v)'
        BY <1>5, <1>6, <3>2, <4>1 DEF Busy, Torn, At
      <4> QED
        BY <3>2, <4>2 DEF Covered
    <3>3. CASE rows[r].image \in (bucket \ {gone}) \cup Elsewhere
      BY <1>1, <3>3 DEF Covered
    <3>4. CASE rows[r].image = gone /\ gone \notin Elsewhere
      <4>1. Has(r, gone)
        BY <2>1, <3>4 DEF Has, Live
      <4>2. CASE pc[w] = "rollback"
        BY <1>4, <1>6, <2>1, <4>1, <4>2 DEF ImageInv, Undone, Fresh
      <4>3. CASE pc[w] = "drop"
        <5>1. r = job[w].row /\ job[w].op # "update"
          BY <1>4, <1>6, <3>4, <4>1, <4>3 DEF ImageInv, Owned, Replaced
        <5>2. job[w].op \in {"profile", "delete"} /\ job[w].field # "text"
          BY <1>6, <1>7, <4>3, <5>1 DEF Job, JobOK
        <5>3. Uploaded(job[w].old)
          BY <1>4, <1>6, <1>7, <3>4, <4>3, UploadedIs
        <5>4. job'[w] = job[w] /\ pc'[w] = "write" /\ w \in Busy'
          BY <1>3, <1>5, <4>3, <5>1
        <5>5. Torn(w)'
          BY <5>2, <5>3, <5>4 DEF Torn, At
        <5> QED
          BY <5>1, <5>4, <5>5 DEF Covered
      <4> QED
        BY <1>1, <4>2, <4>3
    <3> QED
      BY <3>1, <3>2, <3>3, <3>4 DEF Covered
  <2> QED
    BY <1>1, <2>1 DEF AllCovered, Live
<1> QED
  BY <1>10, <1>11, <1>12, <1>14, <1>15, <1>16, <1>17 DEF ImageInv

\* The image a write gives its row.
LEMMA WrittenImage ==
  ASSUME TypeInv, ImageInv, NEW w \in Worker, pc[w] = "write", NEW x \in Row, Written(w, x),
         "reused" \notin mishaps'
  PROVE  LET j == job[w]
         IN  \/ x.image \in Elsewhere
             \/ x.image = j.new /\ j.new # 0 /\ Fresh(w) /\ j.new \in bucket
             \/ /\ rows[j.row] # None /\ x.image = rows[j.row].image
                /\ x.live => rows[j.row].live /\ ~Torn(w)
<1> DEFINE j == job[w]
<1>1. w \in Busy /\ j \in Job /\ JobOK("write", j) /\ j.url \in Nat
  BY InFlight DEF Busy, Job
<1>2. j.new # 0 => Fresh(w) /\ j.new \in bucket
  BY <1>1 DEF ImageInv, Stored
<1>3. j.op # "create" => rows[j.row] \in Row /\ rows[j.row] # None
  BY <1>1, InFlight, CatalogAssumption DEF Busy
\* The image the row is given when it had the image i.
<1>4. ASSUME NEW i, Tells(w, i)
      PROVE  \/ ImageAfter(w, i) \in Elsewhere
             \/ ImageAfter(w, i) = i /\ j.field # "file"
             \/ ImageAfter(w, i) = j.new /\ j.new # 0
  <2>1. CASE j.field = "none"
    BY <2>1 DEF ImageAfter
  <2>2. CASE j.field = "text"
    <3>1. ImageAfter(w, i) = j.url
      BY <2>2 DEF ImageAfter
    <3>2. j.url # i => j.url \in Elsewhere
      BY <1>1, <1>4, <2>2, UploadedIs DEF Tells
    <3> QED
      BY <2>2, <3>1, <3>2
  <2>3. CASE j.field = "file"
    <3>1. ImageAfter(w, i) = j.new
      BY <2>3 DEF ImageAfter
    <3>2. j.new # 0
      BY <1>1, <2>3 DEF JobOK
    <3> QED
      BY <3>1, <3>2
  <2> QED
    BY <1>1, <2>1, <2>2, <2>3 DEF Job, ImageField
<1>5. CASE j.op = "create"
  <2>1. x.image = ImageAfter(w, 0) /\ Tells(w, 0)
    BY <1>5 DEF Written
  <2>2. 0 \in Elsewhere
    BY DEF Elsewhere
  <2> QED
    BY <1>2, <1>4, <2>1, <2>2
<1>6. CASE j.op = "update"
  <2>1. /\ x.image = ImageAfter(w, rows[j.row].image) /\ Tells(w, rows[j.row].image)
        /\ x.live => rows[j.row].live
        /\ ~Torn(w)
    BY <1>6 DEF Written, Torn, At
  <2>2. \/ x.image \in Elsewhere
        \/ x.image = rows[j.row].image
        \/ x.image = j.new /\ j.new # 0
    BY <1>4, <2>1
  <2> QED
    BY <1>2, <1>3, <1>6, <2>1, <2>2
<1>7. CASE j.op = "profile"
  <2>1. /\ x.image = ImageAfter(w, rows[j.row].image) /\ Tells(w, rows[j.row].image)
        /\ x.live => rows[j.row].live
    BY <1>3, <1>7 DEF Written, Row
  <2>2. j.field # "file" => ~Torn(w)
    BY <1>1, <1>7 DEF Torn, JobOK, Job, ImageField
  <2>3. \/ x.image \in Elsewhere
        \/ x.image = rows[j.row].image /\ ~Torn(w)
        \/ x.image = j.new /\ j.new # 0
    BY <1>4, <2>1, <2>2
  <2> QED
    BY <1>2, <1>3, <1>7, <2>1, <2>3
<1>8. CASE j.op = "delete"
  <2>1. x.image = rows[j.row].image /\ ~x.live
    BY <1>3, <1>8 DEF Written, Row
  <2> QED
    BY <1>3, <1>8, <2>1
<1> QED
  BY <1>1, <1>5, <1>6, <1>7, <1>8 DEF Job

LEMMA WritesImages ==
  ASSUME TypeInv, ImageInv, NEW w \in Worker, Writes(w), "reused" \notin mishaps'
  PROVE  ImageInv'
<1>1. PICK x \in Row, l \in {"idle", "drop"} :
        /\ pc[w] = "write" /\ Goes(w, l, IF l = "idle" THEN None ELSE job[w])
        /\ l = "drop" <=> job[w].op = "update" /\ job[w].new # 0 /\ job[w].old # 0
        /\ rows' = [rows EXCEPT ![job[w].row] = x] /\ Written(w, x)
        /\ mishaps \subseteq mishaps' /\ mishaps' \subseteq mishaps \cup {"text", "reused"}
        /\ UNCHANGED <<bucket, uploads>>
  BY DEF Writes
<1> DEFINE j == job[w]
           o == j.row
<1>2. w \in Busy /\ (\A v \in Busy' : v \in Worker) /\ \A v \in Busy : v \in Worker
  BY <1>1 DEF Busy
<1>3. \A v \in Busy : /\ job[v] \in Job /\ job[v].old \in Nat /\ job[v].new \in Nat
                      /\ job[v].row \in Id /\ JobOK(pc[v], job[v])
  BY JobNumbers
<1>4. /\ pc'[w] = l /\ (l = "drop" => job'[w] = job[w])
      /\ \A v \in Worker \ {w} : pc'[v] = pc[v] /\ job'[v] = job[v]
      /\ \A v \in Busy' : v # w => v \in Busy
      /\ w \in Busy' <=> l = "drop"
  BY <1>1, Moves
<1>5. \A v \in Busy' : v \in Busy /\ job'[v] = job[v] /\ (v # w => pc'[v] = pc[v])
  BY <1>2, <1>4
<1>6. x \in Row /\ x # None /\ x.image \in Nat /\ o \in Id
  BY <1>2, <1>3, CatalogAssumption DEF Row
<1>7. rows'[o] = x /\ \A r \in Id : r # o => rows'[r] = rows[r]
  BY <1>1, <1>6 DEF TypeInv
<1>8. \/ x.image \in Elsewhere
      \/ x.image = j.new /\ j.new # 0 /\ Fresh(w) /\ j.new \in bucket
      \/ /\ rows[o] # None /\ x.image = rows[o].image
         /\ x.live => rows[o].live /\ ~Torn(w)
  BY <1>1, WrittenImage
\* What a row has now is what it had, nothing of ours, or the new image.
<1>9. ASSUME NEW r \in Id, NEW i, rows'[r] # None, rows'[r].image = i
      PROVE  \/ Has(r, i)
             \/ r = o /\ i \in Elsewhere
             \/ r = o /\ i = j.new /\ j.new # 0 /\ Fresh(w)
  BY <1>6, <1>7, <1>8, <1>9 DEF Has
<1>10. Numbers'
  <2>1. ASSUME NEW r \in Id, NEW i \in Nat, rows'[r] # None, rows'[r].image = i
        PROVE  i <= uploads
    <3>1. (\A k \in Elsewhere : k <= uploads) /\ j.new <= uploads
      BY <1>2 DEF TypeInv, ImageInv, Numbers, Elsewhere, Outside
    <3> QED
      BY <1>9, <2>1, <3>1 DEF ImageInv, Numbers
  <2> QED
    BY <1>1, <1>5, <2>1 DEF ImageInv, Numbers, Has
<1>11. Distinct'
  <2>1. ASSUME NEW r \in Id, NEW q \in Id, NEW i \in Nat \ Elsewhere,
               rows'[r] # None, rows'[r].image = i, rows'[q] # None, rows'[q].image = i
        PROVE  r = q
    <3>1. Has(r, i) \/ (r = o /\ i = j.new /\ Fresh(w))
      BY <1>9, <2>1
    <3>2. Has(q, i) \/ (q = o /\ i = j.new /\ Fresh(w))
      BY <1>9, <2>1
    <3>3. Fresh(w) => ~Has(r, j.new) /\ ~Has(q, j.new)
      BY DEF Fresh
    <3> QED
      BY <3>1, <3>2, <3>3 DEF ImageInv, Distinct
  <2>2. \A u, v \in Busy' : job'[v].new # 0 /\ job'[u].new = job'[v].new => u = v
    BY <1>5 DEF ImageInv, Distinct
  <2> QED
    BY <2>1, <2>2 DEF Distinct, Has
<1>12. Owned'
  <2>1. ASSUME NEW v \in Busy', NEW r \in Id, job'[v].old \notin Elsewhere,
               rows'[r] # None, rows'[r].image = job'[v].old
        PROVE  r = job'[v].row
    <3>1. v \in Busy /\ job'[v] = job[v]
      BY <1>5
    <3>2. Has(r, job[v].old)
      BY <1>9, <2>1, <3>1 DEF Fresh
    <3> QED
      BY <2>1, <3>1, <3>2 DEF ImageInv, Owned
  <2> QED
    BY <2>1 DEF Owned, Has
<1>13. ASSUME NEW v \in Busy', v # w, Fresh(v), job[v].new # 0
       PROVE  Fresh(v)'
  <2>1. v \in Busy /\ job'[v] = job[v]
    BY <1>5
  <2>2. ASSUME NEW r \in Id, rows'[r] # None, rows'[r].image = job[v].new
        PROVE  FALSE
    <3>1. job[v].new # j.new
      BY <1>2, <1>13, <2>1 DEF ImageInv, Distinct
    <3>2. \/ Has(r, job[v].new)
          \/ job[v].new \in Elsewhere
          \/ job[v].new = j.new
      <4> DEFINE i == job[v].new
      <4>1. i = job[v].new
        OBVIOUS
      <4> HIDE DEF i
      <4> QED
        BY <1>9, <2>2, <4>1
    <3>3. ~Has(r, job[v].new)
      BY <1>13 DEF Fresh
    <3>4. job[v].new \notin Elsewhere
      BY <1>3, <1>13, <2>1 DEF JobOK, Elsewhere
    <3> QED
      BY <1>13, <3>1, <3>2, <3>3, <3>4
  <2>3. \A u \in Busy' : job'[u].old # job'[v].new
    BY <1>5, <1>13, <2>1 DEF Fresh
  <2> QED
    BY <2>1, <2>2, <2>3 DEF Fresh, Has
<1>14. Stored'
  <2>1. ASSUME NEW v \in Busy', job'[v].new # 0,
               pc'[v] = "write" \/ (pc'[v] = "drop" /\ job'[v].op = "profile")
        PROVE  Fresh(v)' /\ job'[v].new \in bucket'
    <3>1. v # w
      BY <1>1, <1>4, <2>1
    <3>2. v \in Busy /\ job'[v] = job[v] /\ pc'[v] = pc[v]
      BY <1>5, <3>1
    <3>3. Fresh(v) /\ job[v].new \in bucket
      BY <2>1, <3>2 DEF ImageInv, Stored
    <3> QED
      BY <1>1, <1>13, <2>1, <3>1, <3>2, <3>3
  <2> QED
    BY <2>1 DEF Stored
<1>15. Undone'
  <2>1. ASSUME NEW v \in Busy', pc'[v] = "rollback", "s3" \notin mishaps'
        PROVE  Fresh(v)'
    <3>1. v # w
      BY <1>4, <2>1
    <3>2. v \in Busy /\ job'[v] = job[v] /\ pc[v] = "rollback" /\ "s3" \notin mishaps
      BY <1>1, <1>5, <2>1, <3>1
    <3>3. Fresh(v) /\ job[v].new # 0
      BY <1>3, <3>2 DEF ImageInv, Undone, JobOK
    <3> QED
      BY <1>13, <3>1, <3>3
  <2> QED
    BY <2>1 DEF Undone
<1>16. Replaced'
  <2>1. ASSUME NEW v \in Busy', NEW r \in Id, pc'[v] = "drop", job'[v].op = "update",
               job'[v].old \notin Elsewhere, rows'[r] # None, rows'[r].image = job'[v].old
        PROVE  FALSE
    <3>1. v \in Busy /\ job'[v] = job[v]
      BY <1>5
    <3>2. job[v].old \notin Elsewhere
      BY <2>1, <3>1
    <3>3. Has(r, job[v].old)
      BY <1>9, <2>1, <3>1, <3>2 DEF Fresh
    <3>4. CASE v # w
      BY <1>5, <2>1, <3>1, <3>3, <3>4 DEF ImageInv, Replaced
    <3>5. CASE v = w
      <4>1. j.op = "update" /\ j.new # 0 /\ j.field = "file" /\ r = o
        <5>1. j.op = "update" /\ j.new # 0
          BY <1>1, <1>4, <2>1, <3>5
        <5>2. j.field = "file"
          BY <1>2, <1>3, <5>1 DEF JobOK
        <5>3. r = o
          BY <1>2, <3>2, <3>3, <3>5 DEF ImageInv, Owned
        <5> QED
          BY <5>1, <5>2, <5>3
      <4>2. x.image = j.new
        BY <1>1, <4>1 DEF Written, ImageAfter
      <4>3. Fresh(w)
        BY <1>1, <1>2, <4>1 DEF ImageInv, Stored
      <4>4. j.old # j.new
        BY <1>2, <4>3 DEF Fresh
      <4> QED
        BY <1>7, <2>1, <3>1, <3>5, <4>1, <4>2, <4>4 DEF Has
    <3> QED
      BY <3>4, <3>5
  <2> QED
    BY <2>1 DEF Replaced, Has
<1>17. AllCovered'
  <2>1. ASSUME mishaps' \cap {"s3", "profile", "delete"} = {}, NEW r \in Id, Live(r)'
        PROVE  Covered(r)'
    <3>1. ASSUME Covered(r), rows'[r].image = rows[r].image,
                 r = o => ~Torn(w)
          PROVE  Covered(r)'
      <4>1. CASE rows[r].image \in bucket \cup Elsewhere
        BY <1>1, <3>1, <4>1 DEF Covered
      <4>2. ASSUME NEW v \in Busy, Torn(v), job[v].row = r
            PROVE  Covered(r)'
        <5>1. v # w
          BY <3>1, <4>2
        <5>2. v \in Busy' /\ job'[v] = job[v] /\ Torn(v)'
          BY <1>2, <1>4, <4>2, <5>1 DEF Busy, Torn, At
        <5> QED
          BY <4>2, <5>2 DEF Covered
      <4> QED
        BY <3>1, <4>1, <4>2 DEF Covered
    <3>2. mishaps \cap {"s3", "profile", "delete"} = {}
      BY <1>1, <2>1
    <3>3. CASE r # o
      <4>1. Live(r)
        BY <1>7, <2>1, <3>3 DEF Live
      <4>2. Covered(r)
        BY <3>2, <4>1 DEF ImageInv, AllCovered
      <4> QED
        BY <1>7, <3>1, <3>3, <4>2
    <3>4. CASE r = o /\ x.image \in bucket \cup Elsewhere
      BY <1>1, <1>7, <3>4 DEF Covered
    <3>5. CASE r = o /\ x.image \notin bucket \cup Elsewhere
      <4>1. x.live
        BY <1>7, <2>1, <3>5 DEF Live
      <4>2. /\ rows[o] # None /\ x.image = rows[o].image /\ rows[o].live
            /\ ~Torn(w)
        BY <1>8, <3>5, <4>1
      <4>3. Live(r)
        BY <3>5, <4>2 DEF Live
      <4>4. Covered(r)
        BY <3>2, <4>3 DEF ImageInv, AllCovered
      <4> QED
        BY <1>7, <3>1, <3>5, <4>2, <4>4
    <3> QED
      BY <3>3, <3>4, <3>5
  <2> QED
    BY <2>1 DEF AllCovered
<1> QED
  BY <1>10, <1>11, <1>12, <1>14, <1>15, <1>16, <1>17 DEF ImageInv

LEMMA InitImages == Init => ImageInv
<1> SUFFICES ASSUME Init PROVE ImageInv
  OBVIOUS
<1>1. \A c : Bare(c).image = 0
  BY DEF Bare
<1>2. \A r \in Id : rows[r] # None => rows[r].image = 0
  BY <1>1 DEF Init
<1>3. Busy = {}
  BY DEF Init, Busy
<1>4. \A r \in Id, i \in Nat : Has(r, i) => i = 0
  BY <1>2 DEF Has
<1>5. Numbers /\ Distinct
  BY <1>3, <1>4 DEF Init, Numbers, Distinct, Elsewhere, Outside
<1>6. Owned /\ Stored /\ Undone /\ Replaced
  BY <1>3 DEF Owned, Stored, Undone, Replaced
<1>7. AllCovered
  BY <1>2 DEF AllCovered, Live, Covered, Elsewhere
<1> QED
  BY <1>5, <1>6, <1>7 DEF ImageInv

LEMMA CrashImages ==
  ASSUME TypeInv, ImageInv, Crash
  PROVE  ImageInv'
<1>1. /\ pc' = [w \in Worker |-> "idle"] /\ UNCHANGED <<rows, bucket, uploads>>
      /\ mishaps' = mishaps \cup {"stop"} \cup {job[w].op : w \in {v \in Worker : Torn(v)}}
  BY DEF Crash, Keep
<1>2. Busy' = {}
  BY <1>1 DEF Busy
<1>3. (Numbers /\ Distinct /\ Owned /\ Stored /\ Undone /\ Replaced)'
  BY <1>1, <1>2 DEF ImageInv, Numbers, Distinct, Owned, Stored, Undone, Replaced, Has
<1>4. AllCovered'
  <2>1. ASSUME mishaps' \cap {"s3", "profile", "delete"} = {}, NEW r \in Id, Live(r)
        PROVE  Covered(r)'
    <3>1. Covered(r)
      BY <1>1, <2>1 DEF ImageInv, AllCovered
    <3>2. \A w \in Worker : ~Torn(w)
      <4>1. \A w \in Worker : Torn(w) => job[w].op \in {"profile", "delete"}
        BY DEF Torn, At
      <4> QED
        BY <1>1, <2>1, <4>1
    <3>3. \A w \in Busy : w \in Worker
      BY DEF Busy
    <3> QED
      BY <1>1, <3>1, <3>2, <3>3 DEF Covered
  <2> QED
    BY <1>1, <2>1 DEF AllCovered, Live
<1> QED
  BY <1>3, <1>4 DEF ImageInv

\* Nobody has been given the URL of another row's upload.
OwnImages == "reused" \notin mishaps => ImageInv

LEMMA NextImages == TypeInv /\ OwnImages /\ [Next]_vars => OwnImages'
<1>1. ASSUME TypeInv, ImageInv, UNCHANGED vars
      PROVE  ImageInv'
  <2>1. /\ rows' = rows /\ bucket' = bucket /\ uploads' = uploads /\ mishaps' = mishaps
        /\ pc' = pc /\ job' = job
    BY <1>1 DEF vars, hist
  <2>2. Busy' = Busy
    BY <2>1 DEF Busy
  <2>3. (Numbers /\ Distinct /\ Owned /\ Replaced)'
    BY <1>1, <2>1, <2>2 DEF ImageInv, Numbers, Distinct, Owned, Replaced, Has
  <2>4. (Stored /\ Undone)'
    BY <1>1, <2>1, <2>2 DEF ImageInv, Stored, Undone, Fresh, Has
  <2>5. AllCovered'
    BY <1>1, <2>1, <2>2 DEF ImageInv, AllCovered, Covered, Live, Torn, At
  <2> QED
    BY <2>3, <2>4, <2>5 DEF ImageInv
<1>2. ASSUME TypeInv, ImageInv, Next, "reused" \notin mishaps'
      PROVE  ImageInv'
  BY <1>2, NextActs, CrashImages, BeginsImages, ReadsImages, EndsImages, UploadsImages,
     WritesImages, RemovesImages, UndoesImages DEF Acts
<1>3. Next => mishaps \subseteq mishaps'
  <2>1. ASSUME NEW w \in Worker, Requests(w) PROVE mishaps' = mishaps
    BY <2>1 DEF Requests, CreateStart, UpdateStart, ProfileStart, DeleteStart, Start
  <2>2. ASSUME NEW w \in Worker, Serve(w) PROVE mishaps \subseteq mishaps'
    BY <2>2 DEF Serve, Load, Categories, Subcategories, Names, Upload, Insert, Update, UpdateProfile,
       SoftDelete, Drop, Rollback
  <2>3. Crash => mishaps \subseteq mishaps'
    BY DEF Crash
  <2> QED
    BY <2>1, <2>2, <2>3 DEF Next
<1>4. ASSUME UNCHANGED vars PROVE mishaps' = mishaps
  BY <1>4 DEF vars, hist
<1> QED
  BY <1>1, <1>2, <1>3, <1>4 DEF OwnImages

-----------------------------------------------------------------------------
(* Requests that do not overlap.                                           *)

\* What a request has read and checked is still so.
Sound(l, j) ==
  LET reading == {"category", "subcategory", "name", "upload", "write"}
  IN
  /\ j.op = "create" => rows[j.row] = None
  /\ \/ j.op # "create" /\ l \in reading
     \/ j.op \in {"profile", "delete"} /\ l = "drop"
     => Live(j.row) /\ j.old = rows[j.row].image
  /\ l \in reading => Keeps(j)
  /\ l \in {"name", "upload", "write"} /\ j.op \in {"create", "update"} => Agrees(j)

\* What is in the bucket besides the images in use, or no longer.
TidyAt(l, j) ==
  /\ l \in Early \cup {"idle"} => bucket \subseteq InUse
  /\ l = "write" => bucket \subseteq InUse \cup {j.new}
  /\ l = "write" /\ j.op \in {"profile", "delete"} /\ j.field # "text" =>
       bucket \subseteq (InUse \ {j.old}) \cup {j.new}
  /\ l = "drop" /\ j.op = "update" => bucket \subseteq InUse \cup {j.old}
  /\ l = "drop" /\ j.op # "update" => bucket \subseteq InUse \cup {j.new}
  /\ l = "rollback" => bucket \subseteq InUse \cup {j.new}

\* A program's subcategory exists.
Referred ==
  \A p \in Program : rows[p] # None /\ rows[p].subcategory # None => rows[rows[p].subcategory] # None

SerialInv ==
  ~overlapped =>
    /\ \A v, w \in Busy : v = w
    /\ \A w \in Busy : Sound(pc[w], job[w])
    /\ Referred /\ RelationsAgree
    /\ mishaps = {} => /\ Busy = {} => bucket \subseteq InUse
                       /\ \A w \in Busy : TidyAt(pc[w], job[w])

\* A step of the only request there is.
LEMMA OneStep ==
  ASSUME TypeInv, NEW w \in Worker, NEW l, NEW j, Goes(w, l, j), Busy \subseteq {w},
         w \in Busy' => Sound(pc[w], job[w])',
         Referred', RelationsAgree',
         mishaps' = {} => TidyAt(pc[w], job[w])'
  PROVE  SerialInv'
<1>1. Busy' \subseteq {w}
  BY Moves
<1>2. Busy' = {} => pc'[w] = "idle"
  BY DEF Busy
<1> QED
  BY <1>1, <1>2 DEF SerialInv, TidyAt

\* What is known before that step.
LEMMA OneBefore ==
  ASSUME SerialInv, ~overlapped, NEW w \in Worker, pc[w] # "idle"
  PROVE  /\ w \in Busy /\ Busy \subseteq {w} /\ Sound(pc[w], job[w]) /\ Referred /\ RelationsAgree
         /\ mishaps = {} => TidyAt(pc[w], job[w])
<1>1. w \in Busy
  BY DEF Busy
<1> QED
  BY <1>1 DEF SerialInv

\* Nothing changes for the rows.
LEMMA RowsStay ==
  ASSUME UNCHANGED <<rows, moved, overlapped>>, Referred, RelationsAgree
  PROVE  Referred' /\ RelationsAgree' /\ InUse' = InUse
BY DEF Referred, RelationsAgree, InUse, Live

\* No upload has the number 0, or that of a URL from elsewhere.
LEMMA BucketNumbers == TypeInv => bucket \cap Elsewhere = {}
BY DEF TypeInv, Elsewhere, Outside

LEMMA BeginsSerial ==
  ASSUME TypeInv, SerialInv, NEW w \in Worker, Begins(w)
  PROVE  SerialInv'
<1>1. PICK l \in {"load", "category", "subcategory", "name"}, k \in Job :
        /\ pc[w] = "idle" /\ Goes(w, l, k) /\ JobOK(l, k)
        /\ k.op = "create" <=> rows[k.row] = None
        /\ l = "name" => k.op = "create" /\ k.subcategory = None
        /\ l # "load" => k.op = "create"
        /\ overlapped' = (overlapped \/ \E v \in Worker \ {w} : pc[v] # "idle")
        /\ UNCHANGED <<rows, bucket, uploads, mishaps, moved>>
  BY DEF Begins
<1>2. CASE overlapped'
  BY <1>2 DEF SerialInv
<1>3. CASE ~overlapped'
  <2>1. Busy = {} /\ ~overlapped /\ overlapped' = overlapped
    BY <1>1, <1>3 DEF Busy, TypeInv
  <2>2. /\ Referred' /\ RelationsAgree' /\ InUse' = InUse
        /\ mishaps = {} => bucket \subseteq InUse
    BY <1>1, <2>1, RowsStay DEF SerialInv
  <2>3. pc'[w] = l /\ job'[w] = k
    BY <1>1, Moves
  <2>4. Sound(pc[w], job[w])'
    BY <1>1, <2>3 DEF Sound, Keeps, Agrees
  <2>5. mishaps' = {} => TidyAt(pc[w], job[w])'
    BY <1>1, <2>2, <2>3 DEF TidyAt, Early
  <2> QED
    BY <1>1, <2>1, <2>2, <2>4, <2>5, OneStep
<1> QED
  BY <1>2, <1>3

LEMMA ReadsSerial ==
  ASSUME TypeInv, SerialInv, NEW w \in Worker, Reads(w)
  PROVE  SerialInv'
<1>1. PICK l \in {"category", "subcategory", "name", "upload", "write", "drop"}, k \in Job :
        /\ pc[w] \in Early \ {"upload"} /\ Goes(w, l, k) /\ JobOK(l, k)
        /\ k.op = job[w].op /\ k.row = job[w].row /\ k.field = job[w].field /\ k.new = 0
        /\ \/ /\ pc[w] = "load"
              /\ Live(k.row) /\ k.old = rows[k.row].image
              /\ Keeps(k) /\ (l = "name" /\ k.op # "profile" => k.subcategory = None)
              /\ l \in {"write", "drop"} => k.op = "delete" /\ (l = "write" => k.old = 0)
              /\ l # "upload"
           \/ /\ pc[w] \in {"category", "subcategory"}
              /\ k.old = job[w].old /\ k.subcategory = job[w].subcategory
              /\ k.op = "update" => k.category = job[w].category
              /\ l \in {"subcategory", "name"}
              /\ l = "name" => Agrees(k)
           \/ pc[w] = "name" /\ k = job[w] /\ l \in {"upload", "write"}
        /\ UNCHANGED <<rows, bucket, uploads, mishaps, moved, overlapped>>
  BY DEF Reads
<1>2. CASE overlapped
  BY <1>1, <1>2 DEF SerialInv
<1>3. CASE ~overlapped
  <2>1. pc[w] # "idle"
    BY <1>1 DEF Early
  <2>2. /\ Busy \subseteq {w} /\ Sound(pc[w], job[w]) /\ Referred /\ RelationsAgree
        /\ mishaps = {} => TidyAt(pc[w], job[w])
    BY <1>3, <2>1, OneBefore
  <2>3. Referred' /\ RelationsAgree' /\ InUse' = InUse
    BY <1>1, <2>2, RowsStay
  <2>4. pc'[w] = l /\ job'[w] = k
    BY <1>1, Moves
  <2>5. (k.op = "create" => rows[k.row] = None) /\ JobOK(pc[w], job[w])
    BY <1>1, <2>1, <2>2, InFlight DEF Sound
  <2>6. Sound(l, k)
    <3>1. CASE pc[w] = "load"
      <4>1. k.op # "create"
        BY <1>1, <2>5, <3>1 DEF JobOK
      <4>2. Live(k.row) /\ k.old = rows[k.row].image /\ Keeps(k)
        BY <1>1, <3>1
      <4>3. l \in {"name", "upload", "write"} /\ k.op \in {"create", "update"} => Agrees(k)
        BY <1>1, <3>1 DEF Agrees
      <4> QED
        BY <4>1, <4>2, <4>3 DEF Sound
    <3>2. CASE pc[w] \in {"category", "subcategory"}
      <4>1. Keeps(job[w]) => Keeps(k)
        BY <1>1, <3>2 DEF Keeps
      <4>2. Keeps(k) /\ (k.op # "create" => Live(k.row) /\ k.old = rows[k.row].image)
        BY <1>1, <2>2, <3>2, <4>1 DEF Sound
      <4>3. l \in {"subcategory", "name"} /\ (l = "name" => Agrees(k))
        BY <1>1, <3>2
      <4> QED
        BY <2>5, <4>2, <4>3 DEF Sound
    <3>3. CASE pc[w] = "name"
      <4>1. k = job[w] /\ l \in {"upload", "write"}
        BY <1>1, <3>3
      <4> QED
        BY <2>2, <3>3, <4>1 DEF Sound
    <3> QED
      BY <1>1, <3>1, <3>2, <3>3
  <2>7. Sound(pc[w], job[w])'
    BY <1>1, <2>4, <2>6 DEF Sound, Keeps, Agrees, Live
  <2>8. ASSUME mishaps' = {}
        PROVE  TidyAt(pc[w], job[w])'
    <3>1. bucket \subseteq InUse /\ InUse \ {0} = InUse
      BY <1>1, <2>2, <2>8 DEF TidyAt, InUse
    <3>2. l = "write" /\ k.op \in {"profile", "delete"} /\ k.field # "text" => k.old = 0
      <4>1. CASE pc[w] = "name"
        <5>1. k.op # "delete"
          BY <1>1, <2>5, <4>1 DEF JobOK
        <5>2. k.op = "profile" /\ k.field # "text" => l # "write"
          BY <1>1 DEF JobOK, Job, ImageField
        <5> QED
          BY <5>1, <5>2
      <4>2. CASE pc[w] # "name"
        BY <1>1, <4>2
      <4> QED
        BY <4>1, <4>2
    <3>3. TidyAt(l, k)
      BY <3>1, <3>2 DEF TidyAt
    <3> QED
      BY <1>1, <2>3, <2>4, <3>3 DEF TidyAt
  <2> QED
    BY <1>1, <2>2, <2>3, <2>7, <2>8, OneStep
<1> QED
  BY <1>2, <1>3

LEMMA EndsSerial ==
  ASSUME TypeInv, SerialInv, NEW w \in Worker, Ends(w)
  PROVE  SerialInv'
<1>1. /\ pc[w] # "idle" /\ Goes(w, "idle", None) /\ mishaps \subseteq mishaps'
      /\ \/ pc[w] \in Early
         \/ pc[w] = "write" /\ (job[w].new = 0 \/ mishaps' # {})
         \/ mishaps' # {}
      /\ UNCHANGED <<rows, bucket, uploads, moved, overlapped>>
  BY DEF Ends
<1>2. CASE overlapped
  BY <1>1, <1>2 DEF SerialInv
<1>3. CASE ~overlapped
  <2>2. /\ Busy \subseteq {w} /\ Referred /\ RelationsAgree
        /\ mishaps = {} => TidyAt(pc[w], job[w])
    BY <1>1, <1>3, OneBefore
  <2>3. Referred' /\ RelationsAgree' /\ InUse' = InUse
    BY <1>1, <2>2, RowsStay
  <2>4. pc'[w] = "idle" /\ w \notin Busy'
    BY <1>1, Moves
  <2>5. mishaps' = {} => bucket \subseteq InUse
    <3>1. CASE pc[w] \in Early
      BY <1>1, <2>2, <3>1 DEF TidyAt
    <3>2. CASE pc[w] = "write" /\ job[w].new = 0
      <4>1. mishaps = {} => bucket \subseteq InUse \cup {0}
        BY <2>2, <3>2 DEF TidyAt
      <4>2. 0 \notin bucket
        BY BucketNumbers DEF Elsewhere
      <4> QED
        BY <1>1, <4>1, <4>2
    <3> QED
      BY <1>1, <3>1, <3>2
  <2>6. mishaps' = {} => TidyAt(pc[w], job[w])'
    BY <1>1, <2>3, <2>4, <2>5 DEF TidyAt
  <2> QED
    BY <1>1, <2>2, <2>3, <2>4, <2>6, OneStep
<1> QED
  BY <1>2, <1>3

LEMMA UploadsSerial ==
  ASSUME TypeInv, SerialInv, NEW w \in Worker, Uploads(w)
  PROVE  SerialInv'
<1> DEFINE n == uploads + 1
           k == [job[w] EXCEPT !.new = n]
<1>1. /\ pc[w] = "upload" /\ uploads' = n /\ bucket' = bucket \cup {n}
      /\ UNCHANGED <<rows, mishaps, moved, overlapped>>
  BY DEF Uploads
<1>2. PICK l \in {"write", "drop"} :
        Goes(w, l, k) /\ (l = "drop" <=> job[w].op = "profile" /\ job[w].old # 0)
  BY DEF Uploads
<1>3. n \in Nat /\ n # 0
  BY DEF TypeInv
<1>4. /\ k.new = n /\ k.op = job[w].op /\ k.row = job[w].row /\ k.old = job[w].old
      /\ k.category = job[w].category /\ k.subcategory = job[w].subcategory
  BY <1>1, <1>2, <1>3, UploadedJob
<1>5. job[w].op # "delete" /\ job[w].op \in {"create", "update", "profile"}
  BY <1>1, InFlight DEF JobOK, Job
<1> HIDE DEF n, k
<1>6. CASE overlapped
  BY <1>1, <1>6 DEF SerialInv
<1>7. CASE ~overlapped
  <2>1. /\ Busy \subseteq {w} /\ Sound("upload", job[w]) /\ Referred /\ RelationsAgree
        /\ mishaps = {} => TidyAt("upload", job[w])
    BY <1>1, <1>7, OneBefore
  <2>2. Referred' /\ RelationsAgree' /\ InUse' = InUse
    BY <1>1, <2>1, RowsStay
  <2>3. pc'[w] = l /\ job'[w] = k
    BY <1>2, Moves
  <2>4. Sound(l, k)
    BY <1>4, <2>1 DEF Sound, Keeps, Agrees
  <2>5. Sound(pc[w], job[w])'
    BY <1>1, <2>3, <2>4 DEF Sound, Keeps, Agrees, Live
  <2>6. mishaps' = {} => TidyAt(pc[w], job[w])'
    <3>1. mishaps' = {} => bucket \subseteq InUse
      BY <1>1, <2>1 DEF TidyAt, Early
    <3>2. InUse \ {0} = InUse
      BY DEF InUse
    <3>3. l = "write" /\ k.op \in {"profile", "delete"} => k.old = 0
      BY <1>2, <1>4, <1>5
    <3>4. mishaps' = {} => bucket' \subseteq InUse \cup {k.new}
      BY <1>1, <1>4, <3>1
    <3> QED
      BY <1>2, <1>4, <2>2, <2>3, <3>2, <3>3, <3>4 DEF TidyAt, Early
  <2> QED
    BY <1>2, <2>1, <2>2, <2>5, <2>6, OneStep
<1> QED
  BY <1>6, <1>7

LEMMA RemovesSerial ==
  ASSUME TypeInv, SerialInv, NEW w \in Worker, Removes(w)
  PROVE  SerialInv'
<1>1. /\ UNCHANGED <<rows, uploads, mishaps, moved, overlapped>>
      /\ pc[w] \in {"drop", "rollback"} /\ pc[w] # "idle"
  BY DEF Removes
<1>2. CASE overlapped
  BY <1>1, <1>2 DEF SerialInv
<1>3. CASE ~overlapped
  <2>1. /\ Busy \subseteq {w} /\ Sound(pc[w], job[w]) /\ Referred /\ RelationsAgree
        /\ mishaps = {} => TidyAt(pc[w], job[w])
    BY <1>1, <1>3, OneBefore
  <2>2. Referred' /\ RelationsAgree' /\ InUse' = InUse
    BY <1>1, <2>1, RowsStay
  <2>3. JobOK(pc[w], job[w]) /\ job[w] \in Job
    BY <1>1, InFlight
  <2>4. CASE /\ Goes(w, "idle", None)
             /\ \/ pc[w] = "drop" /\ job[w].op = "update" /\ bucket' = bucket \ {job[w].old}
                \/ pc[w] = "rollback" /\ bucket' = bucket \ {job[w].new}
    <3>1. pc'[w] = "idle" /\ w \notin Busy'
      BY <2>4, Moves
    <3>2. mishaps = {} => bucket' \subseteq InUse
      BY <2>1, <2>4 DEF TidyAt
    <3>3. mishaps' = {} => TidyAt(pc[w], job[w])'
      BY <1>1, <2>2, <3>1, <3>2 DEF TidyAt
    <3> QED
      BY <2>1, <2>2, <2>4, <3>1, <3>3, OneStep
  <2>5. CASE /\ pc[w] = "drop" /\ job[w].op # "update" /\ bucket' = bucket \ {job[w].old}
             /\ Goes(w, "write", job[w])
    <3>1. pc'[w] = "write" /\ job'[w] = job[w]
      BY <2>5, Moves
    <3>2. job[w].op \in {"profile", "delete"}
      BY <2>3, <2>5 DEF Job, JobOK
    <3>3. Sound(pc[w], job[w])'
      BY <1>1, <2>1, <2>5, <3>1, <3>2 DEF Sound, Keeps, Live
    <3>4. mishaps = {} => bucket' \subseteq (InUse \ {job[w].old}) \cup {job[w].new}
      BY <2>1, <2>5 DEF TidyAt
    <3>5. mishaps' = {} => TidyAt(pc[w], job[w])'
      BY <1>1, <2>2, <3>1, <3>2, <3>4 DEF TidyAt, Early
    <3> QED
      BY <2>1, <2>2, <2>5, <3>3, <3>5, OneStep
  <2> QED
    BY <2>4, <2>5 DEF Removes
<1> QED
  BY <1>2, <1>3

LEMMA UndoesSerial ==
  ASSUME TypeInv, SerialInv, NEW w \in Worker, Undoes(w)
  PROVE  SerialInv'
<1>1. /\ UNCHANGED <<rows, bucket, uploads, moved, overlapped>>
      /\ pc[w] \in {"drop", "write"} /\ pc[w] # "idle"
  BY DEF Undoes
<1>2. CASE overlapped
  BY <1>1, <1>2 DEF SerialInv
<1>3. CASE ~overlapped
  <2>1. /\ Busy \subseteq {w} /\ Sound(pc[w], job[w]) /\ Referred /\ RelationsAgree
        /\ mishaps = {} => TidyAt(pc[w], job[w])
    BY <1>1, <1>3, OneBefore
  <2>2. Referred' /\ RelationsAgree' /\ InUse' = InUse
    BY <1>1, <2>1, RowsStay
  <2>3. CASE /\ pc[w] = "write" /\ job[w].op \in {"create", "update"}
             /\ Goes(w, "rollback", job[w]) /\ UNCHANGED mishaps
    <3>1. pc'[w] = "rollback" /\ job'[w] = job[w]
      BY <2>3, Moves
    <3>2. Sound(pc[w], job[w])'
      BY <1>1, <2>1, <3>1 DEF Sound
    <3>3. mishaps' = {} => TidyAt(pc[w], job[w])'
      BY <1>1, <2>1, <2>2, <2>3, <3>1 DEF TidyAt, Early
    <3> QED
      BY <2>1, <2>2, <2>3, <3>2, <3>3, OneStep
  <2>4. CASE pc[w] = "drop" /\ Goes(w, "rollback", job[w]) /\ mishaps' = mishaps \cup {"s3"}
    <3>1. pc'[w] = "rollback" /\ job'[w] = job[w]
      BY <2>4, Moves
    <3>2. Sound(pc[w], job[w])'
      BY <1>1, <2>1, <3>1 DEF Sound
    <3> QED
      BY <2>1, <2>2, <2>4, <3>2, OneStep
  <2>5. CASE /\ pc[w] = "drop" /\ job[w].op = "delete" /\ Goes(w, "write", job[w])
             /\ mishaps' = mishaps \cup {"s3"}
    <3>1. pc'[w] = "write" /\ job'[w] = job[w]
      BY <2>5, Moves
    <3>2. Sound(pc[w], job[w])'
      BY <1>1, <2>1, <2>5, <3>1 DEF Sound, Keeps, Live
    <3> QED
      BY <2>1, <2>2, <2>5, <3>2, OneStep
  <2> QED
    BY <2>3, <2>4, <2>5 DEF Undoes
<1> QED
  BY <1>2, <1>3

\* The category and the subcategory a write gives its row, as they were or
\* as the request has checked them.
LEMMA WrittenRelations ==
  ASSUME TypeInv, NEW w \in Worker, pc[w] = "write", NEW x \in Row, Written(w, x),
         Sound("write", job[w])
  PROVE  LET j == job[w]
             y == rows[j.row]
         IN  /\ \/ j.op = "create" /\ y = None /\ x.category = j.category
                   /\ x.subcategory = j.subcategory /\ Agrees(j)
                \/ j.row \in Program /\ x.category = j.category
                   /\ x.subcategory = j.subcategory /\ Agrees(j)
                \/ y # None /\ x.subcategory = y.subcategory /\ x.category = y.category
                \/ j.row \notin Program /\ y # None
             /\ y # None /\ x.category # y.category /\ j.row \in Subcategory => j.row \in moved'
             /\ moved \subseteq moved'
<1> DEFINE j == job[w]
           y == rows[j.row]
<1>1. j \in Job /\ JobOK("write", j) /\ (j.op # "create" => y \in Row /\ y # None)
  BY InFlight, CatalogAssumption
<1>2. CASE j.op = "create"
  <2>1. y = None /\ Agrees(j)
    BY <1>2 DEF Sound
  <2> QED
    BY <1>2, <2>1 DEF Written
<1>3. CASE j.op = "update"
  <2>1. /\ x.category = (IF j.given /\ j.category # None THEN j.category ELSE y.category)
        /\ x.subcategory = (IF j.given /\ j.subcategory # None THEN j.subcategory ELSE y.subcategory)
        /\ moved' = IF j.row \in Subcategory /\ x.category # y.category
                    THEN moved \cup {j.row} ELSE moved
    BY <1>3 DEF Written
  <2>2. /\ j.row \in Program => /\ j.category = None => y.category = None
                                /\ j.subcategory = None => y.subcategory = None
        /\ Agrees(j)
    BY <1>3 DEF Sound, Keeps
  <2>3. CASE ~j.given
    BY <1>1, <1>3, <2>1, <2>3
  <2>4. CASE j.given /\ j.row \in Program
    <3>1. x.category = j.category
      BY <2>1, <2>2, <2>4
    <3>2. x.subcategory = j.subcategory
      BY <2>1, <2>2, <2>4
    <3> QED
      BY <2>1, <2>2, <2>4, <3>1, <3>2
  <2>5. CASE j.row \notin Program
    BY <1>1, <1>3, <2>1, <2>5
  <2> QED
    BY <2>3, <2>4, <2>5
<1>4. CASE j.op = "profile"
  <2>1. x.category = y.category /\ x.subcategory = y.subcategory /\ moved' = moved
    BY <1>1, <1>4 DEF Written, Row
  <2> QED
    BY <1>1, <1>4, <2>1
<1>5. CASE j.op = "delete"
  <2>1. x.category = y.category /\ x.subcategory = y.subcategory /\ moved' = moved
    BY <1>1, <1>5 DEF Written, Row
  <2> QED
    BY <1>1, <1>5, <2>1
<1> QED
  BY <1>1, <1>2, <1>3, <1>4, <1>5 DEF Job

\* The row of the only request, written: the relations agree again.
LEMMA WritesRelations ==
  ASSUME TypeInv, NEW w \in Worker, pc[w] = "write", NEW x \in Row, Written(w, x),
         Sound("write", job[w]), Referred, RelationsAgree, ~overlapped, UNCHANGED overlapped,
         rows' = [rows EXCEPT ![job[w].row] = x]
  PROVE  Referred' /\ RelationsAgree'
<1> DEFINE j == job[w]
           o == j.row
           y == rows[o]
<1>1. /\ \/ j.op = "create" /\ y = None /\ x.category = j.category
            /\ x.subcategory = j.subcategory /\ Agrees(j)
         \/ o \in Program /\ x.category = j.category
            /\ x.subcategory = j.subcategory /\ Agrees(j)
         \/ y # None /\ x.subcategory = y.subcategory /\ x.category = y.category
         \/ o \notin Program /\ y # None
      /\ y # None /\ x.category # y.category /\ o \in Subcategory => o \in moved'
      /\ moved \subseteq moved'
  BY WrittenRelations
<1>2. o \in Id /\ x # None /\ x.subcategory \in Subcategory \cup {None}
  BY InFlight, CatalogAssumption DEF Row
<1>3. rows'[o] = x /\ \A r \in Id : r # o => rows'[r] = rows[r]
  BY <1>2 DEF TypeInv
<1> HIDE DEF o, y
<1>4. Program \subseteq Id /\ Subcategory \subseteq Id /\ Program \cap Subcategory = {}
  BY CatalogAssumption DEF Id
<1>5. \A p \in Program : rows[p] # None => rows[p].subcategory \in Subcategory \cup {None}
  <2>1. \A p \in Program : rows[p] # None => rows[p] \in Row
    BY <1>4 DEF TypeInv
  <2> QED
    BY <2>1 DEF Row
<1>6. ASSUME NEW p \in Program, rows'[p] # None, rows'[p].subcategory # None
      PROVE  /\ rows'[rows'[p].subcategory] # None
             /\ rows'[p].subcategory \notin moved' /\ rows'[p].category # None
                => rows'[rows'[p].subcategory].category = rows'[p].category
  <2>1. CASE p # o
    <3> DEFINE s == rows[p].subcategory
    <3>1. rows'[p] = rows[p] /\ s # None /\ s \in Id /\ rows[s] # None
      BY <1>3, <1>4, <1>5, <1>6, <2>1 DEF Referred
    <3>2. s \notin moved /\ rows[p].category # None => rows[s].category = rows[p].category
      BY <1>6, <3>1 DEF RelationsAgree
    <3>3. CASE s # o
      <4>1. rows'[s] = rows[s]
        BY <1>3, <3>1, <3>3
      <4> QED
        BY <1>1, <3>1, <3>2, <4>1
    <3>4. CASE s = o
      <4>1. s \in Subcategory
        BY <1>5, <1>6, <3>1
      <4>2. rows'[s] = x /\ y = rows[s]
        BY <1>3, <3>4 DEF y
      <4>3. s \notin moved' => x.category = rows[s].category
        BY <1>1, <3>1, <3>4, <4>1, <4>2
      <4> QED
        BY <1>1, <1>2, <3>1, <3>2, <4>2, <4>3
    <3> QED
      BY <3>3, <3>4
  <2>2. CASE p = o
    <3> DEFINE s == x.subcategory
    <3>1. rows'[p] = x /\ s # None /\ s \in Subcategory /\ s # o
      BY <1>2, <1>3, <1>4, <1>6, <2>2
    <3>2. s \in Id /\ rows'[s] = rows[s]
      BY <1>3, <1>4, <3>1
    <3>3. CASE s = j.subcategory /\ x.category = j.category /\ Agrees(j)
      BY <3>1, <3>2, <3>3 DEF Agrees
    <3>4. CASE y # None /\ s = y.subcategory /\ x.category = y.category
      <4>1. rows[p] = y
        BY <2>2 DEF y
      <4>2. rows[s] # None
        BY <1>6, <3>1, <3>4, <4>1 DEF Referred
      <4>3. s \notin moved /\ x.category # None => rows[s].category = x.category
        BY <3>1, <3>4, <4>1 DEF RelationsAgree
      <4> QED
        BY <1>1, <3>1, <3>2, <4>2, <4>3
    <3> QED
      BY <1>1, <2>2, <3>3, <3>4
  <2> QED
    BY <2>1, <2>2
<1> QED
  BY <1>6 DEF Referred, RelationsAgree

\* The images in use after a write of the only request.
LEMMA WritesInUse ==
  ASSUME TypeInv, NEW w \in Worker, NEW x \in Row, job[w].row \in Id,
         rows' = [rows EXCEPT ![job[w].row] = x]
  PROVE  /\ \A i \in InUse : i \in InUse' \/ (Live(job[w].row) /\ i = rows[job[w].row].image)
         /\ x.live /\ x.image \notin Elsewhere => x.image \in InUse'
<1> DEFINE o == job[w].row
<1>1. rows'[o] = x /\ x # None /\ \A r \in Id : r # o => rows'[r] = rows[r]
  BY CatalogAssumption DEF TypeInv
<1>2. ASSUME NEW i \in InUse
      PROVE  i \in InUse' \/ (Live(o) /\ i = rows[o].image)
  <2>1. PICK r \in Id : Live(r) /\ i = rows[r].image /\ i \notin Elsewhere
    BY <1>2 DEF InUse, Elsewhere
  <2>2. CASE r = o
    BY <2>1, <2>2
  <2>3. CASE r # o
    BY <1>1, <2>1, <2>3 DEF InUse, Live, Elsewhere
  <2> QED
    BY <2>2, <2>3
<1>3. x.live /\ x.image \notin Elsewhere => x.image \in InUse'
  BY <1>1 DEF InUse, Live, Elsewhere
<1> QED
  BY <1>2, <1>3

\* The only request leaves the bucket as tidy as its write says.
LEMMA WritesTidy ==
  ASSUME TypeInv, NEW w \in Worker, pc[w] = "write", NEW x \in Row, Written(w, x),
         Sound("write", job[w]), TidyAt("write", job[w]), mishaps' = {},
         rows' = [rows EXCEPT ![job[w].row] = x]
  PROVE  IF job[w].op = "update" /\ job[w].new # 0 /\ job[w].old # 0
         THEN bucket \subseteq InUse' \cup {job[w].old} ELSE bucket \subseteq InUse'
<1> DEFINE j == job[w]
           o == j.row
           y == rows[o]
<1>1. /\ j \in Job /\ o \in Id /\ JobOK("write", j)
      /\ j.op # "create" => y \in Row /\ y.image \in Nat
  BY InFlight DEF Row
<1>2. /\ \A i \in InUse : i \in InUse' \/ (Live(o) /\ i = y.image)
      /\ x.live /\ x.image \notin Elsewhere => x.image \in InUse'
  BY <1>1, WritesInUse
<1>3. bucket \cap Elsewhere = {} /\ InUse \cap Elsewhere = {} /\ 0 \in Elsewhere
  BY BucketNumbers DEF InUse, Elsewhere
<1>4. j.op # "create" => Live(o) /\ j.old = y.image /\ y.live
  BY DEF Sound, Live
<1>5. bucket \subseteq InUse \cup {j.new}
  BY DEF TidyAt
\* Nothing that is in use is lost but by a file.
<1>6. ASSUME NEW i \in Nat, Tells(w, i)
      PROVE  \/ j.field = "file" /\ ImageAfter(w, i) = j.new /\ j.new \notin Elsewhere
             \/ j.field # "file" /\ j.new = 0 /\ (ImageAfter(w, i) = i \/ i \in Elsewhere)
  <2>1. CASE j.field = "none"
    BY <1>1, <2>1 DEF ImageAfter, JobOK
  <2>2. CASE j.field = "text"
    <3>1. ImageAfter(w, i) = j.url /\ j.new = 0
      BY <1>1, <2>2 DEF ImageAfter, JobOK
    <3>2. j.url # i => i \in Elsewhere
      BY <1>6, <2>2, UploadedIs DEF Tells
    <3> QED
      BY <2>2, <3>1, <3>2
  <2>3. CASE j.field = "file"
    BY <1>1, <2>3 DEF ImageAfter, JobOK, Elsewhere
  <2> QED
    BY <1>1, <2>1, <2>2, <2>3 DEF Job, ImageField
<1>7. CASE j.op = "create"
  <2>1. ~Live(o) /\ x.live /\ x.image = ImageAfter(w, 0) /\ Tells(w, 0)
    BY <1>7 DEF Sound, Live, Written
  <2>2. InUse \subseteq InUse'
    BY <1>2, <2>1
  <2>3. j.new = 0 \/ j.new \in InUse'
    BY <1>2, <1>6, <2>1
  <2> QED
    BY <1>3, <1>5, <1>7, <2>2, <2>3
<1>8. CASE j.op \in {"update", "profile"}
  <2>1. x.image = ImageAfter(w, y.image) /\ Tells(w, y.image) /\ (x.live <=> y.live)
    <3>1. CASE j.op = "update"
      BY <3>1 DEF Written
    <3>2. CASE j.op = "profile"
      BY <1>1, <3>2 DEF Written, Row
    <3> QED
      BY <1>8, <3>1, <3>2
  <2>2. Live(o) /\ j.old = y.image /\ x.live
    BY <1>4, <1>8, <2>1
  <2>3. CASE j.field # "file"
    <3>1. j.new = 0 /\ (x.image = y.image \/ y.image \in Elsewhere)
      BY <1>1, <1>6, <1>8, <2>1, <2>3
    <3>2. InUse \subseteq InUse'
      BY <1>2, <1>3, <2>2, <3>1
    <3> QED
      BY <1>3, <1>5, <3>1, <3>2
  <2>4. CASE j.field = "file"
    <3>1. x.image = j.new /\ j.new \notin Elsewhere
      BY <1>1, <1>6, <1>8, <2>1, <2>4
    <3>2. InUse \cup {j.new} \subseteq InUse' \cup {j.old}
      BY <1>2, <2>2, <3>1
    <3>3. CASE j.op = "update"
      BY <1>3, <1>5, <3>1, <3>2, <3>3
    <3>4. CASE j.op = "profile"
      <4>1. bucket \subseteq (InUse \ {j.old}) \cup {j.new}
        BY <2>4, <3>4 DEF TidyAt
      <4>2. j.new \in InUse'
        BY <1>2, <2>2, <3>1
      <4> QED
        BY <1>2, <2>2, <3>4, <4>1, <4>2
    <3> QED
      BY <1>8, <3>3, <3>4
  <2> QED
    BY <2>3, <2>4
<1>9. CASE j.op = "delete"
  <2>1. j.new = 0 /\ j.field # "text"
    BY <1>1, <1>9 DEF JobOK
  <2>2. bucket \subseteq (InUse \ {j.old}) \cup {j.new}
    BY <1>9, <2>1 DEF TidyAt
  <2> QED
    BY <1>2, <1>3, <1>4, <1>9, <2>1, <2>2
<1> QED
  BY <1>1, <1>7, <1>8, <1>9 DEF Job

LEMMA WritesSerial ==
  ASSUME TypeInv, SerialInv, NEW w \in Worker, Writes(w)
  PROVE  SerialInv'
<1>1. PICK x \in Row, l \in {"idle", "drop"} :
        /\ pc[w] = "write" /\ Goes(w, l, IF l = "idle" THEN None ELSE job[w])
        /\ l = "drop" <=> job[w].op = "update" /\ job[w].new # 0 /\ job[w].old # 0
        /\ rows' = [rows EXCEPT ![job[w].row] = x] /\ Written(w, x)
        /\ mishaps \subseteq mishaps'
        /\ UNCHANGED <<bucket, uploads, overlapped>>
  BY DEF Writes
<1>2. CASE overlapped
  BY <1>1, <1>2 DEF SerialInv
<1>3. CASE ~overlapped
  <2>1. /\ Busy \subseteq {w} /\ Sound("write", job[w]) /\ Referred /\ RelationsAgree
        /\ mishaps = {} => TidyAt("write", job[w])
    BY <1>1, <1>3, OneBefore
  <2>2. Referred' /\ RelationsAgree'
    BY <1>1, <1>3, <2>1, WritesRelations
  <2>3. /\ pc'[w] = l /\ (l = "drop" => job'[w] = job[w])
        /\ w \in Busy' <=> l = "drop"
    BY <1>1, Moves
  <2>4. w \in Busy' => Sound(pc[w], job[w])'
    BY <1>1, <2>3 DEF Sound
  <2>5. mishaps' = {} => TidyAt(pc[w], job[w])'
    BY <1>1, <2>1, <2>3, WritesTidy DEF TidyAt, Early
  <2> QED
    BY <1>1, <2>1, <2>2, <2>4, <2>5, OneStep
<1> QED
  BY <1>2, <1>3

LEMMA InitSerial == Init => SerialInv
<1> SUFFICES ASSUME Init PROVE SerialInv
  OBVIOUS
<1>1. Busy = {} /\ bucket = {}
  BY DEF Init, Busy
<1>2. \A p \in Program : rows[p] # None => rows[p].subcategory = None
  <2>1. \A p \in Program : rows[p] # None => \E c : rows[p] = Bare(c)
    BY DEF Init, Id
  <2>2. \A c : Bare(c).subcategory = None
    BY DEF Bare
  <2> QED
    BY <2>1, <2>2
<1> QED
  BY <1>1, <1>2 DEF SerialInv, Referred, RelationsAgree

LEMMA CrashSerial ==
  ASSUME TypeInv, SerialInv, Crash
  PROVE  SerialInv'
<1>1. /\ pc' = [w \in Worker |-> "idle"] /\ UNCHANGED <<rows, moved, overlapped>> /\ "stop" \in mishaps'
  BY DEF Crash, Keep
<1>2. Busy' = {}
  BY <1>1 DEF Busy
<1>3. ~overlapped => Referred' /\ RelationsAgree'
  BY <1>1, RowsStay DEF SerialInv
<1> QED
  BY <1>1, <1>2, <1>3 DEF SerialInv

LEMMA NextSerial == TypeInv /\ SerialInv /\ [Next]_vars => SerialInv'
<1>1. ASSUME TypeInv, SerialInv, UNCHANGED vars
      PROVE  SerialInv'
  <2>1. /\ rows' = rows /\ bucket' = bucket /\ overlapped' = overlapped /\ mishaps' = mishaps
        /\ moved' = moved /\ pc' = pc /\ job' = job
    BY <1>1 DEF vars, hist
  <2>2. Busy' = Busy /\ InUse' = InUse
    BY <2>1 DEF Busy, InUse, Live
  <2>3. /\ \A w \in Busy : Sound(pc[w], job[w]) => Sound(pc[w], job[w])'
        /\ \A w \in Busy : TidyAt(pc[w], job[w]) => TidyAt(pc[w], job[w])'
    BY <2>1, <2>2 DEF Sound, TidyAt, Keeps, Agrees, Live
  <2>4. ~overlapped => Referred' /\ RelationsAgree'
    BY <1>1, <2>1, RowsStay DEF SerialInv
  <2> QED
    BY <1>1, <2>1, <2>2, <2>3, <2>4 DEF SerialInv
<1>2. ASSUME TypeInv, SerialInv, Next
      PROVE  SerialInv'
  BY <1>2, NextActs, CrashSerial, BeginsSerial, ReadsSerial, EndsSerial, UploadsSerial,
     WritesSerial, RemovesSerial, UndoesSerial DEF Acts
<1> QED
  BY <1>1, <1>2

-----------------------------------------------------------------------------
\* When nobody is being served, every live row has its image in the bucket,
\* however requests have interleaved and wherever the process has stopped, unless
\* S3 rejected a deletion, a write was refused or cut off after the old image was
\* dropped, or a body gave the URL of another row's upload; and requests that do
\* not overlap leave nothing else there, unless something has happened that leaves
\* an image behind.
THEOREM ImagesTheorem == Spec => []ImagesConsistent
<1>1. TypeInv /\ OwnImages /\ SerialInv => ImagesConsistent
  <2> SUFFICES ASSUME TypeInv, OwnImages, SerialInv, Idle
               PROVE  /\ mishaps \cap {"s3", "profile", "delete", "reused"} = {} => InUse \subseteq bucket
                      /\ ~overlapped /\ mishaps = {} => bucket \subseteq InUse
    BY DEF ImagesConsistent
  <2>1. Busy = {}
    BY DEF Busy, Idle
  <2>2. ASSUME mishaps \cap {"s3", "profile", "delete", "reused"} = {}
        PROVE  InUse \subseteq bucket
    <3>1. \A r \in Id : Live(r) => rows[r].image \in bucket \cup Elsewhere
      BY <2>1, <2>2 DEF OwnImages, ImageInv, AllCovered, Covered
    <3> QED
      BY <3>1 DEF InUse, Elsewhere
  <2> QED
    BY <2>1, <2>2 DEF SerialInv
<1>2. Init => TypeInv /\ OwnImages /\ SerialInv
  BY InitType, InitImages, InitSerial DEF OwnImages
<1>3. TypeInv /\ OwnImages /\ SerialInv /\ [Next]_vars => (TypeInv /\ OwnImages /\ SerialInv)'
  BY NextType, NextImages, NextSerial
<1> QED
  BY <1>1, <1>2, <1>3, PTL DEF Spec

\* As long as requests have not overlapped, a program with a category and a
\* subcategory has a subcategory of that category, unless that one was moved.
THEOREM RelationsTheorem == Spec => []RelationsAgree
<1>1. SerialInv => RelationsAgree
  BY DEF SerialInv, RelationsAgree
<1>2. Init => TypeInv /\ SerialInv
  BY InitType, InitSerial
<1>3. TypeInv /\ SerialInv /\ [Next]_vars => (TypeInv /\ SerialInv)'
  BY NextType, NextSerial
<1> QED
  BY <1>1, <1>2, <1>3, PTL DEF Spec
=============================================================================
