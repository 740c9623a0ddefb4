------------------------------ MODULE Catalog ------------------------------
(***************************************************************************)
(* The rows that carry an image of their own (categories, subcategories,   *)
(* programs and the profile of a user) and the bucket in S3 that holds the *)
(* images, under the requests of modules category, subcategory, program    *)
(* and user.  A database and a bucket have no common transaction: each     *)
(* service orders its calls, and undoes them, in its own way.              *)
(*                                                                         *)
(* A request is a Worker that makes one database or S3 call per step.  An  *)
(* image is a URL: 0 is none, Outside is one of something that was never   *)
(* uploaded here, and the others are the numbers of the uploads.  A body   *)
(* may give any URL as a text, that of an upload of another row too.       *)
(***************************************************************************)
EXTENDS Naturals, FiniteSets

CONSTANTS
  Category, Subcategory, Program, Profile,  \* ids of rows
  Worker,                                   \* requests in flight at the same time
  MaxRequests,                              \* bound: requests
  None                                      \* no row, no id, no request

VARIABLES
  rows,        \* rows[r]: the row of id r, or None
  bucket,      \* the images in the bucket
  uploads,     \* the last upload
  pc, job,     \* pc[w], job[w]: next call and local state of request w
  requests,
  overlapped,  \* history: some request has started while another was in flight
  mishaps,     \* history: what has happened that may leave an image or a row behind
  moved        \* history: subcategories given another category

hist == <<overlapped, mishaps, moved>>
vars == <<rows, bucket, uploads, pc, job, requests, hist>>

Id == Category \cup Subcategory \cup Program \cup Profile
Row == [live : BOOLEAN, image : Nat, category : Category \cup {None},
        subcategory : Subcategory \cup {None}]

\* What the body says of the image: nothing, a URL as a text, or a file.
ImageField == {"none", "text", "file"}

Outside == 1
Uploaded(i) == i > Outside

\* The URLs a body can give.
URLs(f) == IF f = "text" THEN Outside..uploads ELSE {0}

\* row: the id the request is about, for a creation the one it will have.
\* category, subcategory: the values to be written (kept: FALSE when the columns
\* stay as they are).  url, old, new: the image in the body, the one read and the
\* one uploaded.
Job == [op : {"create", "update", "profile", "delete"}, row : Id, field : ImageField,
        category : Category \cup {None}, subcategory : Subcategory \cup {None},
        given : BOOLEAN, url : Nat, old : Nat, new : Nat]

PC == {"idle", "load", "category", "subcategory", "name", "upload", "write", "drop", "rollback"}

ASSUME CatalogAssumption ==
  /\ MaxRequests \in Nat
  /\ None \notin Row /\ None \notin Job /\ None \notin Id
  /\ Category \cap (Subcategory \cup Program \cup Profile) = {}
  /\ Subcategory \cap (Program \cup Profile) = {}
  /\ Program \cap Profile = {}

Bare(c) == [live |-> TRUE, image |-> 0, category |-> c, subcategory |-> None]

\* Programs without relations are those that skills of users have created.
Init ==
  /\ rows \in [Id -> {None} \cup {Bare(c) : c \in Category \cup {None}}]
  /\ \A r \in Id :
       /\ r \in Profile => rows[r] # None
       /\ rows[r] # None =>
            IF r \in Subcategory THEN rows[r].category # None /\ rows[rows[r].category] # None
            ELSE rows[r].category = None
  /\ bucket = {} /\ uploads = Outside
  /\ pc = [w \in Worker |-> "idle"] /\ job = [w \in Worker |-> None]
  /\ requests = 0 /\ overlapped = FALSE /\ mishaps = {} /\ moved = {}

Live(r) == rows[r] # None /\ rows[r].live

At(w, ops, l) == pc[w] = l /\ job[w].op \in ops
Goto(w, l) == pc' = [pc EXCEPT ![w] = l]
Respond(w) == Goto(w, "idle") /\ job' = [job EXCEPT ![w] = None]
Keep == UNCHANGED <<requests, overlapped>>

\* The old image has been dropped for a write that has still to come.
Torn(w) == At(w, {"profile", "delete"}, "write") /\ job[w].field # "text" /\ Uploaded(job[w].old)

\* The first call of ensureProgramRelations, or the one after it.
RelationStep(c, s) ==
  IF c # None THEN "category" ELSE IF s # None THEN "subcategory" ELSE "name"

-----------------------------------------------------------------------------
(* Requests.                                                               *)

Start(w, op, r, f, c, s, l) ==
  /\ requests' = requests + 1
  /\ overlapped' = (overlapped \/ \E v \in Worker \ {w} : pc[v] # "idle")
  /\ \E u \in URLs(f) :
       job' = [job EXCEPT ![w] = [op |-> op, row |-> r, field |-> f, category |-> c,
                                  subcategory |-> s, given |-> c # None \/ s # None,
                                  url |-> u, old |-> 0, new |-> 0]]
  /\ Goto(w, l)
  /\ UNCHANGED <<rows, bucket, uploads, mishaps, moved>>

CreateStart(w, r, f, c, s) ==
  /\ rows[r] = None /\ \A v \in Worker : job[v] # None => job[v].row # r
  /\ CASE r \in Category -> c = None /\ s = None
       [] r \in Subcategory -> c # None /\ s = None
       [] r \in Program -> c # None \/ s # None
       [] OTHER -> FALSE
  /\ Start(w, "create", r, f, c, s, RelationStep(c, s))

\* Updates that leave the image and the relations alone are left out.
UpdateStart(w, r, f, c, s) ==
  /\ r \notin Profile /\ rows[r] # None
  /\ f # "none" \/ c # None \/ s # None
  /\ r \in Category => c = None
  /\ r \notin Program => s = None
  /\ Start(w, "update", r, f, c, s, "load")

\* updateMyProfile takes a picture only as a file, updateUser as a text too.
ProfileStart(w, r, f) ==
  /\ r \in Profile /\ f # "none"
  /\ Start(w, "profile", r, f, None, None, "load")

DeleteStart(w, r) ==
  /\ r \notin Profile /\ rows[r] # None
  /\ Start(w, "delete", r, "none", None, None, "load")

-----------------------------------------------------------------------------
(* Their calls.                                                            *)

\* Mutated form: a program's update validates only the ids of its body.
EffectiveGiven(given, existing) == given

\* updateProgram: payload.categoryId ?? existing.categoryId
Effective(given, existing) == IF given # None THEN given ELSE existing

\* The row is read.  The category of a subcategory is looked up when it changes;
\* a program must keep a category or a subcategory.
Load(w) ==
  LET r == job[w].row
      x == rows[r]
      c == IF r \in Program THEN Effective(job[w].category, x.category) ELSE job[w].category
      s == IF r \in Program THEN Effective(job[w].subcategory, x.subcategory) ELSE None
  IN
  /\ pc[w] = "load"
  /\ IF ~x.live \/ (job[w].op = "update" /\ r \in Program /\ c = None /\ s = None)
     THEN Respond(w)
     ELSE /\ job' = [job EXCEPT ![w].old = x.image, ![w].category = c, ![w].subcategory = s]
          /\ Goto(w, CASE job[w].op = "delete" -> IF x.image = 0 THEN "write" ELSE "drop"
                       [] job[w].op = "profile" -> "name"
                       [] job[w].op = "update" /\ r \in Subcategory /\ c = x.category -> "name"
                       [] OTHER -> RelationStep(c, s))
  /\ Keep /\ UNCHANGED <<rows, bucket, uploads, mishaps, moved>>

\* The category exists.
Categories(w) ==
  /\ pc[w] = "category"
  /\ IF Live(job[w].category)
     THEN Goto(w, RelationStep(None, job[w].subcategory)) /\ UNCHANGED job
     ELSE Respond(w)
  /\ Keep /\ UNCHANGED <<rows, bucket, uploads, mishaps, moved>>

\* The subcategory exists and belongs to the category; a new program takes the
\* category of its subcategory when it is given none.
Subcategories(w) ==
  LET x == rows[job[w].subcategory]
      c == job[w].category
  IN
  /\ pc[w] = "subcategory"
  /\ IF Live(job[w].subcategory) /\ (c # None => x.category = c)
     THEN /\ job' = [job EXCEPT ![w].category = IF job[w].op = "create" THEN x.category ELSE c]
          /\ Goto(w, "name")
     ELSE Respond(w)
  /\ Keep /\ UNCHANGED <<rows, bucket, uploads, mishaps, moved>>

\* The name (for a profile the email and the username) may be another row's.
Names(w) ==
  /\ pc[w] = "name"
  /\ \/ Goto(w, IF job[w].field = "file" THEN "upload" ELSE "write") /\ UNCHANGED job
     \/ Respond(w)
  /\ Keep /\ UNCHANGED <<rows, bucket, uploads, mishaps, moved>>

\* uploadSingleFileToS3: a fresh key, or a rejection.  A profile then drops its
\* old picture, before its row is written.
Upload(w) ==
  /\ pc[w] = "upload"
  /\ \/ /\ uploads' = uploads + 1
        /\ bucket' = bucket \cup {uploads + 1}
        /\ job' = [job EXCEPT ![w].new = uploads + 1]
        /\ Goto(w, IF job[w].op = "profile" /\ job[w].old # 0 THEN "drop" ELSE "write")
     \/ Respond(w) /\ UNCHANGED <<bucket, uploads>>
  /\ Keep /\ UNCHANGED <<rows, mishaps, moved>>

\* The image a row has after a write.
ImageAfter(w, image) ==
  CASE job[w].field = "none" -> image
    [] job[w].field = "text" -> job[w].url
    [] job[w].field = "file" -> job[w].new

\* What a text does to the row that has the image: the old one stays in the
\* bucket, and an uploaded image of another row becomes the row's too.
TextMishaps(w, image) ==
  {m \in {"text", "reused"} : /\ job[w].field = "text" /\ job[w].url # image
                             /\ Uploaded(IF m = "text" THEN image ELSE job[w].url)}

\* The insert.  The database refuses it when a deleted row has the name; the
\* image is then removed, but for a category: its service returns the promise
\* without awaiting it, and its catch never sees the refusal.
Insert(w) ==
  LET r == job[w].row
  IN
  /\ At(w, {"create"}, "write")
  /\ \/ /\ rows' = [rows EXCEPT ![r] =
                      [live |-> TRUE, image |-> ImageAfter(w, 0), category |-> job[w].category,
                       subcategory |-> job[w].subcategory]]
        /\ Respond(w) /\ mishaps' = mishaps \cup TextMishaps(w, 0)
     \/ /\ UNCHANGED rows
        /\ IF job[w].new = 0 THEN Respond(w) /\ UNCHANGED mishaps
           ELSE IF r \in Category THEN Respond(w) /\ mishaps' = mishaps \cup {"category"}
           ELSE Goto(w, "rollback") /\ UNCHANGED <<job, mishaps>>
  /\ Keep /\ UNCHANGED <<bucket, uploads, moved>>

\* Mutated form: the new image stays when the update is refused.
UpdateRefusedKeeps(w) == Respond(w)

UpdateRefused(w) ==
  IF job[w].new = 0 THEN Respond(w) ELSE Goto(w, "rollback") /\ UNCHANGED job

\* The update by id, of a deleted row too.
Update(w) ==
  LET r == job[w].row
      x == rows[r]
      c == IF job[w].given /\ job[w].category # None THEN job[w].category ELSE x.category
      s == IF job[w].given /\ job[w].subcategory # None THEN job[w].subcategory ELSE x.subcategory
  IN
  /\ At(w, {"update"}, "write")
  /\ \/ /\ rows' = [rows EXCEPT ![r] = [live |-> x.live, image |-> ImageAfter(w, x.image),
                                        category |-> c, subcategory |-> s]]
        /\ IF job[w].new # 0 /\ job[w].old # 0 THEN Goto(w, "drop") /\ UNCHANGED job
           ELSE Respond(w)
        /\ mishaps' = mishaps \cup TextMishaps(w, x.image)
        /\ moved' = IF r \in Subcategory /\ c # x.category THEN moved \cup {r} ELSE moved
     \/ UpdateRefused(w) /\ UNCHANGED <<rows, mishaps, moved>>
  /\ Keep /\ UNCHANGED <<bucket, uploads>>

\* updateMyProfile and updateUser: nothing is undone when the update is refused.
UpdateProfile(w) ==
  LET r == job[w].row
  IN
  /\ At(w, {"profile"}, "write")
  /\ \/ /\ rows' = [rows EXCEPT ![r] = [rows[r] EXCEPT !.image = ImageAfter(w, rows[r].image)]]
        /\ mishaps' = mishaps \cup TextMishaps(w, rows[r].image)
     \/ /\ UNCHANGED rows
        /\ mishaps' = IF job[w].new # 0 THEN mishaps \cup {"profile"} ELSE mishaps
  /\ Respond(w)
  /\ Keep /\ UNCHANGED <<bucket, uploads, moved>>

\* The soft deletion, after the image's.
SoftDelete(w) ==
  /\ At(w, {"delete"}, "write")
  /\ \/ /\ rows' = [rows EXCEPT ![job[w].row] = [rows[job[w].row] EXCEPT !.live = FALSE]]
        /\ UNCHANGED mishaps
     \/ /\ UNCHANGED rows
        /\ mishaps' = IF Torn(w) THEN mishaps \cup {"delete"} ELSE mishaps
  /\ Respond(w)
  /\ Keep /\ UNCHANGED <<bucket, uploads, moved>>

\* deleteFileFromS3 of the old image.  When it rejects: a deletion goes on, an
\* update is rolled back although its row is written, a profile is not updated.
Drop(w) ==
  /\ pc[w] = "drop"
  /\ \/ /\ bucket' = bucket \ {job[w].old}
        /\ IF job[w].op = "update" THEN Respond(w) ELSE Goto(w, "write") /\ UNCHANGED job
        /\ UNCHANGED mishaps
     \/ /\ mishaps' = mishaps \cup {"s3"}
        /\ CASE job[w].op = "delete" -> Goto(w, "write") /\ UNCHANGED job
             [] job[w].op = "update" -> Goto(w, "rollback") /\ UNCHANGED job
             [] job[w].op = "profile" -> Respond(w)
        /\ UNCHANGED bucket
  /\ Keep /\ UNCHANGED <<rows, uploads, moved>>

\* The image of a refused creation or update is removed.
Rollback(w) ==
  /\ pc[w] = "rollback"
  /\ \/ bucket' = bucket \ {job[w].new} /\ UNCHANGED mishaps
     \/ mishaps' = mishaps \cup {"s3"} /\ UNCHANGED bucket
  /\ Respond(w)
  /\ Keep /\ UNCHANGED <<rows, uploads, moved>>

\* The process stops: the requests it was serving are cut off.
Crash ==
  /\ \E w \in Worker : pc[w] # "idle"
  /\ mishaps' = mishaps \cup {"stop"} \cup {job[w].op : w \in {v \in Worker : Torn(v)}}
  /\ pc' = [w \in Worker |-> "idle"] /\ job' = [w \in Worker |-> None]
  /\ Keep /\ UNCHANGED <<rows, bucket, uploads, moved>>

-----------------------------------------------------------------------------
Requests(w) ==
  /\ pc[w] = "idle" /\ requests < MaxRequests
  /\ \E r \in Id :
       \/ \E f \in ImageField, c \in Category \cup {None}, s \in Subcategory \cup {None} :
            CreateStart(w, r, f, c, s) \/ UpdateStart(w, r, f, c, s)
       \/ \E f \in ImageField : ProfileStart(w, r, f)
       \/ DeleteStart(w, r)

Serve(w) ==
  \/ Load(w)
  \/ Categories(w)
  \/ Subcategories(w)
  \/ Names(w)
  \/ Upload(w)
  \/ Insert(w)
  \/ Update(w)
  \/ UpdateProfile(w)
  \/ SoftDelete(w)
  \/ Drop(w)
  \/ Rollback(w)

Next == Crash \/ \E w \in Worker : Requests(w) \/ Serve(w)

Spec == Init /\ [][Next]_vars

-----------------------------------------------------------------------------
Idle == \A w \in Worker : pc[w] = "idle"
InUse == {rows[r].image : r \in {i \in Id : Live(i)}} \ {0, Outside}

\* When nobody is being served, every live row has its image in the bucket,
\* however requests have interleaved and wherever the process has stopped, unless
\* a deletion in S3 was rejected ("s3"), a write was refused or cut off after the
\* old image was dropped ("profile", "delete"), or a body gave the URL of an
\* upload the row did not have ("reused").  And if requests have not overlapped
\* and nothing has happened that leaves an image behind (those, a URL that
\* replaces an image, the refused insert of a category, any stop), nothing else
\* is in the bucket.
ImagesConsistent ==
  Idle => /\ mishaps \cap {"s3", "profile", "delete", "reused"} = {} => InUse \subseteq bucket
          /\ ~overlapped /\ mishaps = {} => bucket \subseteq InUse

\* As long as requests have not overlapped, a program that has a category and a
\* subcategory has a subcategory of that category, whether both were given, one
\* was derived, or they were given by different requests, unless the
\* subcategory itself was moved.
RelationsAgree ==
  ~overlapped =>
    \A p \in Program :
      LET s == rows[p].subcategory
      IN  rows[p] # None /\ s # None /\ s \notin moved /\ rows[p].category # None
            => rows[s].category = rows[p].category

\* What the comments of the services say (category.service.ts:39): the image that
\* was uploaded for a row that could not be created is removed.
NoImageWithoutRow ==
  ~overlapped /\ Idle /\ mishaps \subseteq {"category"} => bucket \subseteq InUse

=============================================================================
