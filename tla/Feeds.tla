------------------------------- MODULE Feeds -------------------------------
(***************************************************************************)
(* The lists of events (the feeds of today, upcoming and past events, the  *)
(* personal feed, the search, the events of a family relation and the      *)
(* plain list), read page by page while events are published, hidden,      *)
(* shown again, rescheduled and deleted and the time goes on.              *)
(*                                                                         *)
(* A page is two queries at the same time, one for the rows and one for    *)
(* their number; the client asks for the next page while meta.hasNext says *)
(* that there is one.  The order is the default one, newest first.         *)
(***************************************************************************)
EXTENDS AgeBands

CONSTANTS
  Event,      \* event ids
  Kind,       \* kinds of events: their schedule, tag and age rows
  Query,      \* what readers ask for
  DayLength,  \* instants of a day
  MaxTime,    \* bound: last instant
  PageSize,   \* limit
  Nothing     \* no schedule, no row, no reader

VARIABLES
  clock,   \* the time
  events,  \* events[e]: the row of e, or Nothing
  reader   \* a client that reads one list from its first page to its last, or Nothing

feedsVars == <<clock, events, reader>>

\* created: the order of publication.
Row == [kind : Kind, created : Nat, status : {"published", "disabled", "deleted"}]

Scope == {"today", "upcoming", "history"}

\* tags stands for what a list is narrowed to: the programs, places and types of
\* the events applied to, or the creators of the relation.
Lists == {"feed", "personal", "search", "relation", "list", "admin"}

\* fallback: the page is read again from the upcoming feed.  got: which of the two
\* queries have answered.  missing is history: the events that the list contained
\* when the client began and that it has not been shown yet.
Reader == [query : Query, page : Nat \ {0}, fallback : BOOLEAN, got : SUBSET {"data", "count"},
           data : SUBSET Event, total : Nat, missing : SUBSET Event]

ASSUME FeedsAssumption ==
  /\ DayLength \in Nat \ {0} /\ MaxTime \in Nat /\ PageSize \in Nat \ {0}
  /\ IsFiniteSet(Event)
  /\ \A k \in Kind : /\ k.schedule = Nothing \/ k.schedule \in [registration : Int, deadline : Int]
                     /\ k.ages \in SUBSET AgeRow /\ IsFiniteSet(k.ages)
  /\ \A q \in Query : q.list \in Lists
  /\ Nothing \notin Row

FeedsInit == clock = 0 /\ events = [e \in Event |-> Nothing] /\ reader = Nothing

-----------------------------------------------------------------------------
(* What a list contains: rows es at time t.                                *)

StartOfDay(t) == t - (t % DayLength)
EndOfDay(t) == StartOfDay(t) + DayLength - 1

\* Mutated form: an event is past as soon as its deadline is.
ScopeWhereByInstant(scope, s, t) ==
  CASE scope = "today" -> s.deadline >= StartOfDay(t) /\ s.registration <= EndOfDay(t)
    [] scope = "upcoming" -> s.registration > EndOfDay(t) /\ s.deadline >= StartOfDay(t)
    [] scope = "history" -> s.deadline < t

\* scheduleScopeWhereInput
ScopeWhere(scope, s, t) ==
  CASE scope = "today" -> s.deadline >= StartOfDay(t) /\ s.registration <= EndOfDay(t)
    [] scope = "upcoming" -> s.registration > EndOfDay(t) /\ s.deadline >= StartOfDay(t)
    [] scope = "history" -> s.deadline < StartOfDay(t)

InScope(scope, x, t) == x.kind.schedule # Nothing /\ ScopeWhere(scope, x.kind.schedule, t)

Published(x) == x # Nothing /\ x.status = "published"

InBand(band, x) ==
  band # 0 => \E r \in x.kind.ages : BandWhere(r, Bands[band].lo, Bands[band].hi)

\* attachFeedCategoryGroups: the label of an event, from its groups.
Label == [k \in Kind |-> InferBand(k.ages)]

FeedList(q, es, t) ==
  {e \in Event : Published(es[e]) /\ InScope(q.scope, es[e], t) /\ InBand(q.band, es[e])}

\* Among the upcoming events those that resemble what the user has applied to.
PersonalList(q, es, t) == {e \in FeedList(q, es, t) : es[e].kind.tag \in q.tags}

SearchList(q, es) == {e \in Event : Published(es[e]) /\ InBand(q.band, es[e])}

RelationList(q, es) == {e \in SearchList(q, es) : es[e].kind.tag \in q.tags}

\* getEvents: an admin sees disabled events too; the scope is optional.
PlainList(q, es, t) ==
  {e \in Event : /\ es[e] # Nothing /\ es[e].status # "deleted"
                 /\ es[e].status = "disabled" => q.list = "admin"
                 /\ q.scope # Nothing => InScope(q.scope, es[e], t)}

Listed(q, es, t) ==
  CASE q.list = "feed" -> FeedList(q, es, t)
    [] q.list = "personal" -> PersonalList(q, es, t)
    [] q.list = "search" -> SearchList(q, es)
    [] q.list = "relation" -> RelationList(q, es)
    [] q.list \in {"list", "admin"} -> PlainList(q, es, t)

\* What the reader is shown: the upcoming feed for a personal one without rows.
Shown(q, es, t) ==
  IF q.list = "personal" /\ PersonalList(q, es, t) = {}
  THEN FeedList(q, es, t) ELSE Listed(q, es, t)

-----------------------------------------------------------------------------
(* Pages.                                                                  *)

\* Mutated form: pages are counted from 0.
SkipFromZero(page) == page * PageSize

Skip(page) == (page - 1) * PageSize

\* How many of S come before e: newest first.
Place(S, es, e) == Cardinality({d \in S : es[d].created > es[e].created})

PageOf(S, es, page) ==
  {e \in S : Skip(page) <= Place(S, es, e) /\ Place(S, es, e) < Skip(page) + PageSize}

HasNext(page, total) == page < (total + PageSize - 1) \div PageSize

\* The rows that the queries of the reader's page select.
Selected ==
  IF reader.fallback THEN FeedList(reader.query, events, clock)
  ELSE Listed(reader.query, events, clock)

\* The events of nobody are not asked for.
Open(q) ==
  /\ reader = Nothing
  /\ q.list = "relation" => q.tags # {}
  /\ reader' = [query |-> q, page |-> 1, fallback |-> FALSE, got |-> {}, data |-> {},
                total |-> 0, missing |-> Shown(q, events, clock)]
  /\ UNCHANGED <<clock, events>>

ReadData ==
  /\ reader # Nothing /\ "data" \notin reader.got
  /\ reader' = [reader EXCEPT !.data = PageOf(Selected, events, reader.page),
                              !.got = @ \cup {"data"}]
  /\ UNCHANGED <<clock, events>>

ReadCount ==
  /\ reader # Nothing /\ "count" \notin reader.got
  /\ reader' = [reader EXCEPT !.total = Cardinality(Selected), !.got = @ \cup {"count"}]
  /\ UNCHANGED <<clock, events>>

Answered == reader # Nothing /\ reader.got = {"data", "count"}
FallsBack == reader.query.list = "personal" /\ ~reader.fallback /\ reader.data = {}
LastPage == Answered /\ ~FallsBack /\ ~HasNext(reader.page, reader.total)

\* Both queries have answered.  An empty page of the personal feed is replaced by
\* the same page of the upcoming one.
EndPage ==
  /\ Answered
  /\ reader' = IF FallsBack THEN [reader EXCEPT !.got = {}, !.total = 0, !.fallback = TRUE]
               ELSE IF LastPage THEN Nothing
               ELSE [reader EXCEPT !.page = @ + 1, !.fallback = FALSE, !.got = {}, !.data = {},
                                   !.total = 0, !.missing = @ \ reader.data]
  /\ UNCHANGED <<clock, events>>

-----------------------------------------------------------------------------
(* What happens to events and time meanwhile.                              *)

\* A client whose list loses an event, or changes between the two queries of a
\* page, may miss events: it is followed no more.
Watch ==
  reader' =
    IF reader = Nothing THEN Nothing
    ELSE LET before == Shown(reader.query, events, clock)
             after == Shown(reader.query, events', clock')
         IN  IF before \subseteq after /\ (reader.got # {} => after = before)
             THEN reader ELSE Nothing

Publish(e, k) ==
  /\ events[e] = Nothing
  /\ LET n == Cardinality({d \in Event : events[d] # Nothing})
     IN  events' = [events EXCEPT ![e] = [kind |-> k, created |-> n + 1, status |-> "published"]]
  /\ UNCHANGED clock /\ Watch

\* setEventDisabled and the soft deletion.
SetStatus(e, status) ==
  /\ events[e] # Nothing /\ events[e].status \notin {"deleted", status}
  /\ events' = [events EXCEPT ![e] = [events[e] EXCEPT !.status = status]]
  /\ UNCHANGED clock /\ Watch

\* A PATCH of the current schedule or the groups.
EditKind(e, k) ==
  /\ events[e] # Nothing /\ events[e].status # "deleted"
  /\ k # events[e].kind /\ k.tag = events[e].kind.tag
  /\ (k.schedule = Nothing) = (events[e].kind.schedule = Nothing)
  /\ events' = [events EXCEPT ![e] = [events[e] EXCEPT !.kind = k]]
  /\ UNCHANGED clock /\ Watch

ClockTick == clock < MaxTime /\ clock' = clock + 1 /\ UNCHANGED events /\ Watch

FeedsNext ==
  \/ \E q \in Query : Open(q)
  \/ ReadData
  \/ ReadCount
  \/ EndPage
  \/ \E e \in Event :
       \/ \E k \in Kind : Publish(e, k) \/ EditKind(e, k)
       \/ \E status \in {"published", "disabled", "deleted"} : SetStatus(e, status)
  \/ ClockTick

FeedsSpec == FeedsInit /\ [][FeedsNext]_feedsVars

-----------------------------------------------------------------------------
FeedsTypeOK ==
  /\ clock \in 0..MaxTime
  /\ events \in [Event -> Row \cup {Nothing}]
  /\ reader \in Reader \cup {Nothing}

\* A client that follows hasNext to the last page has been shown every event that
\* the list contained when it began, provided none of them left the list on the
\* way and the list did not change between the two queries of a page: whatever is
\* published, rescheduled or shown again meanwhile, and also where the personal
\* feed falls back to the upcoming one.
NothingSkipped ==
  [][LastPage /\ EndPage => reader.missing \subseteq reader.data]_feedsVars

\* The scopes of a published event at time t.
ScopesOf(x, t) == {scope \in Scope : InScope(scope, x, t)}
Order(scope) == CASE scope = "upcoming" -> 1 [] scope = "today" -> 2 [] scope = "history" -> 3

\* At any time an event with a schedule is in exactly one of the three feeds, and
\* as time goes on it only moves from upcoming to today and from there to history,
\* on the first instant of a day and whatever its dates are.
ScopesAdvance ==
  [][clock' # clock =>
       \A e \in Event :
         events[e] # Nothing /\ events[e].kind.schedule # Nothing =>
           \E a, b \in Scope : /\ ScopesOf(events[e], clock) = {a}
                                /\ ScopesOf(events[e], clock') = {b}
                                /\ Order(a) <= Order(b)]_feedsVars

LabelSound ==
  [k \in Kind |->
     LET n == [c \in DOMAIN Bands |-> YearsInBand(k.ages, c)]
         b == Label[k]
     IN  /\ b = 0 <=> \A c \in DOMAIN Bands : n[c] = 0
         /\ b # 0 => /\ \E r \in k.ages : BandWhere(r, Bands[b].lo, Bands[b].hi)
                     /\ \A c \in DOMAIN Bands : n[c] <= n[b] /\ (c < b => n[c] < n[b])]

\* The band an event is labelled with is the first of those that share most years
\* with its groups, and the filter for that band finds the event, although the
\* label is computed from merged ranges and the filter from single rows.
LabelFound ==
  \A e \in Event : events[e] # Nothing => LabelSound[events[e].kind]

=============================================================================
