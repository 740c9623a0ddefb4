------------------------------ MODULE MCFeeds ------------------------------
(* Feeds with a few kinds of events and every kind of list.                *)
EXTENDS Feeds, TLC

Sched(r, d) == [registration |-> r, deadline |-> d]
Rows(S) == {[condition |-> x[1], value |-> x[2]] : x \in S}

MCKind ==
  {[schedule |-> Sched(0, 2), tag |-> "a", ages |-> Rows({<<"Lower", 6>>})],
   [schedule |-> Sched(2, 3), tag |-> "a", ages |-> Rows({<<"UpTo", 16>>, <<"LowerAndEqual", 3>>})],
   [schedule |-> Sched(4, 4), tag |-> "b", ages |-> Rows({<<"GreaterAndEqual", 16>>, <<"UpTo", 12>>})],
   [schedule |-> Nothing, tag |-> "b", ages |-> Rows({<<"DownTo", 121>>, <<"Lower", 8>>, <<"Greater", 15>>})]}

Ask(list, scope, tags, band) == [list |-> list, scope |-> scope, tags |-> tags, band |-> band]

MCQuery ==
  {Ask("feed", "today", {}, 0), Ask("list", "upcoming", {}, 0), Ask("feed", "history", {}, 1),
   Ask("personal", "upcoming", {"a"}, 0), Ask("search", Nothing, {}, 1),
   Ask("relation", Nothing, {"b"}, 3),
   Ask("admin", Nothing, {}, 0)}

Symmetry == Permutations(Event)
=============================================================================
