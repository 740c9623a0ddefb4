--------------------------- MODULE MCRepeatEvent ---------------------------
(* RepeatEvent over a few dates: one round of names and a bit more.        *)
EXTENDS RepeatEvent, TLC
=============================================================================
