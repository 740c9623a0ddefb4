---------------------------- MODULE MCEventEdit ----------------------------
(* EventEdit with a few instructive PATCH bodies.                          *)
EXTENDS EventEdit, TLC

Body(c, a, up, rep, win, ver) ==
  [content |-> c, active |-> a, cover |-> up, repeat |-> rep, window |-> win, verify |-> ver]

AnyWindow == CHOOSE s \in Window : TRUE

\* A text edit with a cover URL that also sets isActive and ends the repetition, one
\* back again with a new cover, and a new cover with a verification and a schedule
\* change.
MCPatch ==
  { Body("x", TRUE, "url",  "clear",  None, FALSE),
    Body("y", None, "file", "absent", None, FALSE),
    Body(None, None, "file", "absent", AnyWindow, TRUE) }

Symmetry == Permutations(Worker)
=============================================================================
