--------------------------- MODULE MCOutreachSend ---------------------------
(***************************************************************************)
(* Instances of OutreachSend for TLC.                                      *)
(***************************************************************************)
EXTENDS OutreachSend, TLC

CONSTANTS autopilot, api, cha0spunk, knox

\* The two mailboxes are interchangeable: no property names one.
Interchangeable == Permutations(Mailboxes)

\* `excused` only grows, and what it excuses holds from then on: the run that
\* checks continuity need not look past it.
Unexcused == excused = {}
=============================================================================
