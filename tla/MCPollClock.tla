---------------------------- MODULE MCPollClock -----------------------------
(***************************************************************************)
(* Instances of PollClock for TLC, with the program's own numbers.         *)
(***************************************************************************)
EXTENDS PollClock

NoHints   == {NoHint}
Hints     == {NoHint, 1, 600, 3600}
ShortHint == {NoHint, 1}
TenMinutes == {600}
=============================================================================
