--------------------------------- MODULE MCProcess ---------------------------------
(* Environments for TLC, on 16 bit durations with a second of 9 units.     *)
EXTENDS Process

Plain == [password |-> TRUE, secret |-> 32, host |-> {}, docker |-> {}, npm |-> {},
          enabled |-> {}, compromise |-> {}]

\* All defaults; the watch disabled with an interval that overflows, and enabled with it; an
\* interval of zero, and one that wraps around to a negative one; no password; a short secret.
SomeEnvironments ==
  {Plain,
   [Plain EXCEPT !.enabled = {"other"}, !.compromise = {3641}],
   [Plain EXCEPT !.compromise = {3641}],
   [Plain EXCEPT !.host = {0}],
   [Plain EXCEPT !.npm = {7000}],
   [Plain EXCEPT !.password = FALSE],
   [Plain EXCEPT !.secret = 31]}
=============================================================================
