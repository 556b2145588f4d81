--------------------------- MODULE MCJobScheduler ---------------------------
(* Instances of JobScheduler for TLC. *)
EXTENDS JobScheduler

\* Three threads: a job with an empty slice, then one with a remainder.
TwoFour == <<2, 4>>
\* Two threads: a remainder, and a job too small for all threads.
ThreeOne == <<3, 1>>
=============================================================================
