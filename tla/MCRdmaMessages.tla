--------------------------- MODULE MCRdmaMessages ---------------------------
(* Instances of RdmaMessages for TLC. *)
EXTENDS RdmaMessages

\* An odd number of messages: the next job starts with the other pool bit.
OneThenTwo == <<1, 2>>
OneMessage == <<1>>
=============================================================================
