------------------------------ MODULE MCDocument ------------------------------
(* Instances of Document for TLC. *)
EXTENDS Document

\* As many characters as the bounds ask for.
MCChar == 1..Spent(MaxEdits)
==============================================================================
