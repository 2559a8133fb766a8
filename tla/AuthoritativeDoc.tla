--------------------------- MODULE AuthoritativeDoc ---------------------------
(***************************************************************************)
(* What the server promises for each document: edits are accepted one at a *)
(* time, each is sent to the clients before the next is accepted, and the  *)
(* stored text is, now and then, brought up to what was sent.              *)
(***************************************************************************)
EXTENDS Naturals

CONSTANT Documents

VARIABLES accepted,   \* the version of each document
          published,  \* how many of its edits went out to the clients
          stored      \* the edits the stored text reflects

vars == <<accepted, published, stored>>

Init ==
  /\ accepted  = [d \in Documents |-> 0]
  /\ published = [d \in Documents |-> 0]
  /\ stored    = [d \in Documents |-> {}]

Accept(d) ==
  /\ accepted[d] = published[d]
  /\ accepted' = [accepted EXCEPT ![d] = @ + 1]
  /\ UNCHANGED <<published, stored>>

Publish(d) ==
  /\ published[d] < accepted[d]
  /\ published' = [published EXCEPT ![d] = @ + 1]
  /\ UNCHANGED <<accepted, stored>>

\* Never half way through an edit, and never an older text.
Store(d) ==
  /\ accepted[d] = published[d]
  /\ stored[d] # 1..published[d]
  /\ stored' = [stored EXCEPT ![d] = 1..published[d]]
  /\ UNCHANGED <<accepted, published>>

Next == \E d \in Documents : Accept(d) \/ Publish(d) \/ Store(d)

Spec == /\ Init /\ [][Next]_vars
        /\ \A d \in Documents : WF_vars(Publish(d)) /\ SF_vars(Store(d))
==============================================================================
