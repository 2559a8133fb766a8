-------------------------------- MODULE Feed --------------------------------
(***************************************************************************)
(* What the hub promises each client of a document: from the version it    *)
(* joins at it is sent every version, in order and none twice, until its   *)
(* connection is given up.  A connection that is given up may still skip   *)
(* versions, never go back, and it ends.                                   *)
(***************************************************************************)
EXTENDS Naturals, Sequences

CONSTANT Followers

VARIABLES published,  \* the newest version sent out
          from,       \* the version each client was to start with
          seen,       \* the versions each client got
          status      \* "away", "following", "doomed" or "ended"

vars == <<published, from, seen, status>>

Init ==
  /\ published = 0
  /\ from   = [s \in Followers |-> 1]
  /\ seen   = [s \in Followers |-> <<>>]
  /\ status = [s \in Followers |-> "away"]

\* The version a client that has missed none is to get next.
NextFor(s) == from[s] + Len(seen[s])

\* One message may be too much for several clients at once.
Drop ==
  \E slow \in SUBSET {s \in Followers : status[s] = "following"} :
    status' = [s \in Followers |-> IF s \in slow THEN "doomed" ELSE status[s]]

\* Whoever is too slow for the new version may be given up with it.
Publish ==
  /\ published' = published + 1 /\ Drop
  /\ UNCHANGED <<from, seen>>

Join(s) ==
  /\ status[s] = "away"
  /\ from' = [from EXCEPT ![s] = published + 1]
  /\ \E new \in {"following", "doomed"} : status' = [status EXCEPT ![s] = new]
  /\ UNCHANGED <<published, seen>>

Deliver(s) ==
  /\ status[s] = "following" /\ NextFor(s) <= published
  /\ seen' = [seen EXCEPT ![s] = Append(@, NextFor(s))]
  /\ UNCHANGED <<published, from, status>>

\* On its way out a client may be sent any later version.
DeliverLate(s) ==
  /\ status[s] = "doomed"
  /\ \E v \in 1..published :
       /\ \A i \in DOMAIN seen[s] : seen[s][i] < v
       /\ seen' = [seen EXCEPT ![s] = Append(@, v)]
  /\ UNCHANGED <<published, from, status>>

\* Clients leave, or are too slow for a message of another kind.
GiveUp == Drop /\ UNCHANGED <<published, from, seen>>

End(s) ==
  /\ status[s] \in {"following", "doomed"}
  /\ status' = [status EXCEPT ![s] = "ended"]
  /\ UNCHANGED <<published, from, seen>>

Next ==
  \/ Publish \/ GiveUp
  \/ \E s \in Followers : Join(s) \/ Deliver(s) \/ DeliverLate(s) \/ End(s)

\* A client that stays gets everything; one that was given up is let go.
Spec == /\ Init /\ [][Next]_vars
        /\ \A s \in Followers :
             /\ WF_vars(Deliver(s))
             /\ WF_vars(status[s] = "doomed" /\ End(s))
==============================================================================
