------------------------------ MODULE HubProofs ------------------------------
(***************************************************************************)
(* Proofs about Hub, for any number of connections, any kinds of messages  *)
(* and queues of any size.                                                 *)
(***************************************************************************)
EXTENDS Hub, SequenceTheorems, TLAPS

\* The records the actions put into handler, reader and writer.
LEMMA RecordTypes ==
  /\ Idle \in ReaderState /\ Idle \in WriterState /\ Selecting \in WriterState
  /\ [Idle EXCEPT !.pc = "read"] \in ReaderState
  /\ [Idle EXCEPT !.pc = "ended"] \in WriterState
  /\ \A r \in ReaderState : /\ [r EXCEPT !.pc = "read"] \in ReaderState
                           /\ [r EXCEPT !.pc = "ended"] \in ReaderState
  /\ \A h \in HandlerState : /\ [h EXCEPT !.pc = "listen"] \in HandlerState
                            /\ [h EXCEPT !.pc = "returned"] \in HandlerState
  /\ \A k \in Kinds, n \in Nat : /\ [pc |-> "publish", kind |-> k, version |-> n] \in ReaderState
                                /\ [pc |-> "write", kind |-> k, version |-> n] \in WriterState
BY KindsAssumption DEF Idle, Selecting, HandlerState, ReaderState, WriterState

\* A writer that returns leaves its queues empty: the types of what it changes.
LEMMA ReturnedTypes ==
  ASSUME TypeOK, NEW s \in Subs, WriterReturns(s)
  PROVE  /\ connected' \in [Subs -> BOOLEAN]
         /\ writer' \in [Subs -> WriterState]
         /\ queue' \in [Subs -> [Kinds -> Seq(Nat)]]
         /\ \A t \in Subs, k \in Kinds : Len(queue'[t][k]) <= QueueSize
<1>1. connected' \in [Subs -> BOOLEAN]
  BY DEF TypeOK, WriterReturns
<1>2. writer' \in [Subs -> WriterState]
  BY RecordTypes DEF TypeOK, WriterReturns
<1>3. /\ queue' \in [Subs -> [Kinds -> Seq(Nat)]]
      /\ \A t \in Subs, k \in Kinds : Len(queue'[t][k]) <= QueueSize
  <2> DEFINE none == [k \in Kinds |-> <<>>]
  <2>1. none \in [Kinds -> Seq(Nat)] /\ \A k \in Kinds : Len(none[k]) = 0
    OBVIOUS
  <2>2. queue' = [queue EXCEPT ![s] = none]
    BY DEF WriterReturns
  <2> HIDE DEF none
  <2> QED
    BY <2>1, <2>2, BoundsAssumption DEF TypeOK
<1> QED
  BY <1>1, <1>2, <1>3

\* Every action leaves the types of the variables alone: lemma TypeStep, one
\* step per action.
LEMMA TypeStep == TypeOK /\ [Next]_vars => TypeOK'
<1> SUFFICES ASSUME TypeOK, [Next]_vars PROVE TypeOK'
  OBVIOUS
<1> USE RecordTypes
<1>1. ASSUME NEW s \in Subs, Subscribe(s) PROVE TypeOK'
  <2>1. /\ entry' \in Nat /\ [pc |-> "add", room |-> entry'] \in HandlerState
    BY <1>1 DEF TypeOK, Subscribe, HandlerState
  <2> QED
    BY <1>1, <2>1 DEF TypeOK, Subscribe
<1>2. ASSUME NEW s \in Subs, AddSubscriber(s) PROVE TypeOK'
  <2>1. handler' \in [Subs -> HandlerState]
    BY <1>2 DEF TypeOK, AddSubscriber
  <2>2. reader' \in [Subs -> ReaderState]
    BY <1>2 DEF TypeOK, AddSubscriber
  <2>3. writer' \in [Subs -> WriterState]
    BY <1>2 DEF TypeOK, AddSubscriber
  <2>4. first' \in [Subs -> Nat]
    <3>1. Fanned + 1 \in Nat
      BY DEF TypeOK, Fanned
    <3> QED
      BY <1>2, <3>1 DEF TypeOK, AddSubscriber
  <2> QED
    BY <1>2, <2>1, <2>2, <2>3, <2>4 DEF TypeOK, AddSubscriber, server
<1>3. ASSUME NEW s \in Subs, ListenReturns(s) PROVE TypeOK'
  <2>1. handler' \in [Subs -> HandlerState]
    BY <1>3 DEF TypeOK, ListenReturns
  <2> QED
    BY <1>3, <2>1 DEF TypeOK, ListenReturns, server, conns
<1>4. ASSUME NEW s \in Subs, HandleChunk(s) PROVE TypeOK'
  <2>1. version' \in Nat /\ mut' \in Subs
    BY <1>4 DEF TypeOK, HandleChunk
  <2>2. reader' \in [Subs -> ReaderState]
    BY <1>4, <2>1, KindsAssumption DEF TypeOK, HandleChunk
  <2> QED
    BY <1>4, <2>1, <2>2 DEF TypeOK, HandleChunk, conns
<1>5. ASSUME NEW s \in Subs, NEW k \in Kinds, HandleOther(s, k) PROVE TypeOK'
  <2>1. reader' \in [Subs -> ReaderState]
    BY <1>5 DEF TypeOK, HandleOther
  <2>2. others' \in Nat
    BY <1>5 DEF TypeOK, HandleOther
  <2> QED
    BY <1>5, <2>1, <2>2 DEF TypeOK, HandleOther, conns
<1>6. ASSUME NEW s \in Subs, Broadcast(s) PROVE TypeOK'
  <2> DEFINE k == reader[s].kind
             to == For(s, k) \ Full(k)
  <2>1. k \in Kinds /\ reader[s].version \in Nat
    BY DEF TypeOK, ReaderState
  <2>2. Send(to, k, reader[s].version)
    BY <1>6 DEF Broadcast
  <2>3. ASSUME NEW t \in Subs
        PROVE  /\ queue'[t] \in [Kinds -> Seq(Nat)]
               /\ \A l \in Kinds : Len(queue'[t][l]) <= QueueSize
    <3>1. queue[t] \in [Kinds -> Seq(Nat)] /\ \A l \in Kinds : Len(queue[t][l]) <= QueueSize
      BY DEF TypeOK
    <3>2. CASE t \in to
      <4>1. Len(queue[t][k]) < QueueSize
        BY <3>2, <3>1, <2>1, BoundsAssumption, LenProperties DEF Full
      <4>2. queue'[t] = [queue[t] EXCEPT ![k] = Append(@, reader[s].version)]
        BY <2>2, <3>2 DEF Send
      <4>3. Append(queue[t][k], reader[s].version) \in Seq(Nat)
             /\ Len(Append(queue[t][k], reader[s].version)) = Len(queue[t][k]) + 1
        BY <3>1, <2>1, AppendProperties
      <4> QED
        BY <4>1, <4>2, <4>3, <3>1, <2>1, BoundsAssumption, LenProperties
    <3>3. CASE t \notin to
      BY <2>2, <3>1, <3>3 DEF Send
    <3> QED
      BY <3>2, <3>3
  <2>4. queue' \in [Subs -> [Kinds -> Seq(Nat)]]
    BY <2>2, <2>3 DEF Send
  <2>5. reader' \in [Subs -> ReaderState]
    BY <1>6 DEF TypeOK, Broadcast, HandlerReturns
  <2>6. closers' \in SUBSET Subs /\ members' \in SUBSET Subs /\ mut' \in Subs \cup {NoSub}
    BY <1>6 DEF TypeOK, Broadcast, HandlerReturns, Slow, Full
  <2> QED
    BY <1>6, <2>3, <2>4, <2>5, <2>6 DEF TypeOK, Broadcast
<1>7. ASSUME NEW s \in Subs, ReaderEnds(s) PROVE TypeOK'
  <2>1. reader' \in [Subs -> ReaderState]
    BY <1>7 DEF TypeOK, ReaderEnds
  <2> QED
    BY <1>7, <2>1 DEF TypeOK, ReaderEnds, Shut, server
<1>8. ASSUME NEW s \in Subs, NEW k \in Kinds, Dequeue(s, k) PROVE TypeOK'
  <2>1. queue[s][k] \in Seq(Nat) /\ queue[s][k] # <<>> /\ Len(queue[s][k]) <= QueueSize
    BY <1>8 DEF TypeOK, Dequeue
  <2>2. /\ Head(queue[s][k]) \in Nat /\ Tail(queue[s][k]) \in Seq(Nat)
        /\ Len(Tail(queue[s][k])) <= QueueSize
    BY <2>1, HeadTailProperties, LenProperties, BoundsAssumption
  <2>3. writer' \in [Subs -> WriterState]
    BY <1>8, <2>2 DEF TypeOK, Dequeue
  <2>4. queue' = [queue EXCEPT ![s] = [queue[s] EXCEPT ![k] = Tail(queue[s][k])]]
    BY <1>8 DEF Dequeue
  <2>5. /\ queue' \in [Subs -> [Kinds -> Seq(Nat)]]
        /\ \A t \in Subs, l \in Kinds : Len(queue'[t][l]) <= QueueSize
    BY <2>2, <2>4 DEF TypeOK
  <2> QED
    BY <1>8, <2>3, <2>5 DEF TypeOK, Dequeue, server
<1>9. ASSUME NEW s \in Subs, WriteMessage(s) PROVE TypeOK'
  <2>1. writer' \in [Subs -> WriterState]
    BY <1>9 DEF TypeOK, WriteMessage
  <2>2. seen' \in [Subs -> Seq(Nat)]
    <3>1. Append(seen[s], writer[s].version) \in Seq(Nat)
      BY DEF TypeOK, WriterState
    <3> QED
      BY <1>9, <3>1 DEF TypeOK, WriteMessage
  <2> QED
    BY <1>9, <2>1, <2>2 DEF TypeOK, WriteMessage, server
<1>10. ASSUME NEW s \in Subs, WriteFails(s) PROVE TypeOK'
  <2>1. CASE WriterReturns(s)
    BY <1>10, <2>1, ReturnedTypes DEF TypeOK, WriteFails, Shut, server
  <2>2. CASE connected[s] /\ writer' = [writer EXCEPT ![s] = Selecting]
             /\ UNCHANGED <<connected, queue>>
    <3>1. writer' \in [Subs -> WriterState]
      BY <2>2 DEF TypeOK
    <3> QED
      BY <1>10, <2>2, <3>1 DEF TypeOK, WriteFails, Shut, server
  <2> QED
    BY <1>10, <2>1, <2>2 DEF WriteFails
<1>11. ASSUME NEW s \in Subs, WriterEnds(s) PROVE TypeOK'
  BY <1>11, ReturnedTypes DEF TypeOK, WriterEnds, Shut, server
<1>12. ASSUME NEW s \in Subs, CloseSlow(s) PROVE TypeOK'
  BY <1>12 DEF TypeOK, CloseSlow, Shut, server
<1>13. ASSUME NEW s \in Subs, Disconnect(s) PROVE TypeOK'
  BY <1>13 DEF TypeOK, Disconnect, Shut, server
<1>14. ASSUME Stop PROVE TypeOK'
  BY <1>14 DEF TypeOK, Stop, conns
<1>15. ASSUME UNCHANGED vars PROVE TypeOK'
  BY <1>15 DEF TypeOK, vars, server, conns
<1> QED
  BY <1>1, <1>2, <1>3, <1>4, <1>5, <1>6, <1>7, <1>8, <1>9, <1>10, <1>11, <1>12,
     <1>13, <1>14, <1>15 DEF Next, Write

\* At the start nobody has a connection.
LEMMA TypeInit == Init => TypeOK
<1> SUFFICES ASSUME Init PROVE TypeOK
  OBVIOUS
<1>1. /\ queue \in [Subs -> [Kinds -> Seq(Nat)]] /\ seen \in [Subs -> Seq(Nat)]
      /\ \A s \in Subs, k \in Kinds : Len(queue[s][k]) <= QueueSize
  BY BoundsAssumption DEF Init
<1>2. handler \in [Subs -> HandlerState]
  BY DEF Init, HandlerState
<1> QED
  BY <1>1, <1>2, RecordTypes DEF Init, TypeOK

\* The variables keep their types, and no queue holds more than its buffer,
\* whoever broadcasts to whom and however slow a writer is.
THEOREM TypeCorrect == Spec => []TypeOK
BY TypeInit, TypeStep, PTL DEF Spec

-------------------------------------------------------------------------------
(***************************************************************************)
(* MissesNothing is not inductive: it rests on who finds whom.             *)
(***************************************************************************)

\* The workspace has one entry for good, the one every connection joins.
OneRoom == \A s \in Subs : handler[s].pc # "none" => entry # 0 /\ handler[s].room = entry

\* A connection joins when it starts to listen and is forgotten when it has ended.
Registered ==
  \A s \in Subs :
    /\ s \in members => handler[s].pc \in {"listen", "returned"}
    /\ handler[s].pc = "listen" /\ connected[s] => s \in members

\* The file's mutex is held by the reader about to broadcast the newest version.
HeldByPublisher ==
  \A s \in Subs : /\ mut = s <=> reader[s].pc = "publish" /\ reader[s].kind = "chunk"
                  /\ mut = s => reader[s].version = version /\ version # 0

\* Before a connection listens it reads, writes and gets nothing.
NothingYet ==
  \A s \in Subs : handler[s].pc \in {"none", "add"} =>
    /\ reader[s].pc = "none" /\ writer[s].pc = "none"
    /\ seen[s] = <<>> /\ queue[s]["chunk"] = <<>>

HubInv == TypeOK /\ OneRoom /\ Registered /\ HeldByPublisher /\ NothingYet /\ MissesNothing

\* The connections find each other: no step breaks OneRoom or Registered.
LEMMA RegistrationStep ==
  ASSUME TypeOK, OneRoom, Registered, [Next]_vars PROVE OneRoom' /\ Registered'
<1>1. ASSUME NEW s \in Subs, Subscribe(s) PROVE OneRoom' /\ Registered'
  <2>1. handler' = [handler EXCEPT ![s] = [pc |-> "add", room |-> entry']] /\ handler[s].pc = "none"
    BY <1>1 DEF Subscribe
  <2>2. handler'[s].pc = "add" /\ handler'[s].room = entry'
        /\ \A t \in Subs \ {s} : handler'[t] = handler[t]
    BY <2>1 DEF TypeOK
  <2>3. entry' # 0 /\ (entry # 0 => entry' = entry)
    BY <1>1 DEF Subscribe
  <2>4. OneRoom'
    BY <2>2, <2>3 DEF OneRoom
  <2>5. members' = members /\ \A t \in Subs \ {s} : connected'[t] = connected[t]
    BY <1>1 DEF TypeOK, Subscribe
  <2>6. Registered'
    BY <2>1, <2>2, <2>5 DEF Registered
  <2> QED
    BY <2>4, <2>6
<1>2. ASSUME NEW s \in Subs, AddSubscriber(s) PROVE OneRoom' /\ Registered'
  BY <1>2 DEF TypeOK, HandlerState, OneRoom, Registered, AddSubscriber, server
<1>3. ASSUME NEW s \in Subs, ListenReturns(s) PROVE OneRoom' /\ Registered'
  BY <1>3 DEF TypeOK, HandlerState, OneRoom, Registered, ListenReturns, server, conns
<1>4. ASSUME NEW s \in Subs, HandleChunk(s) PROVE OneRoom' /\ Registered'
  BY <1>4 DEF OneRoom, Registered, HandleChunk, conns
<1>5. ASSUME NEW s \in Subs, NEW k \in Kinds, HandleOther(s, k) PROVE OneRoom' /\ Registered'
  BY <1>5 DEF OneRoom, Registered, HandleOther, conns
<1>6. ASSUME NEW s \in Subs, Broadcast(s) PROVE OneRoom' /\ Registered'
  BY <1>6 DEF OneRoom, Registered, Broadcast
<1>7. ASSUME NEW s \in Subs, ReaderEnds(s) PROVE OneRoom' /\ Registered'
  BY <1>7 DEF TypeOK, OneRoom, Registered, ReaderEnds, server
<1>8. ASSUME NEW s \in Subs, Write(s) PROVE OneRoom' /\ Registered'
  BY <1>8 DEF TypeOK, OneRoom, Registered, Write, Dequeue, WriteMessage, WriteFails,
              WriterReturns, server
<1>9. ASSUME NEW s \in Subs, WriterEnds(s) \/ CloseSlow(s) \/ Disconnect(s)
      PROVE OneRoom' /\ Registered'
  BY <1>9 DEF TypeOK, OneRoom, Registered, WriterEnds, WriterReturns, CloseSlow, Disconnect, server
<1>10. ASSUME Stop \/ UNCHANGED vars PROVE OneRoom' /\ Registered'
  BY <1>10 DEF OneRoom, Registered, Stop, vars, server, conns
<1> QED
  BY <1>1, <1>2, <1>3, <1>4, <1>5, <1>6, <1>7, <1>8, <1>9, <1>10 DEF Next

\* Whoever holds the file's mutex is about to broadcast the newest version.
LEMMA MutexStep ==
  ASSUME TypeOK, HeldByPublisher, NothingYet, [Next]_vars PROVE HeldByPublisher'
<1>1. ASSUME NEW s \in Subs, AddSubscriber(s) \/ ReaderEnds(s) PROVE HeldByPublisher'
  <2>1. reader[s].pc # "publish"
    BY <1>1 DEF AddSubscriber, ReaderEnds, NothingYet
  <2>2. /\ mut' = mut /\ version' = version
        /\ \E c \in {"read", "ended"} : reader' = [reader EXCEPT ![s].pc = c]
    BY <1>1 DEF AddSubscriber, ReaderEnds, server
  <2>3. reader'[s].pc # "publish" /\ \A t \in Subs \ {s} : reader'[t] = reader[t]
    BY <2>2 DEF TypeOK, ReaderState
  <2> QED
    BY <2>1, <2>2, <2>3 DEF HeldByPublisher
<1>2. ASSUME NEW s \in Subs, HandleChunk(s) PROVE HeldByPublisher'
  BY <1>2, SubsAssumption DEF TypeOK, HeldByPublisher, HandleChunk, Receiving
<1>3. ASSUME NEW s \in Subs, NEW k \in Kinds, HandleOther(s, k) PROVE HeldByPublisher'
  BY <1>3 DEF TypeOK, HeldByPublisher, HandleOther, Receiving
<1>4. ASSUME NEW s \in Subs, Broadcast(s) PROVE HeldByPublisher'
  BY <1>4, SubsAssumption DEF TypeOK, HeldByPublisher, Broadcast, HandlerReturns, Idle
<1>5. ASSUME NEW s \in Subs, \/ Subscribe(s) \/ ListenReturns(s) \/ Write(s) \/ WriterEnds(s)
                             \/ CloseSlow(s) \/ Disconnect(s)
      PROVE  HeldByPublisher'
  BY <1>5 DEF HeldByPublisher, Subscribe, ListenReturns, Write, Dequeue, WriteMessage,
              WriteFails, WriterEnds, CloseSlow, Disconnect, server, conns
<1>6. ASSUME Stop \/ UNCHANGED vars PROVE HeldByPublisher'
  BY <1>6 DEF HeldByPublisher, Stop, vars, server, conns
<1> QED
  BY <1>1, <1>2, <1>3, <1>4, <1>5, <1>6 DEF Next

\* Nothing is read, queued or sent for a connection that does not listen yet.
LEMMA NothingYetStep ==
  ASSUME TypeOK, Registered, NothingYet, [Next]_vars PROVE NothingYet'
<1> DEFINE Same(t) == /\ reader'[t] = reader[t] /\ writer'[t] = writer[t]
                      /\ seen'[t] = seen[t] /\ queue'[t]["chunk"] = queue[t]["chunk"]
                      /\ handler[t].pc \in {"none", "add"}
<1> SUFFICES ASSUME NEW t \in Subs, handler'[t].pc \in {"none", "add"}
             PROVE  Same(t)
  BY DEF NothingYet
<1>1. ASSUME NEW s \in Subs, Subscribe(s) PROVE Same(t)
  BY <1>1 DEF TypeOK, Subscribe
<1>2. ASSUME NEW s \in Subs, AddSubscriber(s) \/ ListenReturns(s) PROVE Same(t)
  <2>1. \E c \in {"listen", "returned"} : handler' = [handler EXCEPT ![s].pc = c]
    BY <1>2 DEF AddSubscriber, ListenReturns
  <2>2. handler'[s].pc \in {"listen", "returned"} /\ \A u \in Subs \ {s} : handler'[u] = handler[u]
    BY <2>1 DEF TypeOK, HandlerState
  <2>3. s # t
    BY <2>2
  <2> QED
    BY <1>2, <2>2, <2>3 DEF TypeOK, AddSubscriber, ListenReturns, conns
<1> DEFINE Away == handler[t].pc \in {"none", "add"} /\ reader[t].pc = "none"
                   /\ writer[t].pc = "none" /\ t \notin members
<1>3. handler' = handler => Away
  BY DEF NothingYet, Registered
<1>4. ASSUME NEW s \in Subs, \/ HandleChunk(s) \/ (\E k \in Kinds : HandleOther(s, k))
                             \/ ReaderEnds(s)
      PROVE  Same(t)
  BY <1>3, <1>4 DEF TypeOK, HandleChunk, HandleOther, Receiving, ReaderEnds, conns
<1>5. ASSUME NEW s \in Subs, Broadcast(s) PROVE Same(t)
  BY <1>3, <1>5 DEF TypeOK, Broadcast, HandlerReturns, Send, For, InRoom
<1>6. ASSUME NEW s \in Subs, Write(s) \/ WriterEnds(s) PROVE Same(t)
  <2>1. handler' = handler /\ reader' = reader /\ writer[s].pc # "none"
    BY <1>6 DEF Write, Dequeue, WriteMessage, WriteFails, WriterEnds
  <2>2. t # s
    BY <2>1, <1>3
  <2> QED
    BY <1>3, <1>6, <2>1, <2>2 DEF TypeOK, Write, Dequeue, WriteMessage, WriteFails,
                                  WriterEnds, WriterReturns
<1>7. ASSUME NEW s \in Subs, CloseSlow(s) \/ Disconnect(s) PROVE Same(t)
  BY <1>7 DEF CloseSlow, Disconnect
<1>8. ASSUME Stop \/ UNCHANGED vars PROVE Same(t)
  BY <1>8 DEF Stop, vars, conns
<1> QED
  BY <1>1, <1>2, <1>4, <1>5, <1>6, <1>7, <1>8 DEF Next

\* What Gapless(t, last) and NothingMissed(t) speak of.
LEMMA GaplessFrame ==
  ASSUME NEW t \in Subs, NEW last, Gapless(t, last), first'[t] = first[t],
         seen'[t] = seen[t], writer'[t] = writer[t], queue'[t]["chunk"] = queue[t]["chunk"]
  PROVE  Gapless(t, last)'
BY DEF Gapless, InHand

LEMMA MissedFrame ==
  ASSUME NEW t \in Subs, NothingMissed(t), Fanned' = Fanned, first'[t] = first[t],
         seen'[t] = seen[t], writer'[t] = writer[t], queue'[t]["chunk"] = queue[t]["chunk"]
  PROVE  NothingMissed(t)'
BY DEF NothingMissed, Gapless, InHand

\* A chunk that is accepted is no version to be sent yet.
LEMMA AcceptedNotFanned ==
  ASSUME TypeOK, NEW s \in Subs, HandleChunk(s) PROVE Fanned' = Fanned
BY SubsAssumption DEF TypeOK, HandleChunk, Fanned

\* Whoever follows and is sent a broadcast version has it last in its queue.
LEMMA BroadcastMissesNothing ==
  ASSUME HubInv, NEW s \in Subs, Broadcast(s), NEW t \in Subs, Following(t)'
  PROVE  Following(t) /\ NothingMissed(t)'
<1> DEFINE k == reader[s].kind
           m == reader[s].version
           waiting == queue[t]["chunk"]
<1>1. /\ handler[t].pc = "listen" /\ connected[t] /\ link[t] = "open" /\ t \notin closers
      /\ t \notin Slow(s, k)
  BY DEF Broadcast, Following
<1>2. Following(t) /\ NothingMissed(t)
  BY <1>1 DEF Following, HubInv, MissesNothing
<1>3. t \in InRoom
  BY <1>1 DEF HubInv, Registered, OneRoom, InRoom
<1>4. /\ first'[t] = first[t] /\ seen'[t] = seen[t] /\ writer'[t] = writer[t]
      /\ version' = version
  BY DEF Broadcast
<1>5. CASE k = "chunk"
  <2>1. mut = s /\ m = version /\ version # 0
    BY <1>5 DEF HubInv, HeldByPublisher, Broadcast
  <2>2. mut' = NoSub
    BY <2>1 DEF Broadcast, HandlerReturns
  <2>3. version \in Nat /\ mut # NoSub
    BY <2>1, SubsAssumption DEF HubInv, TypeOK
  <2>4. Fanned' = Fanned + 1 /\ m = Fanned + 1
    BY <2>1, <2>2, <2>3, <1>4 DEF Fanned
  <2>5. t \in For(s, k) \ Full(k)
    BY <1>1, <1>3, <1>5 DEF For, Slow
  <2>6. waiting \in Seq(Nat) /\ queue'[t]["chunk"] = Append(waiting, m)
    BY <2>5, <1>5, KindsAssumption DEF Broadcast, Send, HubInv, TypeOK
  <2>7. /\ first[t] \in Nat /\ Len(seen[t]) \in Nat /\ InHand(t) \in Nat
        /\ Len(waiting) \in Nat /\ Fanned \in Nat
    BY <2>1, <2>3, <2>6, LenProperties DEF HubInv, TypeOK, InHand, Fanned
  <2>8. /\ Len(Append(waiting, m)) = Len(waiting) + 1
        /\ \A i \in 1..Len(waiting) : Append(waiting, m)[i] = waiting[i]
        /\ Append(waiting, m)[Len(waiting) + 1] = m
        /\ DOMAIN waiting = 1..Len(waiting)
        /\ DOMAIN Append(waiting, m) = 1..(Len(waiting) + 1)
    BY <2>6, <2>3, <2>1, AppendProperties, LenProperties
  <2>9. InHand(t)' = InHand(t)
    BY <1>4 DEF InHand
  <2> DEFINE next == first[t] + Len(seen[t])
  <2>10. next + InHand(t) + Len(waiting) = Fanned + 1
    BY <1>2 DEF NothingMissed, Gapless
  <2>11. \A i \in 1..(Len(waiting) + 1) : Append(waiting, m)[i] = next + InHand(t) + i - 1
    <3> SUFFICES ASSUME NEW i \in 1..(Len(waiting) + 1)
                 PROVE  Append(waiting, m)[i] = next + InHand(t) + i - 1
      OBVIOUS
    <3>1. CASE i \in 1..Len(waiting)
      BY <3>1, <2>8, <1>2 DEF NothingMissed, Gapless
    <3>2. CASE i = Len(waiting) + 1
      <4>1. Append(waiting, m)[i] = Fanned + 1
        BY <3>2, <2>8, <2>4
      <4>2. next \in Nat /\ InHand(t) \in Nat /\ Len(waiting) \in Nat /\ Fanned \in Nat
        BY <2>7
      <4> HIDE DEF waiting, m, next
      <4>3. next + InHand(t) + i - 1 = Fanned + 1
        BY <4>2, <3>2, <2>10
      <4> QED
        BY <4>1, <4>3, Zenon
    <3>3. i \in 1..Len(waiting) \/ i = Len(waiting) + 1
      <4>1. Len(waiting) \in Nat
        BY <2>7
      <4> HIDE DEF waiting, m, next
      <4> QED
        BY <4>1
    <3> QED
      BY <3>1, <3>2, <3>3, Zenon
  <2>12. next + InHand(t) + (Len(waiting) + 1) = (Fanned + 1) + 1
    <3>1. next \in Nat
      BY <2>7
    <3> HIDE DEF next, waiting
    <3> QED
      BY <3>1, <2>7, <2>10
  <2>13. /\ \A i \in DOMAIN seen[t] : seen[t][i] = first[t] + i - 1
         /\ InHand(t) = 1 => writer[t].version = next
    BY <1>2 DEF NothingMissed, Gapless
  <2> QED
    BY <1>2, <1>4, <2>4, <2>6, <2>8, <2>9, <2>11, <2>12, <2>13 DEF NothingMissed, Gapless
<1>6. CASE k # "chunk"
  <2>1. mut # s
    BY <1>6 DEF HubInv, HeldByPublisher
  <2>2. Fanned' = Fanned
    BY <2>1, <1>4 DEF Broadcast, HandlerReturns, Fanned
  <2>3. queue'[t]["chunk"] = queue[t]["chunk"]
    BY <1>6, KindsAssumption DEF Broadcast, Send, HubInv, TypeOK
  <2> QED
    BY <1>2, <1>4, <2>2, <2>3, MissedFrame
<1> QED
  BY <1>5, <1>6

\* A message the writer takes or has sent is the next one its client is to get.
LEMMA WriteGapless ==
  ASSUME TypeOK, NEW s \in Subs, NEW t \in Subs, NEW last \in Int, Gapless(t, last),
         (\E k \in Kinds : Dequeue(s, k)) \/ WriteMessage(s)
  PROVE  Gapless(t, last)'
<1>1. ASSUME NEW k \in Kinds, Dequeue(s, k) PROVE Gapless(t, last)'
  <2>1. UNCHANGED <<mut, version, first, seen>>
    BY <1>1 DEF Dequeue, server
  <2>2. CASE t # s \/ k # "chunk"
    <3>1. queue'[t]["chunk"] = queue[t]["chunk"] /\ InHand(t)' = InHand(t)
          /\ (InHand(t)' = 1 => writer'[t] = writer[t])
      BY <1>1, <2>2 DEF Dequeue, InHand, TypeOK
    <3> QED
      BY <2>1, <3>1 DEF Gapless
  <2>3. CASE t = s /\ k = "chunk"
    <3> DEFINE waiting == queue[t]["chunk"]
               next == first[t] + Len(seen[t])
    <3>1. waiting \in Seq(Nat) /\ waiting # <<>> /\ next \in Nat
      BY <1>1, <2>3, LenProperties DEF Dequeue, TypeOK
    <3>2. queue'[t]["chunk"] = Tail(waiting) /\ InHand(t) = 0 /\ InHand(t)' = 1
          /\ writer'[t].version = Head(waiting)
      BY <1>1, <2>3 DEF Dequeue, TypeOK, InHand
    <3>3. /\ \A i \in 1..Len(waiting) : waiting[i] = next + i - 1
          /\ next + Len(waiting) = last + 1
      <4> HIDE DEF next
      <4>1. DOMAIN waiting = 1..Len(waiting) /\ Len(waiting) \in Nat
        BY <3>1, LenProperties
      <4>2. /\ \A i \in DOMAIN waiting : waiting[i] = next + 0 + i - 1
            /\ next + 0 + Len(waiting) = last + 1
        BY <3>2 DEF Gapless, next
      <4>3. next \in Int
        BY <3>1
      <4> HIDE DEF waiting
      <4>4. next + Len(waiting) = last + 1
        BY <4>1, <4>2, <4>3
      <4>5. ASSUME NEW i \in 1..Len(waiting) PROVE waiting[i] = next + i - 1
        <5>1. waiting[i] = next + 0 + i - 1
          BY <4>1, <4>2, <4>5, Zenon
        <5>2. i \in Int
          BY <4>1, <4>5
        <5> HIDE DEF next
        <5> QED BY <4>3, <5>1, <5>2
      <4> QED BY <4>4, <4>5
    <3>4. /\ Head(waiting) = waiting[1] /\ Len(Tail(waiting)) = Len(waiting) - 1
          /\ DOMAIN Tail(waiting) = 1..(Len(waiting) - 1) /\ Len(waiting) \in Nat \ {0}
          /\ \A i \in 1..(Len(waiting) - 1) : Tail(waiting)[i] = waiting[i + 1]
      BY <3>1, HeadTailProperties, LenProperties, EmptySeq
    <3> HIDE DEF next, waiting
    <3>5. /\ Head(waiting) = next
          /\ \A i \in DOMAIN Tail(waiting) : Tail(waiting)[i] = next + 1 + i - 1
          /\ next + 1 + Len(Tail(waiting)) = last + 1
      <4>1. Head(waiting) = next
        <5>1. 1 \in 1..Len(waiting)
          BY <3>4
        <5> QED
          BY <5>1, <3>1, <3>3, <3>4
      <4>2. ASSUME NEW i \in DOMAIN Tail(waiting) PROVE Tail(waiting)[i] = next + 1 + i - 1
        <5>1. i \in 1..(Len(waiting) - 1) /\ i + 1 \in 1..Len(waiting) /\ i \in Nat
          BY <4>2, <3>4
        <5>2. Tail(waiting)[i] = next + (i + 1) - 1
          BY <5>1, <3>3, <3>4
        <5> QED
          BY <5>1, <5>2, <3>1
      <4>3. next + 1 + Len(Tail(waiting)) = last + 1
        BY <3>1, <3>3, <3>4
      <4> QED
        BY <4>1, <4>2, <4>3
    <3>6. \A i \in DOMAIN seen[t] : seen[t][i] = first[t] + i - 1
      BY <2>1 DEF Gapless
    <3> QED
      BY <2>1, <3>2, <3>5, <3>6 DEF Gapless, next
  <2> QED
    BY <2>2, <2>3
<1>2. CASE WriteMessage(s)
  <2>1. UNCHANGED <<mut, version, first, queue>>
    BY <1>2 DEF WriteMessage, server
  <2>2. CASE t # s \/ writer[s].kind # "chunk"
    <3>1. seen'[t] = seen[t] /\ InHand(t)' = InHand(t)
          /\ (InHand(t)' = 1 => writer'[t] = writer[t])
      BY <1>2, <2>2 DEF WriteMessage, Selecting, Idle, InHand, TypeOK
    <3> QED
      BY <2>1, <3>1 DEF Gapless
  <2>3. CASE t = s /\ writer[s].kind = "chunk"
    <3> DEFINE waiting == queue[t]["chunk"]
               v == writer[t].version
               next == first[t] + Len(seen[t])
    <3>1. InHand(t) = 1 /\ InHand(t)' = 0 /\ seen'[t] = Append(seen[t], v)
      BY <1>2, <2>3 DEF WriteMessage, Selecting, Idle, InHand, TypeOK
    <3>2. /\ seen[t] \in Seq(Nat) /\ v \in Nat /\ first[t] \in Nat
          /\ waiting \in Seq(Nat)
      BY KindsAssumption DEF TypeOK, WriterState
    <3>3. /\ Len(seen'[t]) = Len(seen[t]) + 1 /\ DOMAIN seen'[t] = 1..(Len(seen[t]) + 1)
          /\ \A i \in 1..Len(seen[t]) : seen'[t][i] = seen[t][i]
          /\ seen'[t][Len(seen[t]) + 1] = v
          /\ Len(seen[t]) \in Nat /\ DOMAIN seen[t] = 1..Len(seen[t])
      BY <3>1, <3>2, AppendProperties, LenProperties
    <3>4. /\ v = next
          /\ \A i \in DOMAIN seen[t] : seen[t][i] = first[t] + i - 1
          /\ \A i \in DOMAIN waiting : waiting[i] = next + 1 + i - 1
          /\ next + 1 + Len(waiting) = last + 1
      BY <3>1 DEF Gapless
    <3>5. \A i \in DOMAIN seen'[t] : seen'[t][i] = first[t] + i - 1
      <4> SUFFICES ASSUME NEW i \in 1..(Len(seen[t]) + 1)
                   PROVE  seen'[t][i] = first[t] + i - 1
        BY <3>3
      <4>1. CASE i \in 1..Len(seen[t])
        BY <4>1, <3>3, <3>4
      <4>2. CASE i = Len(seen[t]) + 1
        <5>1. seen'[t][i] = first[t] + Len(seen[t])
          BY <4>2, <3>3, <3>4
        <5> QED
          BY <5>1, <4>2, <3>2, <3>3
      <4> QED
        BY <4>1, <4>2, <3>3
    <3>6. /\ \A i \in DOMAIN waiting : waiting[i] = first[t] + Len(seen'[t]) + 0 + i - 1
          /\ first[t] + Len(seen'[t]) + 0 + Len(waiting) = last + 1
      <4>1. Len(waiting) \in Nat /\ DOMAIN waiting = 1..Len(waiting)
        BY <3>2, LenProperties
      <4> DEFINE after == first[t] + Len(seen'[t]) + 0
      <4>2. next \in Int /\ after = next + 1
        <5>1. /\ first[t] \in Nat /\ Len(seen[t]) \in Nat
              /\ Len(seen'[t]) = Len(seen[t]) + 1
          BY <3>2, <3>3
        <5> QED
          BY <5>1
      <4> HIDE DEF waiting, next, after
      <4>3. /\ \A i \in DOMAIN waiting : waiting[i] = after + i - 1
            /\ after + Len(waiting) = last + 1
        BY <3>4, <4>1, <4>2
      <4> QED
        BY <4>3 DEF after
    <3> QED
      BY <2>1, <3>1, <3>5, <3>6 DEF Gapless
  <2> QED
    BY <2>2, <2>3
<1> QED
  BY <1>1, <1>2

LEMMA WriteMissesNothing ==
  ASSUME HubInv, NEW s \in Subs, NEW t \in Subs, Following(t)', Write(s)
  PROVE  Following(t) /\ NothingMissed(t)'
<1>1. CASE (\E k \in Kinds : Dequeue(s, k)) \/ WriteMessage(s)
  <2>1. Following(t) /\ NothingMissed(t)
    BY <1>1 DEF Dequeue, WriteMessage, Following, HubInv, MissesNothing
  <2>2. PICK last \in Int : last = Fanned /\ Gapless(t, last)
    BY <2>1 DEF NothingMissed, HubInv, TypeOK, Fanned
  <2>3. Fanned' = last
    BY <1>1, <2>2 DEF Dequeue, WriteMessage, server, Fanned
  <2>4. Gapless(t, last)'
    BY <1>1, <2>2, WriteGapless DEF HubInv
  <2> QED
    BY <2>1, <2>3, <2>4 DEF NothingMissed, Gapless
<1>2. CASE WriteFails(s)
  <2>1. Following(t) /\ t # s
    BY <1>2 DEF WriteFails, WriterReturns, Shut, Following, HubInv, TypeOK
  <2>2. NothingMissed(t)
    BY <2>1 DEF HubInv, MissesNothing
  <2>3. Fanned' = Fanned
    BY <1>2 DEF WriteFails, server, Fanned
  <2> QED
    BY <1>2, <2>1, <2>2, <2>3, MissedFrame DEF WriteFails, WriterReturns, HubInv, TypeOK
<1> QED
  BY <1>1, <1>2 DEF Write

\* No step takes a version from a client that is still followed.
LEMMA MissesNothingStep ==
  ASSUME HubInv, [Next]_vars PROVE MissesNothing'
<1> SUFFICES ASSUME NEW t \in Subs, Following(t)' PROVE NothingMissed(t)'
  BY DEF MissesNothing
<1>1. Following(t) => NothingMissed(t)
  BY DEF HubInv, MissesNothing
<1>2. ASSUME NEW s \in Subs, Subscribe(s) PROVE NothingMissed(t)'
  <2>1. Following(t)
    BY <1>2 DEF Subscribe, Following, HubInv, TypeOK
  <2>2. Fanned' = Fanned
    BY <1>2 DEF Subscribe, Fanned
  <2> QED
    BY <1>1, <1>2, <2>1, <2>2, MissedFrame DEF Subscribe
<1>3. ASSUME NEW s \in Subs, AddSubscriber(s) PROVE NothingMissed(t)'
  <2>1. Fanned' = Fanned /\ seen' = seen /\ queue' = queue
    BY <1>3 DEF AddSubscriber, server, Fanned
  <2>2. CASE t = s
    <3>1. /\ seen'[t] = <<>> /\ queue'[t]["chunk"] = <<>>
      BY <1>3, <2>1, <2>2 DEF AddSubscriber, HubInv, NothingYet
    <3>2. first'[t] = Fanned + 1 /\ writer'[t].pc = "select"
      BY <1>3, <2>2 DEF AddSubscriber, HubInv, TypeOK, Selecting, Idle
    <3>3. InHand(t)' = 0
      BY <3>2 DEF InHand
    <3>4. Fanned \in Int
      BY DEF HubInv, TypeOK, Fanned
    <3> QED
      BY <2>1, <3>1, <3>2, <3>3, <3>4, EmptySeq DEF NothingMissed, Gapless
  <2>3. CASE t # s
    <3>1. first'[t] = first[t] /\ writer'[t] = writer[t] /\ Following(t)
      BY <1>3, <2>3 DEF AddSubscriber, HubInv, TypeOK, Following
    <3> QED
      BY <1>1, <2>1, <3>1, MissedFrame
  <2> QED
    BY <2>2, <2>3
<1>4. ASSUME NEW s \in Subs, ListenReturns(s) PROVE NothingMissed(t)'
  <2>1. Following(t) /\ Fanned' = Fanned
    BY <1>4 DEF ListenReturns, Following, HubInv, TypeOK, HandlerState, conns, server, Fanned
  <2> QED
    BY <1>1, <1>4, <2>1, MissedFrame DEF ListenReturns, conns
<1>5. ASSUME NEW s \in Subs, HandleChunk(s) PROVE NothingMissed(t)'
  <2>1. Following(t) /\ Fanned' = Fanned
    BY <1>5, AcceptedNotFanned DEF HandleChunk, Following, conns, HubInv
  <2> QED
    BY <1>1, <1>5, <2>1, MissedFrame DEF HandleChunk, conns
<1>6. ASSUME NEW s \in Subs, NEW k \in Kinds, HandleOther(s, k) PROVE NothingMissed(t)'
  <2>1. Following(t) /\ Fanned' = Fanned
    BY <1>6 DEF HandleOther, Following, conns, Fanned
  <2> QED
    BY <1>1, <1>6, <2>1, MissedFrame DEF HandleOther, conns
<1>7. ASSUME NEW s \in Subs, Broadcast(s) PROVE NothingMissed(t)'
  BY <1>7, BroadcastMissesNothing
<1>8. ASSUME NEW s \in Subs, Write(s) PROVE NothingMissed(t)'
  BY <1>8, WriteMissesNothing
<1>9. ASSUME NEW s \in Subs, \/ ReaderEnds(s) \/ WriterEnds(s) \/ CloseSlow(s)
                             \/ Disconnect(s)
      PROVE  NothingMissed(t)'
  <2>1. link' = [link EXCEPT ![s] = "shut"] /\ closers' = closers \ {s}
    BY <1>9 DEF ReaderEnds, WriterEnds, CloseSlow, Disconnect, Shut
  <2>2. t # s
    BY <2>1 DEF Following, HubInv, TypeOK
  <2>3. Following(t) /\ Fanned' = Fanned
    BY <1>9, <2>1, <2>2 DEF ReaderEnds, WriterEnds, WriterReturns, CloseSlow, Disconnect,
                            Following, HubInv, TypeOK, server, Fanned
  <2> QED
    BY <1>1, <1>9, <2>2, <2>3, MissedFrame
       DEF ReaderEnds, WriterEnds, WriterReturns, CloseSlow, Disconnect, HubInv, TypeOK
<1>10. ASSUME Stop \/ UNCHANGED vars PROVE NothingMissed(t)'
  <2>1. Following(t) /\ Fanned' = Fanned
    BY <1>10 DEF Stop, vars, Following, conns, server, Fanned
  <2> QED
    BY <1>1, <1>10, <2>1, MissedFrame DEF Stop, vars, conns
<1> QED
  BY <1>2, <1>3, <1>4, <1>5, <1>6, <1>7, <1>8, <1>9, <1>10 DEF Next

\* The inductive invariant of the hub.
THEOREM HubInvariant == Spec => []HubInv
<1>1. Init => HubInv
  <2>1. Init => TypeOK
    BY TypeInit
  <2> QED
    BY <2>1, SubsAssumption, KindsAssumption
       DEF Init, HubInv, OneRoom, Registered, HeldByPublisher, NothingYet, MissesNothing,
           Following, Idle
<1>2. HubInv /\ [Next]_vars => HubInv'
  BY TypeStep, RegistrationStep, MutexStep, NothingYetStep, MissesNothingStep DEF HubInv
<1> QED
  BY <1>1, <1>2, PTL DEF Spec

\* However the broadcasts of many handlers, the writers, slow clients and
\* disconnections interleave, a client that is still followed has been sent, or
\* will find queued in order, every version since it joined.
THEOREM FollowersMissNothing == Spec => []MissesNothing
BY HubInvariant, PTL DEF HubInv

\* Every connection that is connected is in the entry broadcasts look at.
THEOREM ConnectedReachable == Spec => []Reachable
<1>1. HubInv => Reachable
  BY DEF HubInv, OneRoom, Registered, Reachable
<1> QED
  BY <1>1, HubInvariant, PTL
==============================================================================
