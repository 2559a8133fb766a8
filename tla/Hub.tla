--------------------------------- MODULE Hub ---------------------------------
(***************************************************************************)
(* The subscribers of one workspace.  A connection is served by three      *)
(* goroutines: subscribe, which registers it and waits for the server to   *)
(* stop, a reader that runs the handler of each message it gets, and a     *)
(* writer that sends what others have put into the connection's bounded    *)
(* queues.  A handler ends in broadcastMessage; whoever cannot take a      *)
(* message is closed by a goroutine of its own.                            *)
(*                                                                         *)
(* Chunks are those of one file and known by their version; of the events  *)
(* and cursors only the kind matters.  What onChunkMessage does before it  *)
(* broadcasts is FileSync's matter: here it takes the file's mutex and the *)
(* next version.  A message that is malformed or over the rate limit       *)
(* changes nothing and is no action.                                       *)
(***************************************************************************)
EXTENDS Naturals, Sequences, FiniteSets

CONSTANTS Subs,          \* connections: every one has a client ID of its own
          Kinds, NoSub,
          QueueSize,              \* subscriberMessageBuffer
          MaxVersion, MaxOthers   \* bounds on the messages sent

ASSUME KindsAssumption == "chunk" \in Kinds /\ Kinds \subseteq {"chunk", "event", "cursor"}
ASSUME SubsAssumption == NoSub \notin Subs
ASSUME BoundsAssumption == QueueSize \in Nat \ {0} /\ MaxVersion \in Nat /\ MaxOthers \in Nat

VARIABLES
  stopped,    \* s.ctx is cancelled
  entry,      \* the workspaceSubscribers registered for the workspace, 0 for none
  members,    \* the connections in the subs of the workspaceSubscribers they found
  mut,        \* the goroutine that holds the file's mutex
  version,    \* the file's version
  others,     \* events and cursors handled so far
  handler, reader, writer,  \* the goroutines of each connection
  connected,  \* isConnected
  link,       \* the WebSocket connection: "none", "open" or "shut"
  closers,    \* connections a closeSlow goroutine is to close
  queue,      \* the queues of each connection
  first,      \* the first version broadcast after each connection registered
  seen        \* the versions its client was sent

server == <<stopped, entry, mut, version, others>>
conns  == <<connected, link, closers, queue, first, seen>>
vars   == <<server, members, handler, reader, writer, conns>>

Idle == [pc |-> "none", kind |-> "chunk", version |-> 0]
Selecting == [Idle EXCEPT !.pc = "select"]

Init ==
  /\ stopped = FALSE /\ entry = 0 /\ members = {} /\ mut = NoSub
  /\ version = 0 /\ others = 0
  /\ handler   = [s \in Subs |-> [pc |-> "none", room |-> 0]]
  /\ reader    = [s \in Subs |-> Idle]
  /\ writer    = [s \in Subs |-> Idle]
  /\ connected = [s \in Subs |-> FALSE]
  /\ link      = [s \in Subs |-> "none"]
  /\ closers   = {}
  /\ queue     = [s \in Subs |-> [k \in Kinds |-> <<>>]]
  /\ first     = [s \in Subs |-> 1]
  /\ seen      = [s \in Subs |-> <<>>]

\* The version broadcast last: one may be recorded and not yet sent out.
Fanned == IF mut = NoSub THEN version ELSE version - 1

\* A connection is shut once: closeSlow finds nothing more to do.
Shut(s) ==
  /\ link' = [link EXCEPT ![s] = "shut"]
  /\ closers' = closers \ {s}

-------------------------------------------------------------------------------
(* subscribe *)

\* NewSubscriber, then the first half of addSubscriber: find the entry of the
\* workspace, or make it.
Subscribe(s) ==
  /\ handler[s].pc = "none" /\ ~stopped
  /\ connected' = [connected EXCEPT ![s] = TRUE]
  /\ link' = [link EXCEPT ![s] = "open"]
  /\ entry' = IF entry = 0 THEN 1 ELSE entry
  /\ handler' = [handler EXCEPT ![s] = [pc |-> "add", room |-> entry']]
  /\ UNCHANGED <<stopped, mut, version, others, members, reader, writer,
                 closers, queue, first, seen>>

\* The second half, under ws.mu, and Listen, which starts the two goroutines.
AddSubscriber(s) ==
  /\ handler[s].pc = "add"
  /\ members' = members \cup {s}
  /\ first' = [first EXCEPT ![s] = Fanned + 1]
  /\ handler' = [handler EXCEPT ![s].pc = "listen"]
  /\ reader' = [reader EXCEPT ![s].pc = "read"]
  /\ writer' = [writer EXCEPT ![s] = Selecting]
  /\ UNCHANGED <<server, connected, link, closers, queue, seen>>

\* Mutant: subscribe returns without deleteSubscriber.
ListenReturnsOnly(s) ==
  /\ handler[s].pc = "listen" /\ stopped
  /\ handler' = [handler EXCEPT ![s].pc = "returned"]
  /\ UNCHANGED <<server, members, reader, writer, conns>>

\* Listen returns when the server stops, and only then: deleteSubscriber.
ListenReturns(s) ==
  /\ handler[s].pc = "listen" /\ stopped
  /\ members' = IF handler[s].room = entry THEN members \ {s} ELSE members
  /\ handler' = [handler EXCEPT ![s].pc = "returned"]
  /\ UNCHANGED <<server, reader, writer, conns>>

-------------------------------------------------------------------------------
(* The reader and broadcastMessage *)

Receiving(s) == reader[s].pc = "read" /\ connected[s] /\ link[s] = "open" /\ ~stopped

\* Mutant: the file's mutex is let go before the broadcast.
HandleChunkUnlocked(s) ==
  /\ Receiving(s)
  /\ version < MaxVersion /\ version' = version + 1
  /\ reader' = [reader EXCEPT ![s] = [pc |-> "publish", kind |-> "chunk", version |-> version']]
  /\ UNCHANGED <<stopped, entry, mut, others, members, handler, writer, conns>>

\* A chunk message is accepted: onChunkMessage holds the file's mutex from
\* before the version is recorded until the broadcast has ended.
HandleChunk(s) ==
  /\ Receiving(s)
  /\ version < MaxVersion /\ version' = version + 1
  /\ mut = NoSub /\ mut' = s
  /\ reader' = [reader EXCEPT ![s] = [pc |-> "publish", kind |-> "chunk", version |-> version']]
  /\ UNCHANGED <<stopped, entry, others, members, handler, writer, conns>>

HandleOther(s, k) ==
  /\ Receiving(s) /\ k # "chunk"
  /\ others < MaxOthers /\ others' = others + 1
  /\ reader' = [reader EXCEPT ![s] = [pc |-> "publish", kind |-> k, version |-> 0]]
  /\ UNCHANGED <<stopped, entry, mut, version, members, handler, writer, conns>>

\* The subscribers the loop comes to, and those of them the message is for: the
\* disconnected are forgotten, only chunks go back to their sender.
InRoom == {t \in members : handler[t].room = entry}
For(s, k) == {t \in InRoom : connected[t] /\ (t # s \/ k = "chunk")}

\* Mutant: a queue that holds one message more than there is room for.
FullTooLate(k) == {t \in Subs : Len(queue[t][k]) > QueueSize}

Full(k) == {t \in Subs : Len(queue[t][k]) >= QueueSize}

\* Mutant: what does not fit is dropped and the connection left as it is.
SlowKept(s, k) == {}

Slow(s, k) == For(s, k) \cap Full(k)

Send(to, k, m) ==
  queue' = [t \in Subs |-> IF t \in to THEN [queue[t] EXCEPT ![k] = Append(@, m)]
                                       ELSE queue[t]]

HandlerReturns(s) ==
  /\ mut' = IF mut = s THEN NoSub ELSE mut
  /\ reader' = [reader EXCEPT ![s] = [Idle EXCEPT !.pc = "read"]]

\* Mutant: an entry nobody is left in is taken out of the map.
BroadcastCleansUp(s) ==
  LET k == reader[s].kind IN
  /\ reader[s].pc = "publish"
  /\ Send(For(s, k) \ Full(k), k, reader[s].version)
  /\ closers' = closers \cup Slow(s, k)
  /\ members' = members \ {t \in InRoom : ~connected[t]}
  /\ entry' = IF \E t \in InRoom : connected[t] THEN entry ELSE entry + 1
  /\ HandlerReturns(s)
  /\ UNCHANGED <<stopped, version, others, handler, writer, connected,
                 link, first, seen>>

\* publishLimiter.Wait has ended, by itself or with s.ctx.  The loop runs under
\* ws.mu and never waits: a message goes into the queue of a subscriber, or
\* closeSlow is started for it.
Broadcast(s) ==
  LET k == reader[s].kind IN
  /\ reader[s].pc = "publish"
  /\ Send(For(s, k) \ Full(k), k, reader[s].version)
  /\ closers' = closers \cup Slow(s, k)
  /\ members' = members \ {t \in InRoom : ~connected[t]}
  /\ HandlerReturns(s)
  /\ UNCHANGED <<stopped, entry, version, others, handler, writer, connected,
                 link, first, seen>>

\* No more to read: Close, which also shuts the connection.
ReaderEnds(s) ==
  /\ reader[s].pc = "read"
  /\ stopped \/ ~connected[s] \/ link[s] = "shut"
  /\ connected' = [connected EXCEPT ![s] = FALSE] /\ Shut(s)
  /\ reader' = [reader EXCEPT ![s].pc = "ended"]
  /\ UNCHANGED <<server, members, handler, writer, queue, first, seen>>

-------------------------------------------------------------------------------
(* The writer *)

\* Close, and nobody reads the queues again.
WriterReturns(s) ==
  /\ connected' = [connected EXCEPT ![s] = FALSE]
  /\ writer' = [writer EXCEPT ![s] = [Idle EXCEPT !.pc = "ended"]]
  /\ queue' = [queue EXCEPT ![s] = [k \in Kinds |-> <<>>]]

Dequeue(s, k) ==
  /\ writer[s].pc = "select" /\ queue[s][k] # <<>>
  /\ writer' = [writer EXCEPT ![s] = [pc |-> "write", kind |-> k,
                                      version |-> Head(queue[s][k])]]
  /\ queue' = [queue EXCEPT ![s][k] = Tail(@)]
  /\ UNCHANGED <<server, members, handler, reader, connected, link, closers, first, seen>>

WriteMessage(s) ==
  /\ writer[s].pc = "write" /\ link[s] = "open"
  /\ seen' = IF writer[s].kind = "chunk"
               THEN [seen EXCEPT ![s] = Append(@, writer[s].version)] ELSE seen
  /\ writer' = [writer EXCEPT ![s] = Selecting]
  /\ UNCHANGED <<server, members, handler, reader, connected, link, closers, queue, first>>

\* The connection is shut, or writeTimeout passes and shuts it.  checkWsError
\* closes the subscriber for some of the errors; after the others the writer
\* goes on until the reader has noticed.
WriteFails(s) ==
  /\ writer[s].pc = "write" /\ Shut(s)
  /\ \/ connected[s] /\ writer' = [writer EXCEPT ![s] = Selecting]
        /\ UNCHANGED <<connected, queue>>
     \/ WriterReturns(s)
  /\ UNCHANGED <<server, members, handler, reader, first, seen>>

\* s.ctx.Done, or the request's context, which ends with the handler.
WriterEnds(s) ==
  /\ writer[s].pc = "select" /\ stopped
  /\ WriterReturns(s) /\ Shut(s)
  /\ UNCHANGED <<server, members, handler, reader, first, seen>>

-------------------------------------------------------------------------------
(* The rest of the world *)

\* conn.Close in a goroutine of its own.
CloseSlow(s) ==
  /\ s \in closers /\ Shut(s)
  /\ UNCHANGED <<server, members, handler, reader, writer, connected, queue, first, seen>>

\* The client leaves, or the network fails.
Disconnect(s) ==
  /\ link[s] = "open" /\ Shut(s)
  /\ UNCHANGED <<server, members, handler, reader, writer, connected, queue,
                 first, seen>>

\* Close cancels the context.
Stop ==
  /\ ~stopped /\ stopped' = TRUE
  /\ UNCHANGED <<entry, mut, version, others, members, handler, reader, writer, conns>>

-------------------------------------------------------------------------------
Write(s) == (\E k \in Kinds : Dequeue(s, k)) \/ WriteMessage(s) \/ WriteFails(s)

Next ==
  \/ \E s \in Subs :
       \/ Subscribe(s) \/ AddSubscriber(s) \/ ListenReturns(s)
       \/ HandleChunk(s) \/ (\E k \in Kinds : HandleOther(s, k))
       \/ Broadcast(s) \/ ReaderEnds(s) \/ Write(s) \/ WriterEnds(s)
       \/ CloseSlow(s) \/ Disconnect(s)
  \/ Stop

Spec == Init /\ [][Next]_vars

\* Every goroutine that can go on does: publishLimiter and ws.mu, held for one
\* loop at a time, let everyone through.  Clients send, leave, join and read at
\* their will, but writeTimeout ends every write.
Fairness ==
  \A s \in Subs :
    /\ WF_vars(AddSubscriber(s)) /\ WF_vars(ListenReturns(s))
    /\ WF_vars(Broadcast(s)) /\ WF_vars(ReaderEnds(s))
    /\ SF_vars(Dequeue(s, "chunk")) /\ WF_vars(Write(s)) /\ WF_vars(WriterEnds(s))
    /\ WF_vars(CloseSlow(s))

FairSpec == Spec /\ Fairness

-------------------------------------------------------------------------------
(* Properties *)

HandlerState == [pc : {"none", "add", "listen", "returned"}, room : Nat]
ReaderState  == [pc : {"none", "read", "publish", "ended"}, kind : Kinds, version : Nat]
WriterState  == [pc : {"none", "select", "write", "ended"}, kind : Kinds, version : Nat]

\* The shapes of the variables.
TypeOK ==
  /\ stopped \in BOOLEAN /\ entry \in Nat
  /\ members \in SUBSET Subs /\ closers \in SUBSET Subs
  /\ mut \in Subs \cup {NoSub}
  /\ version \in Nat /\ others \in Nat
  /\ handler \in [Subs -> HandlerState]
  /\ reader \in [Subs -> ReaderState] /\ writer \in [Subs -> WriterState]
  /\ connected \in [Subs -> BOOLEAN]
  /\ link \in [Subs -> {"none", "open", "shut"}]
  /\ queue \in [Subs -> [Kinds -> Seq(Nat)]]
  /\ first \in [Subs -> Nat]
  /\ seen \in [Subs -> Seq(Nat)]
  /\ \A s \in Subs, k \in Kinds : Len(queue[s][k]) <= QueueSize

\* A client whose connection nobody has given up.
Following(s) ==
  handler[s].pc = "listen" /\ connected[s] /\ link[s] = "open" /\ s \notin closers

InHand(s) == IF writer[s].pc = "write" /\ writer[s].kind = "chunk" THEN 1 ELSE 0

\* The versions between those s has got and the given one are in the writer's
\* hands or in its queue, the next one first.
Gapless(s, last) ==
  LET waiting == queue[s]["chunk"]
      next == first[s] + Len(seen[s])
  IN /\ \A i \in DOMAIN seen[s] : seen[s][i] = first[s] + i - 1
     /\ InHand(s) = 1 => writer[s].version = next
     /\ \A i \in DOMAIN waiting : waiting[i] = next + InHand(s) + i - 1
     /\ next + InHand(s) + Len(waiting) = last + 1

NothingMissed(s) == Gapless(s, Fanned)

\* Whatever others do at the same time, a full queue included, a client misses
\* no version and gets none out of order while its connection is not being
\* closed.
MissesNothing == \A s \in Subs : Following(s) => NothingMissed(s)

Rising(q) == \A i, j \in DOMAIN q : i < j => q[i] < q[j]

Hand(s) == IF InHand(s) = 1 THEN <<writer[s].version>> ELSE <<>>

\* The versions on their way to s and those it got, between the one before it
\* joined and the one that comes next.
Line(s) ==
  <<first[s] - 1>> \o seen[s] \o Hand(s) \o queue[s]["chunk"] \o <<Fanned + 1>>

\* A client that is being given up may miss versions, but whatever is written
\* to it after a message was dropped, it gets none twice, none out of order and
\* none from before it joined.
NeverBack == \A s \in Subs : Rising(Line(s))

\* Whoever is connected is where the next broadcast looks: addSubscriber finds
\* the workspace's entry and joins it in two steps, and a broadcast that
\* forgets its last subscriber may come between them.
Reachable ==
  \A s \in Subs : handler[s].pc = "listen" /\ connected[s] =>
    s \in members /\ handler[s].room = entry

\* When the server stops every goroutine of every connection ends, a reader in
\* the middle of a broadcast included, and nobody is left registered.
StopEndsAll ==
  \A s \in Subs : (stopped /\ handler[s].pc = "listen") ~>
    /\ s \notin members /\ ~connected[s]
    /\ reader[s].pc = "ended" /\ writer[s].pc = "ended"

\* What can be told of a connection from outside.
Status(s) ==
  CASE handler[s].pc \in {"none", "add"} -> "away"
    [] handler[s].pc \in {"listen", "returned"} /\ ~connected[s] -> "ended"
    [] handler[s].pc \in {"listen", "returned"} /\ connected[s] ->
         IF link[s] = "shut" \/ s \in closers THEN "doomed" ELSE "following"

F == INSTANCE Feed WITH Followers <- Subs, published <- Fanned, from <- first,
                        status <- [s \in Subs |-> Status(s)]

\* The hub is what Feed promises: every version to everyone, in order, or the
\* connection is given up and ends.
ImplementsFeed == F!Spec
==============================================================================
