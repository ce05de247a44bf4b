--------------------------------- MODULE Hub ---------------------------------
(***************************************************************************)
(* realtime.Hub on every process of the program.  Publish hands an event   *)
(* to the channel of each local subscriber and then to Redis; ListenRedis  *)
(* of every other process hands it to its own subscribers.  A channel has  *)
(* a bounded buffer and a sender that finds it full throws the oldest      *)
(* event away, in three steps between which other senders run.             *)
(*                                                                         *)
(* An event is the n-th of the goroutine that published it; what it says   *)
(* does not matter here.  Which events the stream of a user shows          *)
(* (eventVisible) is left out.  Redis delivers in order; it may lose what  *)
(* is on the way when a connection drops, and the client library may send  *)
(* a command twice (MaxRetries).                                           *)
(***************************************************************************)
EXTENDS Naturals, Sequences

CONSTANTS
  Node,       (* processes                                                 *)
  Thread,     (* goroutines that publish                                   *)
  Sub,        (* event streams, each with one channel                      *)
  NodeOf,     (* the process of a thread or a stream                       *)
  Listener,   (* bound: the processes whose ListenRedis is followed; one   *)
              (* without streams shows its events to nobody                *)
  Buffer,     (* capacity of a channel                                     *)
  MaxEvents   (* bound on the events of each thread                        *)

ASSUME HubAssumption ==
  /\ NodeOf \in [Thread \cup Sub -> Node]
  /\ Node \cap Thread = {} /\ Thread # {} /\ Sub # {}
  /\ Listener \subseteq Node
  /\ Buffer \in Nat \ {0} /\ MaxEvents \in [Thread -> Nat]

VARIABLES
  stream,   (* not yet subscribed, subscribed, cancelled                   *)
  chan,     (* what is in the channel of each stream                       *)
  seen,     (* history: the last event of each thread a stream has taken   *)
  sender,   (* broadcast, by a thread or by the listener of a node         *)
  wire,     (* events Redis has sent to each node                          *)
  linked,   (* the nodes whose consume is subscribed to Redis              *)
  count     (* history: events each thread has published                   *)

hubvars == <<stream, chan, seen, sender, wire, linked, count>>

Event == [by : Thread, n : Nat]
Sender == Thread \cup Node
NoEvent == [by |-> CHOOSE t \in Thread : TRUE, n |-> 0]

\* todo: the channels still to be served; to: the one found full.
Sending == [pc : {"idle", "list", "send", "drop", "again", "redis"},
            event : Event, todo : SUBSET Sub, to : Sub]

Broadcast(e) == [pc |-> "list", event |-> e, todo |-> {}, to |-> CHOOSE s \in Sub : TRUE]
Quiet == [Broadcast(NoEvent) EXCEPT !.pc = "idle"]

\* Types; a channel never holds more than its buffer.
HubTypeOK ==
  /\ stream \in [Sub -> {"new", "open", "closed"}]
  /\ \A s \in Sub : Len(chan[s]) <= Buffer /\ chan[s] \in Seq(Event)
  /\ seen \in [Sub -> [Thread -> Nat]]
  /\ sender \in [Sender -> Sending]
  /\ wire \in [Node -> Seq(Event)]
  /\ linked \subseteq Node
  /\ count \in [Thread -> Nat] /\ \A t \in Thread : count[t] <= MaxEvents[t]

HubInit ==
  /\ stream = [s \in Sub |-> "new"]
  /\ chan = [s \in Sub |-> <<>>]
  /\ seen = [s \in Sub |-> [t \in Thread |-> 0]]
  /\ sender = [x \in Sender |-> Quiet]
  /\ wire = [n \in Node |-> <<>>]
  /\ linked = {}
  /\ count = [t \in Thread |-> 0]

-----------------------------------------------------------------------------
(* Streams.                                                                *)

Subscribe(s) ==
  /\ stream[s] = "new"
  /\ stream' = [stream EXCEPT ![s] = "open"]
  /\ UNCHANGED <<chan, seen, sender, wire, linked, count>>

\* A sender that has listed the channel still fills it; it is never closed.
Cancel(s) ==
  /\ stream[s] = "open"
  /\ stream' = [stream EXCEPT ![s] = "closed"]
  /\ UNCHANGED <<chan, seen, sender, wire, linked, count>>

Receive(s) ==
  LET e == Head(chan[s])
  IN  /\ stream[s] = "open" /\ chan[s] # <<>>
      /\ chan' = [chan EXCEPT ![s] = Tail(@)]
      /\ seen' = [seen EXCEPT ![s][e.by] = e.n]
      /\ UNCHANGED <<stream, sender, wire, linked, count>>

-----------------------------------------------------------------------------
(* Publish, and broadcast by either kind of sender.                        *)

At(x, pc) == sender[x].pc = pc
NodeAt(x) == IF x \in Node THEN x ELSE NodeOf[x]

\* The part of Publish that changes state first; the caller says what else.
Publish(t) ==
  /\ At(t, "idle") /\ count[t] < MaxEvents[t]
  /\ count' = [count EXCEPT ![t] = @ + 1]
  /\ sender' = [sender EXCEPT ![t] = Broadcast([by |-> t, n |-> count[t] + 1])]
  /\ UNCHANGED <<stream, chan, seen, wire, linked>>

\* broadcast copies the set of channels under the lock of the hub.
ListSubs(x) ==
  /\ At(x, "list")
  /\ sender' = [sender EXCEPT ![x].pc = "send",
       ![x].todo = {s \in Sub : stream[s] = "open" /\ NodeOf[s] = NodeAt(x)}]
  /\ UNCHANGED <<stream, chan, seen, wire, linked, count>>

Room(s) == Len(chan[s]) < Buffer

\* sendLatest: the map of channels is walked in any order.
Send(x, s) ==
  /\ At(x, "send") /\ s \in sender[x].todo
  /\ IF Room(s)
     THEN /\ chan' = [chan EXCEPT ![s] = Append(@, sender[x].event)]
          /\ sender' = [sender EXCEPT ![x].todo = @ \ {s}]
     ELSE /\ sender' = [sender EXCEPT ![x].pc = "drop", ![x].to = s]
          /\ UNCHANGED chan
  /\ UNCHANGED <<stream, seen, wire, linked, count>>

\* Faults: the full channel is waited for, or kept as it is.
WaitForRoom(s) == Len(chan[s]) < Buffer /\ UNCHANGED chan
KeepOldest(s) == UNCHANGED chan

DropOldest(s) ==
  chan' = [chan EXCEPT ![s] = IF @ = <<>> THEN @ ELSE Tail(@)]

\* The select that takes the oldest event, if there still is one.
Drop(x) ==
  /\ At(x, "drop")
  /\ DropOldest(sender[x].to)
  /\ sender' = [sender EXCEPT ![x].pc = "again"]
  /\ UNCHANGED <<stream, seen, wire, linked, count>>

\* The second attempt; the event is given up if the place is taken again.
Again(x) ==
  LET s == sender[x].to
  IN  /\ At(x, "again")
      /\ IF Room(s) THEN chan' = [chan EXCEPT ![s] = Append(@, sender[x].event)]
                    ELSE UNCHANGED chan
      /\ sender' = [sender EXCEPT ![x].pc = "send", ![x].todo = @ \ {s}]
      /\ UNCHANGED <<stream, seen, wire, linked, count>>

Sent(x) ==
  /\ At(x, "send") /\ sender[x].todo = {}
  /\ sender' = [sender EXCEPT ![x] =
                  IF x \in Thread THEN [@ EXCEPT !.pc = "redis"] ELSE Quiet]
  /\ UNCHANGED <<stream, chan, seen, wire, linked, count>>

-----------------------------------------------------------------------------
(* Redis.                                                                  *)

\* PUBLISH: k copies reach the subscribed nodes, none if Redis is not there.
PublishRedis(t) ==
  /\ At(t, "redis")
  /\ \E k \in 0 .. 2 :
       wire' = [n \in Node |-> IF n \notin linked \/ k = 0 THEN wire[n]
                ELSE wire[n] \o [i \in 1 .. k |-> sender[t].event]]
  /\ sender' = [sender EXCEPT ![t] = Quiet]
  /\ UNCHANGED <<stream, chan, seen, linked, count>>

\* Fault: the origin of an event is not looked at.
AnyOrigin(n, e) == TRUE

Foreign(n, e) == NodeOf[e.by] # n

Consume(n) ==
  LET e == Head(wire[n])
  IN  /\ n \in linked /\ At(n, "idle") /\ wire[n] # <<>>
      /\ wire' = [wire EXCEPT ![n] = Tail(@)]
      /\ sender' = IF Foreign(n, e)
                   THEN [sender EXCEPT ![n] = Broadcast(e)]
                   ELSE sender
      /\ UNCHANGED <<stream, chan, seen, linked, count>>

\* ListenRedis subscribes, and subscribes again after the connection dropped.
Link(n) ==
  /\ n \in Listener \ linked /\ At(n, "idle")
  /\ linked' = linked \cup {n}
  /\ UNCHANGED <<stream, chan, seen, sender, wire, count>>

Unlink(n) ==
  /\ n \in linked
  /\ linked' = linked \ {n}
  /\ wire' = [wire EXCEPT ![n] = <<>>]
  /\ UNCHANGED <<stream, chan, seen, sender, count>>

Serve(x) ==
  \/ ListSubs(x) \/ Drop(x) \/ Again(x) \/ Sent(x)
  \/ \E s \in Sub : Send(x, s)

HubStep ==
  \/ \E s \in Sub : Subscribe(s) \/ Cancel(s) \/ Receive(s)
  \/ \E x \in Sender : Serve(x)
  \/ \E t \in Thread : PublishRedis(t)
  \/ \E n \in Node : Consume(n) \/ Link(n) \/ Unlink(n)

-----------------------------------------------------------------------------
(* Properties.                                                             *)

Arrives(s, e, strictly) ==
  IF strictly THEN seen[s][e.by] < e.n ELSE seen[s][e.by] <= e.n

\* A stream gets the events of one publisher in the order in which they were
\* published, whatever was thrown away between them and however often the
\* connection to Redis dropped; those of its own process it gets at most once.
Ordered ==
  \A s \in Sub : \A i \in 1 .. Len(chan[s]) :
    LET e == chan[s][i]
        own == NodeOf[e.by] = NodeOf[s]
    IN  /\ Arrives(s, e, own)
        /\ \A j \in 1 .. i - 1 : chan[s][j].by = e.by =>
             IF own THEN chan[s][j].n < e.n ELSE chan[s][j].n <= e.n

GivesUp(x) == At(x, "again") /\ ~Room(sender[x].to)

\* A sender keeps its event from a slow stream only when another publisher's
\* event took the place it had made: one publisher alone always gets its
\* latest event through ("want the latest event", hub_test.go).
LatestKept ==
  \A x \in Sender : GivesUp(x) =>
    LET buffered == chan[sender[x].to]
    IN  buffered[Len(buffered)].by # sender[x].event.by
=============================================================================
