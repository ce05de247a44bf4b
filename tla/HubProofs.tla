------------------------------ MODULE HubProofs ------------------------------
(***************************************************************************)
(* Proofs about the event hub as the notices use it: the order in which a  *)
(* stream gets the events of one publisher, and what the full channel of a *)
(* slow stream keeps.                                                      *)
(***************************************************************************)
EXTENDS Notices, SequenceTheorems, TLAPS

\* By how much two events of t differ at least in the channel of s: a stream of
\* the publisher's own process gets each once, another may get one again.
Gap(t, s) == IF NodeOf[t] = NodeOf[s] THEN 1 ELSE 0

Before(m, e, d) == m.by = e.by => m.n + d <= e.n

\* e may be put behind what is in the channel c of s and what s has taken, z.
Follows(c, z, e, s) ==
  /\ z[e.by] + Gap(e.by, s) <= e.n
  /\ \A i \in 1 .. Len(c) : Before(c[i], e, Gap(e.by, s))

\* The channel is in order, and holds nothing that is not published (N).
InLine(c, z, s, N) ==
  \A j \in 1 .. Len(c) :
    /\ c[j].n <= N[c[j].by]
    /\ z[c[j].by] + Gap(c[j].by, s) <= c[j].n
    /\ \A i \in 1 .. j - 1 : Before(c[i], c[j], Gap(c[j].by, s))

-----------------------------------------------------------------------------
(* The inductive invariant.                                                *)

Busy(x) == sender[x].pc # "idle"

\* What x sends: a thread its newest event, a listener a foreign one.
SendsOwn(x) ==
  /\ Busy(x) => sender[x].event.n <= count[sender[x].event.by]
  /\ Busy(x) /\ x \in Thread => sender[x].event.by = x /\ sender[x].event.n = count[x]
  /\ Busy(x) /\ x \in Node => Foreign(x, sender[x].event)
  /\ \A s \in sender[x].todo : NodeOf[s] = NodeAt(x)
  /\ sender[x].pc \in {"drop", "again"} => sender[x].to \in sender[x].todo

\* s is not served yet, or may still be listed.
Pending(x, s) ==
  /\ NodeOf[s] = NodeAt(x)
  /\ \/ sender[x].pc = "list"
     \/ sender[x].pc \in {"send", "drop", "again"} /\ s \in sender[x].todo

WireInOrder(n) ==
  \A j \in 1 .. Len(wire[n]) :
    LET e == wire[n][j]
    IN  /\ e.n <= count[e.by]
        /\ \A i \in 1 .. j - 1 : Before(wire[n][i], e, 0)
        /\ Busy(n) => Before(sender[n].event, e, 0)
        /\ Foreign(n, e) =>
             \A s \in Sub : NodeOf[s] = n => Follows(chan[s], seen[s], e, s)

\* The place that Drop made is there, or another publisher's event took it.
MadeRoom(x) ==
  LET buffered == chan[sender[x].to]
  IN  sender[x].pc = "again" =>
        Room(sender[x].to) \/ buffered[Len(buffered)].by # sender[x].event.by

HubParts ==
  /\ HubTypeOK /\ chan \in [Sub -> Seq(Event)]
  /\ \A x \in Sender : SendsOwn(x)
  /\ \A s \in Sub, t \in Thread : seen[s][t] <= count[t]
  /\ \A s \in Sub : InLine(chan[s], seen[s], s, count)

HubInv ==
  /\ HubParts
  /\ \A x \in Sender, s \in Sub : Pending(x, s) => Follows(chan[s], seen[s], sender[x].event, s)
  /\ \A n \in Node : WireInOrder(n)
  /\ \A x \in Sender : MadeRoom(x)
-----------------------------------------------------------------------------
(* Channels.                                                               *)

LEMMA GapIs == ASSUME NEW t, NEW s PROVE Gap(t, s) \in {0, 1}
  BY DEF Gap

LEMMA EventIs == ASSUME NEW e \in Event PROVE e.by \in Thread /\ e.n \in Nat
  BY DEF Event

LEMMA ChannelIs ==
  ASSUME NEW c \in Seq(Event)
  PROVE  Len(c) \in Nat /\ \A i \in 1 .. Len(c) : c[i] \in Event /\ c[i].by \in Thread /\ c[i].n \in Nat
  <1>1. Len(c) \in Nat /\ \A i \in 1 .. Len(c) : c[i] \in Event
    OBVIOUS
  <1>q. QED BY <1>1, EventIs

\* What stays behind when the oldest event leaves.
LEMMA TailIs ==
  ASSUME NEW c \in Seq(Event), c # <<>>
  PROVE  /\ Tail(c) \in Seq(Event) /\ Len(Tail(c)) = Len(c) - 1 /\ Len(c) \in Nat \ {0}
         /\ Head(c) = c[1] /\ Head(c) \in Event
         /\ \A i \in 1 .. Len(Tail(c)) : i + 1 \in 1 .. Len(c) /\ Tail(c)[i] = c[i + 1]
  <1>1. Len(c) \in Nat \ {0}
    OBVIOUS
  <1>2. Tail(c) \in Seq(Event) /\ Len(Tail(c)) = Len(c) - 1
    OBVIOUS
  <1>3. \A i \in 1 .. Len(c) - 1 : i + 1 \in 1 .. Len(c) /\ Tail(c)[i] = c[i + 1]
    OBVIOUS
  <1>q. QED BY <1>1, <1>2, <1>3

LEMMA AppendIs ==
  ASSUME NEW c \in Seq(Event), NEW e \in Event
  PROVE  /\ Append(c, e) \in Seq(Event) /\ Len(Append(c, e)) = Len(c) + 1 /\ Len(c) \in Nat
         /\ Append(c, e)[Len(c) + 1] = e
         /\ \A i \in 1 .. Len(c) : Append(c, e)[i] = c[i]
  OBVIOUS

LEMMA LineAppend ==
  ASSUME NEW c \in Seq(Event), NEW z \in [Thread -> Nat], NEW s, NEW N \in [Thread -> Nat],
         NEW e \in Event, InLine(c, z, s, N), Follows(c, z, e, s), e.n <= N[e.by]
  PROVE  InLine(Append(c, e), z, s, N)
  <1> DEFINE a == Append(c, e)
  <1>1. /\ Len(a) = Len(c) + 1 /\ Len(c) \in Nat /\ a[Len(c) + 1] = e
        /\ \A i \in 1 .. Len(c) : a[i] = c[i]
    BY AppendIs
  <1> HIDE DEF a
  <1> SUFFICES ASSUME NEW j \in 1 .. Len(a)
               PROVE  /\ a[j].n <= N[a[j].by] /\ z[a[j].by] + Gap(a[j].by, s) <= a[j].n
                      /\ \A i \in 1 .. j - 1 : Before(a[i], a[j], Gap(a[j].by, s))
    BY DEF InLine, a
  <1>2. CASE j = Len(c) + 1
    <2>1. a[j] = e /\ \A i \in 1 .. j - 1 : i \in 1 .. Len(c) /\ a[i] = c[i]
      BY <1>1, <1>2
    <2>q. QED BY <2>1 DEF Follows
  <1>3. CASE j \in 1 .. Len(c)
    <2>1. a[j] = c[j] /\ \A i \in 1 .. j - 1 : a[i] = c[i]
      BY <1>1, <1>3
    <2>q. QED BY <1>3, <2>1 DEF InLine
  <1>q. QED BY <1>1, <1>2, <1>3

LEMMA LineTail ==
  ASSUME NEW c \in Seq(Event), NEW z \in [Thread -> Nat], NEW s, NEW N \in [Thread -> Nat],
         c # <<>>, InLine(c, z, s, N)
  PROVE  /\ InLine(Tail(c), z, s, N)
         /\ InLine(Tail(c), [z EXCEPT ![Head(c).by] = Head(c).n], s, N)
         /\ Head(c).n <= N[Head(c).by]
  <1> DEFINE a == Tail(c)
             h == Head(c)
             y == [z EXCEPT ![h.by] = h.n]
  <1>1. /\ Len(a) = Len(c) - 1 /\ Len(c) \in Nat \ {0} /\ h = c[1] /\ h \in Event
        /\ \A i \in 1 .. Len(a) : i + 1 \in 1 .. Len(c) /\ a[i] = c[i + 1]
    BY TailIs
  <1>2. \A t \in Thread : y[t] = IF t = h.by THEN h.n ELSE z[t]
    OBVIOUS
  <1> HIDE DEF a, h, y
  <1>3. ASSUME NEW j \in 1 .. Len(a)
        PROVE  /\ a[j].n <= N[a[j].by]
               /\ z[a[j].by] + Gap(a[j].by, s) <= a[j].n
               /\ y[a[j].by] + Gap(a[j].by, s) <= a[j].n
               /\ \A i \in 1 .. j - 1 : Before(a[i], a[j], Gap(a[j].by, s))
    <2>1. j \in Nat /\ j + 1 \in 1 .. Len(c) /\ a[j] = c[j + 1] /\ 1 \in 1 .. (j + 1) - 1
      BY <1>1
    <2>2. \A i \in 1 .. j - 1 : i + 1 \in 1 .. (j + 1) - 1 /\ a[i] = c[i + 1]
      BY <1>1
    <2>3. /\ c[j + 1].n <= N[c[j + 1].by] /\ z[c[j + 1].by] + Gap(c[j + 1].by, s) <= c[j + 1].n
          /\ \A i \in 1 .. (j + 1) - 1 : Before(c[i], c[j + 1], Gap(c[j + 1].by, s))
      BY <2>1 DEF InLine
    <2>4. a[j].n <= N[a[j].by] /\ z[a[j].by] + Gap(a[j].by, s) <= a[j].n
      BY <2>1, <2>3
    <2>5. \A i \in 1 .. j - 1 : Before(a[i], a[j], Gap(a[j].by, s))
      BY <2>1, <2>2, <2>3
    <2>6. Before(h, a[j], Gap(a[j].by, s))
      BY <1>1, <2>1, <2>3
    <2>7. y[a[j].by] + Gap(a[j].by, s) <= a[j].n
      <3>1. a[j].by \in Thread
        BY <2>1, ChannelIs
      <3>q. QED BY <1>2, <2>4, <2>6, <3>1 DEF Before
    <2>q. QED BY <2>4, <2>5, <2>7
  <1>4. InLine(a, z, s, N) /\ InLine(a, y, s, N)
    BY <1>3 DEF InLine
  <1>5. h.n <= N[h.by]
    BY <1>1 DEF InLine
  <1>q. QED BY <1>4, <1>5 DEF a, h, y

LEMMA LineGrows ==
  ASSUME NEW c \in Seq(Event), NEW z, NEW s, NEW N \in [Thread -> Nat], NEW M \in [Thread -> Nat],
         \A t \in Thread : N[t] <= M[t], InLine(c, z, s, N)
  PROVE  InLine(c, z, s, M)
  <1>1. \A j \in 1 .. Len(c) : c[j].by \in Thread /\ c[j].n \in Nat
    BY ChannelIs
  <1>2. \A j \in 1 .. Len(c) : c[j].n <= M[c[j].by]
    BY <1>1 DEF InLine
  <1>q. QED BY <1>2 DEF InLine

LEMMA FollowsAppend ==
  ASSUME NEW c \in Seq(Event), NEW z, NEW e \in Event, NEW m \in Event, NEW s,
         Follows(c, z, e, s), Before(m, e, Gap(e.by, s))
  PROVE  Follows(Append(c, m), z, e, s)
  <1> DEFINE a == Append(c, m)
  <1>1. /\ Len(a) = Len(c) + 1 /\ Len(c) \in Nat /\ a[Len(c) + 1] = m
        /\ \A i \in 1 .. Len(c) : a[i] = c[i]
    BY AppendIs
  <1> HIDE DEF a
  <1>2. \A i \in 1 .. Len(a) : i \in 1 .. Len(c) \/ i = Len(c) + 1
    BY <1>1
  <1>3. Follows(a, z, e, s)
    BY <1>1, <1>2 DEF Follows
  <1>q. QED BY <1>3 DEF a

LEMMA FollowsTail ==
  ASSUME NEW c \in Seq(Event), NEW z \in [Thread -> Nat], NEW e \in Event, NEW s,
         c # <<>>, Follows(c, z, e, s)
  PROVE  /\ Follows(Tail(c), z, e, s)
         /\ Follows(Tail(c), [z EXCEPT ![Head(c).by] = Head(c).n], e, s)
  <1> DEFINE a == Tail(c)
             h == Head(c)
             y == [z EXCEPT ![h.by] = h.n]
  <1>1. /\ Len(c) \in Nat \ {0} /\ h = c[1]
        /\ \A i \in 1 .. Len(a) : i + 1 \in 1 .. Len(c) /\ a[i] = c[i + 1]
    BY TailIs
  <1>2. \A t \in Thread : y[t] = IF t = h.by THEN h.n ELSE z[t]
    OBVIOUS
  <1> HIDE DEF a, h, y
  <1>3. Before(h, e, Gap(e.by, s)) /\ \A i \in 1 .. Len(a) : Before(a[i], e, Gap(e.by, s))
    BY <1>1 DEF Follows
  <1>4. z[e.by] + Gap(e.by, s) <= e.n
    BY DEF Follows
  <1>5. y[e.by] + Gap(e.by, s) <= e.n
    BY <1>2, <1>3, <1>4, EventIs DEF Before
  <1>q. QED BY <1>3, <1>4, <1>5 DEF Follows, a, h, y
-----------------------------------------------------------------------------
(* Senders.                                                                *)

Phases == {"idle", "list", "send", "drop", "again", "redis"}

LEMMA SendingIs ==
  ASSUME NEW r \in Sending
  PROVE  /\ r.pc \in Phases /\ r.event \in Event /\ r.todo \subseteq Sub /\ r.to \in Sub
         /\ r.event.by \in Thread /\ r.event.n \in Nat
         /\ \A p \in Phases : /\ [r EXCEPT !.pc = p] \in Sending
                              /\ [r EXCEPT !.pc = p].pc = p /\ [r EXCEPT !.pc = p].event = r.event
                              /\ [r EXCEPT !.pc = p].todo = r.todo /\ [r EXCEPT !.pc = p].to = r.to
         /\ \A T \in SUBSET Sub : /\ [r EXCEPT !.todo = T] \in Sending
                                  /\ [r EXCEPT !.todo = T].pc = r.pc
                                  /\ [r EXCEPT !.todo = T].event = r.event
                                  /\ [r EXCEPT !.todo = T].todo = T /\ [r EXCEPT !.todo = T].to = r.to
         /\ \A s \in Sub : /\ [r EXCEPT !.to = s] \in Sending
                           /\ [r EXCEPT !.to = s].pc = r.pc
                           /\ [r EXCEPT !.to = s].event = r.event
                           /\ [r EXCEPT !.to = s].todo = r.todo /\ [r EXCEPT !.to = s].to = s
  <1>1. /\ r.pc \in Phases /\ r.event \in Event /\ r.todo \subseteq Sub /\ r.to \in Sub
        /\ r.event.by \in Thread /\ r.event.n \in Nat
    BY DEF Sending, Phases, Event
  <1>2. \A p \in Phases : /\ [r EXCEPT !.pc = p] \in Sending
                          /\ [r EXCEPT !.pc = p].pc = p /\ [r EXCEPT !.pc = p].event = r.event
                          /\ [r EXCEPT !.pc = p].todo = r.todo /\ [r EXCEPT !.pc = p].to = r.to
    BY DEF Sending, Phases
  <1>3. \A T \in SUBSET Sub : /\ [r EXCEPT !.todo = T] \in Sending
                              /\ [r EXCEPT !.todo = T].pc = r.pc
                              /\ [r EXCEPT !.todo = T].event = r.event
                              /\ [r EXCEPT !.todo = T].todo = T /\ [r EXCEPT !.todo = T].to = r.to
    BY DEF Sending
  <1>4. \A s \in Sub : /\ [r EXCEPT !.to = s] \in Sending
                       /\ [r EXCEPT !.to = s].pc = r.pc
                       /\ [r EXCEPT !.to = s].event = r.event
                       /\ [r EXCEPT !.to = s].todo = r.todo /\ [r EXCEPT !.to = s].to = s
    BY DEF Sending
  <1>q. QED BY <1>1, <1>2, <1>3, <1>4

LEMMA BroadcastIs ==
  ASSUME NEW e \in Event
  PROVE  /\ Broadcast(e) \in Sending /\ Broadcast(e).pc = "list"
         /\ Broadcast(e).event = e /\ Broadcast(e).todo = {}
  <1>1. (CHOOSE s \in Sub : TRUE) \in Sub
    BY HubAssumption
  <1>q. QED BY <1>1 DEF Broadcast, Sending

LEMMA QuietIs == Quiet \in Sending /\ Quiet.pc = "idle" /\ Quiet.todo = {}
  <1>1. NoEvent \in Event
    <2>1. (CHOOSE t \in Thread : TRUE) \in Thread
      BY HubAssumption
    <2>q. QED BY <2>1 DEF NoEvent, Event
  <1>2. Broadcast(NoEvent) \in Sending /\ Broadcast(NoEvent).todo = {}
    BY <1>1, BroadcastIs
  <1>3. "idle" \in Phases
    BY DEF Phases
  <1> DEFINE r == Broadcast(NoEvent)
  <1>4. r \in Sending /\ r.todo = {} /\ Quiet = [r EXCEPT !.pc = "idle"]
    BY <1>2 DEF Quiet
  <1> HIDE DEF r
  <1>q. QED BY <1>3, <1>4, SendingIs

LEMMA TypesAre ==
  ASSUME HubInv
  PROVE  /\ chan \in [Sub -> Seq(Event)] /\ seen \in [Sub -> [Thread -> Nat]]
         /\ sender \in [Sender -> Sending] /\ wire \in [Node -> Seq(Event)]
         /\ count \in [Thread -> Nat] /\ Buffer \in Nat \ {0}
         /\ \A s \in Sub : Len(chan[s]) <= Buffer /\ Len(chan[s]) \in Nat
         /\ \A x \in Sender : /\ sender[x] \in Sending /\ sender[x].pc \in Phases
                              /\ sender[x].event \in Event /\ sender[x].event.by \in Thread
                              /\ sender[x].event.n \in Nat
                              /\ sender[x].todo \subseteq Sub /\ sender[x].to \in Sub
  <1>1. /\ chan \in [Sub -> Seq(Event)] /\ seen \in [Sub -> [Thread -> Nat]]
        /\ sender \in [Sender -> Sending] /\ wire \in [Node -> Seq(Event)]
        /\ count \in [Thread -> Nat] /\ Buffer \in Nat \ {0}
        /\ \A s \in Sub : Len(chan[s]) <= Buffer
    BY HubAssumption DEF HubInv, HubParts, HubTypeOK
  <1>2. \A s \in Sub : Len(chan[s]) \in Nat
    BY <1>1
  <1>3. \A x \in Sender : sender[x] \in Sending
    BY <1>1
  <1>q. QED BY <1>1, <1>2, <1>3, SendingIs

LEMMA SenderIs ==
  /\ \A x \in Sender : \/ x \in Thread /\ x \notin Node /\ NodeAt(x) = NodeOf[x]
                       \/ x \in Node /\ x \notin Thread /\ NodeAt(x) = x
  /\ Thread \subseteq Sender /\ Node \subseteq Sender
  BY HubAssumption DEF Sender, NodeAt

\* One sender of a process at most has an event of a given publisher.
LEMMA OneSender ==
  ASSUME HubInv, NEW x \in Sender, NEW y \in Sender, x # y, Busy(x), Busy(y),
         NodeAt(x) = NodeAt(y)
  PROVE  sender[x].event.by # sender[y].event.by
  <1>1. /\ x \in Thread => sender[x].event.by = x
        /\ x \in Node => NodeOf[sender[x].event.by] # x
        /\ y \in Thread => sender[y].event.by = y
        /\ y \in Node => NodeOf[sender[y].event.by] # y
    BY DEF HubInv, HubParts, SendsOwn, Foreign
  <1>q. QED BY <1>1, SenderIs

\* A sender's own event and its listed channels.
LEMMA SendsOwnIs ==
  ASSUME HubInv, NEW x \in Sender
  PROVE  /\ Busy(x) => sender[x].event.n <= count[sender[x].event.by]
         /\ Busy(x) /\ x \in Thread => sender[x].event.by = x /\ sender[x].event.n = count[x]
         /\ Busy(x) /\ x \in Node => Foreign(x, sender[x].event)
         /\ \A s \in sender[x].todo : NodeOf[s] = NodeAt(x)
         /\ sender[x].pc \in {"drop", "again"} => sender[x].to \in sender[x].todo
  BY DEF HubInv, HubParts, SendsOwn

LEMMA PendingIs ==
  ASSUME HubInv, NEW x \in Sender, NEW s \in Sub, Pending(x, s)
  PROVE  Busy(x) /\ Follows(chan[s], seen[s], sender[x].event, s) /\ NodeOf[s] = NodeAt(x)
  BY DEF HubInv, Pending, Busy

\* A sender that goes on with its event, or is done.
Onward(x, r) ==
  /\ r \in Sending /\ sender' = [sender EXCEPT ![x] = r]
  /\ r.pc # "idle" => Busy(x) /\ r.event = sender[x].event
  /\ \A s \in r.todo : NodeOf[s] = NodeAt(x)
  /\ r.pc \in {"drop", "again"} => r.to \in r.todo
  /\ r.pc # "list"
  /\ \A s \in r.todo : r.pc \in {"send", "drop", "again"} => Pending(x, s)

\* No sender has anything new to say.
Calmer ==
  /\ sender' \in [Sender -> Sending]
  /\ \A y \in Sender : SendsOwn(y)'
  /\ \A y \in Sender, s \in Sub : Pending(y, s)' => Pending(y, s) /\ sender'[y].event = sender[y].event
  /\ \A y \in Sender : Busy(y)' => Busy(y) /\ sender'[y].event = sender[y].event

LEMMA OnwardIs ==
  ASSUME HubInv, NEW x \in Sender, NEW r, Onward(x, r), count' = count
  PROVE  /\ Calmer /\ sender'[x] = r
         /\ \A y \in Sender : y # x => sender'[y] = sender[y]
  <1>1. /\ sender' \in [Sender -> Sending] /\ sender'[x] = r /\ r \in Sending
        /\ \A y \in Sender : y # x => sender'[y] = sender[y]
    BY TypesAre DEF Onward
  <1>2. ASSUME NEW y \in Sender
        PROVE  SendsOwn(y)'
    <2>1. CASE y = x
      BY <1>1, <2>1, SendsOwnIs DEF SendsOwn, Onward, Busy, Foreign, NodeAt
    <2>2. CASE y # x
      BY <1>1, <2>2, SendsOwnIs DEF SendsOwn, Busy, Foreign, NodeAt
    <2>q. QED BY <2>1, <2>2
  <1>3. ASSUME NEW y \in Sender, NEW s \in Sub, Pending(y, s)'
        PROVE  Pending(y, s) /\ sender'[y].event = sender[y].event
    <2>1. CASE y = x
      BY <1>1, <1>3, <2>1 DEF Pending, Onward, NodeAt
    <2>2. CASE y # x
      BY <1>1, <1>3, <2>2 DEF Pending, NodeAt
    <2>q. QED BY <2>1, <2>2
  <1>4. ASSUME NEW y \in Sender, Busy(y)'
        PROVE  Busy(y) /\ sender'[y].event = sender[y].event
    BY <1>1, <1>4 DEF Busy, Onward
  <1>5. Calmer
    BY <1>1, <1>2, <1>3, <1>4 DEF Calmer
  <1>q. QED BY <1>1, <1>5
LEMMA StillCalm ==
  ASSUME HubInv, sender' = sender, count' = count
  PROVE  Calmer
  <1>1. ASSUME NEW y \in Sender
        PROVE  SendsOwn(y)'
    BY SendsOwnIs DEF SendsOwn, Busy, Foreign, NodeAt
  <1>2. ASSUME NEW y \in Sender, NEW s \in Sub, Pending(y, s)'
        PROVE  Pending(y, s) /\ sender'[y].event = sender[y].event
    BY <1>2 DEF Pending, NodeAt
  <1>3. ASSUME NEW y \in Sender, Busy(y)'
        PROVE  Busy(y) /\ sender'[y].event = sender[y].event
    BY <1>3 DEF Busy
  <1>q. QED BY <1>1, <1>2, <1>3, TypesAre DEF Calmer

-----------------------------------------------------------------------------
(* What a step does to the channels.                                       *)

\* They stay in order, and behind them fits what fitted before.
ChannelsKeep ==
  /\ chan' \in [Sub -> Seq(Event)] /\ \A s \in Sub : Len(chan'[s]) <= Buffer
  /\ seen' \in [Sub -> [Thread -> Nat]]
  /\ \A s \in Sub, t \in Thread : seen'[s][t] <= count[t]
  /\ \A s \in Sub : InLine(chan'[s], seen'[s], s, count)
  /\ \A y \in Sender, s \in Sub :
       Pending(y, s)' => Follows(chan'[s], seen'[s], sender[y].event, s)
  /\ \A n \in Node : \A j \in 1 .. Len(wire[n]) : Foreign(n, wire[n][j]) =>
       \A s \in Sub : NodeOf[s] = n => Follows(chan'[s], seen'[s], wire[n][j], s)

LEMMA CalmParts ==
  ASSUME HubInv, Calmer, ChannelsKeep, wire' \in [Node -> Seq(Event)], count' = count,
         linked' \subseteq Node, stream' \in [Sub -> {"new", "open", "closed"}]
  PROVE  /\ HubParts'
         /\ \A x \in Sender, s \in Sub :
              Pending(x, s)' => Follows(chan'[s], seen'[s], sender'[x].event, s)
  <1>1. HubTypeOK' /\ chan' \in [Sub -> Seq(Event)]
    BY DEF HubTypeOK, HubInv, HubParts, Calmer, ChannelsKeep
  <1>2. HubParts'
    BY <1>1 DEF HubParts, Calmer, ChannelsKeep
  <1>3. ASSUME NEW x \in Sender, NEW s \in Sub, Pending(x, s)'
        PROVE  Follows(chan'[s], seen'[s], sender'[x].event, s)
    BY <1>3 DEF Calmer, ChannelsKeep
  <1>q. QED BY <1>2, <1>3

\* What was on the wire stays in order.
LEMMA CalmWire ==
  ASSUME HubInv, Calmer, ChannelsKeep, NEW n \in Node, NEW j \in 1 .. Len(wire[n])
  PROVE  /\ wire[n][j].n <= count[wire[n][j].by]
         /\ \A i \in 1 .. j - 1 : Before(wire[n][i], wire[n][j], 0)
         /\ Busy(n)' => Before(sender'[n].event, wire[n][j], 0)
         /\ Foreign(n, wire[n][j]) =>
              \A s \in Sub : NodeOf[s] = n => Follows(chan'[s], seen'[s], wire[n][j], s)
  <1>1. /\ wire[n][j].n <= count[wire[n][j].by]
        /\ \A i \in 1 .. j - 1 : Before(wire[n][i], wire[n][j], 0)
        /\ Busy(n) => Before(sender[n].event, wire[n][j], 0)
    BY DEF HubInv, WireInOrder
  <1>2. Busy(n)' => Busy(n) /\ sender'[n].event = sender[n].event
    BY SenderIs DEF Calmer
  <1>q. QED BY <1>1, <1>2 DEF ChannelsKeep

LEMMA CalmKeeps ==
  ASSUME HubInv, Calmer, ChannelsKeep, wire' = wire, count' = count, linked' \subseteq Node,
         stream' \in [Sub -> {"new", "open", "closed"}], \A x \in Sender : MadeRoom(x)'
  PROVE  HubInv'
  <1>1. /\ HubParts'
        /\ \A x \in Sender, s \in Sub :
             Pending(x, s)' => Follows(chan'[s], seen'[s], sender'[x].event, s)
    BY CalmParts, TypesAre
  <1>2. ASSUME NEW n \in Node
        PROVE  WireInOrder(n)'
    BY CalmWire DEF WireInOrder, Foreign
  <1>q. QED BY <1>1, <1>2 DEF HubInv

LEMMA WireFollows ==
  ASSUME HubInv, NEW n \in Node, NEW j \in 1 .. Len(wire[n]), Foreign(n, wire[n][j]),
         NEW s \in Sub, NodeOf[s] = n
  PROVE  wire[n][j] \in Event /\ Follows(chan[s], seen[s], wire[n][j], s)
  <1>1. wire[n] \in Seq(Event)
    BY TypesAre
  <1>q. QED BY <1>1, ChannelIs DEF HubInv, WireInOrder

LEMMA ChannelsStay ==
  ASSUME HubInv, Calmer, chan' = chan, seen' = seen
  PROVE  ChannelsKeep
  <1>1. \A y \in Sender, s \in Sub : Pending(y, s)' => Follows(chan[s], seen[s], sender[y].event, s)
    BY PendingIs DEF Calmer
  <1>q. QED BY <1>1, TypesAre, WireFollows DEF ChannelsKeep, HubInv, HubParts

\* A stream or a sender takes the oldest event of one channel.
LEMMA ChannelsShrink ==
  ASSUME HubInv, Calmer, NEW s \in Sub, chan[s] # <<>>,
         chan' = [chan EXCEPT ![s] = Tail(chan[s])],
         seen' = seen \/ seen' = [seen EXCEPT ![s] = [seen[s] EXCEPT ![Head(chan[s]).by] = Head(chan[s]).n]]
  PROVE  ChannelsKeep /\ Len(chan'[s]) < Buffer
  <1> DEFINE h == Head(chan[s])
             z == [seen[s] EXCEPT ![h.by] = h.n]
  <1>1. /\ chan[s] \in Seq(Event) /\ seen[s] \in [Thread -> Nat]
        /\ Tail(chan[s]) \in Seq(Event) /\ Len(Tail(chan[s])) = Len(chan[s]) - 1
        /\ Len(chan[s]) \in Nat /\ Len(chan[s]) <= Buffer /\ Buffer \in Nat
        /\ h.by \in Thread /\ h.n \in Nat /\ z \in [Thread -> Nat]
    <2>1. chan[s] \in Seq(Event) /\ seen[s] \in [Thread -> Nat]
      BY TypesAre
    <2>2. h.by \in Thread /\ h.n \in Nat
      BY <2>1, TailIs, EventIs
    <2>q. QED BY <2>1, <2>2, TailIs, TypesAre
  <1>0. seen' = seen \/ seen' = [seen EXCEPT ![s] = z]
    OBVIOUS
  <1>a. /\ InLine(Tail(chan[s]), seen[s], s, count) /\ InLine(Tail(chan[s]), z, s, count)
        /\ h.n <= count[h.by]
    <2>1. InLine(chan[s], seen[s], s, count)
      BY DEF HubInv, HubParts
    <2>2. count \in [Thread -> Nat]
      BY TypesAre
    <2>q. QED BY <1>1, <2>1, <2>2, LineTail
  <1>b. ASSUME NEW e \in Event, Follows(chan[s], seen[s], e, s)
        PROVE  Follows(Tail(chan[s]), seen[s], e, s) /\ Follows(Tail(chan[s]), z, e, s)
    BY <1>1, <1>b, FollowsTail
  <1>c. \A t \in Thread : z[t] = IF t = h.by THEN h.n ELSE seen[s][t]
    BY <1>1
  <1> HIDE DEF h, z
  <1>2. /\ chan' \in [Sub -> Seq(Event)] /\ chan'[s] = Tail(chan[s])
        /\ \A q \in Sub : q # s => chan'[q] = chan[q]
    BY <1>1, TypesAre
  <1>3. /\ seen' \in [Sub -> [Thread -> Nat]] /\ (seen'[s] = seen[s] \/ seen'[s] = z)
        /\ \A q \in Sub : q # s => seen'[q] = seen[q]
    BY <1>0, <1>1, TypesAre
  <1>4. InLine(chan'[s], seen'[s], s, count)
    BY <1>2, <1>3, <1>a
  <1>5. ASSUME NEW q \in Sub, NEW t \in Thread
        PROVE  seen'[q][t] <= count[t]
    <2>1. seen[q][t] <= count[t]
      BY DEF HubInv, HubParts
    <2>2. CASE seen'[q] = seen[q]
      BY <2>1, <2>2
    <2>3. CASE q = s /\ seen'[s] = z
      BY <1>a, <1>c, <2>1, <2>3
    <2>q. QED BY <1>3, <2>2, <2>3
  <1>6. \A e \in Event : Follows(chan[s], seen[s], e, s) => Follows(chan'[s], seen'[s], e, s)
    BY <1>2, <1>3, <1>b
  <1>7. ASSUME NEW q \in Sub, NEW e \in Event, Follows(chan[q], seen[q], e, q)
        PROVE  Follows(chan'[q], seen'[q], e, q)
    BY <1>2, <1>3, <1>6, <1>7
  <1>8. \A q \in Sub : InLine(chan'[q], seen'[q], q, count) /\ Len(chan'[q]) <= Buffer
    <2>1. \A q \in Sub : InLine(chan[q], seen[q], q, count) /\ Len(chan[q]) <= Buffer
      BY TypesAre DEF HubInv, HubParts
    <2>2. Len(chan'[s]) <= Buffer
      BY <1>1, <1>2
    <2>q. QED BY <1>2, <1>3, <1>4, <2>1, <2>2
  <1>9. \A y \in Sender, q \in Sub :
          Pending(y, q)' => Follows(chan'[q], seen'[q], sender[y].event, q)
    BY <1>7, PendingIs, TypesAre DEF Calmer
  <1>10. \A n \in Node : \A j \in 1 .. Len(wire[n]) : Foreign(n, wire[n][j]) =>
           \A q \in Sub : NodeOf[q] = n => Follows(chan'[q], seen'[q], wire[n][j], q)
    BY <1>7, WireFollows
  <1>11. Len(chan'[s]) < Buffer
    BY <1>1, <1>2
  <1>q. QED BY <1>2, <1>3, <1>5, <1>8, <1>9, <1>10, <1>11 DEF ChannelsKeep

\* A sender puts its event into a channel with room and crosses it out.
LEMMA ChannelGrows ==
  ASSUME HubInv, Calmer, NEW x \in Sender, NEW s \in Sub, Pending(x, s), ~Pending(x, s)', Room(s),
         chan' = [chan EXCEPT ![s] = Append(chan[s], sender[x].event)], seen' = seen
  PROVE  ChannelsKeep
  <1> DEFINE e == sender[x].event
             a == Append(chan[s], e)
  <1>1. /\ chan[s] \in Seq(Event) /\ seen[s] \in [Thread -> Nat] /\ e \in Event
        /\ Len(chan[s]) \in Nat /\ Buffer \in Nat /\ Len(chan[s]) < Buffer
    BY TypesAre DEF Room
  <1>2. a \in Seq(Event) /\ Len(a) <= Buffer
    BY <1>1, AppendIs
  <1>3. /\ chan' \in [Sub -> Seq(Event)] /\ chan'[s] = a
        /\ \A q \in Sub : q # s => chan'[q] = chan[q]
    BY <1>2, TypesAre
  <1>4. Busy(x) /\ Follows(chan[s], seen[s], e, s) /\ NodeOf[s] = NodeAt(x) /\ e.n <= count[e.by]
    BY PendingIs, SendsOwnIs
  <1>5. InLine(a, seen[s], s, count)
    <2>1. InLine(chan[s], seen[s], s, count)
      BY DEF HubInv, HubParts
    <2> HIDE DEF e
    <2>q. QED BY <1>1, <1>4, <2>1, LineAppend, TypesAre
  <1>6. ASSUME NEW m \in Event, Follows(chan[s], seen[s], m, s), Before(e, m, Gap(m.by, s))
        PROVE  Follows(a, seen[s], m, s)
    BY <1>1, <1>6, FollowsAppend
  <1> HIDE DEF e, a
  <1>7. \A q \in Sub : InLine(chan'[q], seen'[q], q, count) /\ Len(chan'[q]) <= Buffer
    <2>1. \A q \in Sub : InLine(chan[q], seen[q], q, count) /\ Len(chan[q]) <= Buffer
      BY TypesAre DEF HubInv, HubParts
    <2>q. QED BY <1>2, <1>3, <1>5, <2>1
  <1>8. ASSUME NEW y \in Sender, NEW q \in Sub, Pending(y, q)'
        PROVE  Follows(chan'[q], seen'[q], sender[y].event, q)
    <2>1. /\ Busy(y) /\ Follows(chan[q], seen[q], sender[y].event, q)
          /\ NodeOf[q] = NodeAt(y) /\ sender[y].event \in Event
      BY <1>8, PendingIs, TypesAre DEF Calmer
    <2>2. CASE q = s
      <3>1. y # x
        BY <1>8, <2>2
      <3>2. e.by # sender[y].event.by
        BY <1>4, <2>1, <2>2, <3>1, OneSender DEF e
      <3>q. QED BY <1>3, <1>6, <2>1, <2>2, <3>2 DEF Before
    <2>3. CASE q # s
      BY <1>3, <2>1, <2>3
    <2>q. QED BY <2>2, <2>3
  <1>9. ASSUME NEW n \in Node, NEW j \in 1 .. Len(wire[n]), Foreign(n, wire[n][j]),
               NEW q \in Sub, NodeOf[q] = n
        PROVE  Follows(chan'[q], seen'[q], wire[n][j], q)
    <2>1. wire[n][j] \in Event /\ Follows(chan[q], seen[q], wire[n][j], q)
      BY <1>9, WireFollows
    <2>2. CASE q = s
      <3>1. Gap(wire[n][j].by, s) = 0
        BY <1>9, <2>2 DEF Gap, Foreign
      <3>2. Before(e, wire[n][j], 0)
        <4>1. CASE x \in Node
          <5>1. x = n
            BY <1>4, <1>9, <2>2, <4>1, SenderIs
          <5>q. QED BY <1>4, <5>1 DEF HubInv, WireInOrder, e
        <4>2. CASE x \in Thread
          <5>1. e.by = x /\ NodeOf[x] = n
            BY <1>4, <1>9, <2>2, <4>2, SendsOwnIs, SenderIs DEF e
          <5>q. QED BY <1>9, <5>1 DEF Before, Foreign
        <4>q. QED BY <4>1, <4>2, SenderIs
      <3>q. QED BY <1>3, <1>6, <2>1, <2>2, <3>1, <3>2
    <2>3. CASE q # s
      BY <1>3, <2>1, <2>3
    <2>q. QED BY <2>2, <2>3
  <1>10. \A q \in Sub, t \in Thread : seen[q][t] <= count[t]
    BY DEF HubInv, HubParts
  <1>q. QED BY <1>3, <1>7, <1>8, <1>9, <1>10, TypesAre DEF ChannelsKeep
-----------------------------------------------------------------------------
(* Each action keeps the invariant.                                        *)

LEMMA SenderTwice ==
  ASSUME sender \in [Sender -> Sending], NEW x \in Sender, NEW p, NEW v
  PROVE  /\ [sender EXCEPT ![x].pc = p, ![x].todo = v]
              = [sender EXCEPT ![x] = [[sender[x] EXCEPT !.pc = p] EXCEPT !.todo = v]]
         /\ [sender EXCEPT ![x].pc = p, ![x].to = v]
              = [sender EXCEPT ![x] = [[sender[x] EXCEPT !.pc = p] EXCEPT !.to = v]]
  OBVIOUS

LEMMA ListSubsKeeps ==
  ASSUME HubInv, NEW x \in Sender, ListSubs(x)
  PROVE  HubInv'
  <1> DEFINE T == {s \in Sub : stream[s] = "open" /\ NodeOf[s] = NodeAt(x)}
             q == [sender[x] EXCEPT !.pc = "send"]
             r == [q EXCEPT !.todo = T]
  <1>1. /\ sender[x].pc = "list" /\ UNCHANGED <<stream, chan, seen, wire, linked, count>>
        /\ sender' = [sender EXCEPT ![x] = r]
    BY SenderTwice, TypesAre DEF ListSubs, At
  <1>2. T \in SUBSET Sub /\ \A s \in T : NodeOf[s] = NodeAt(x)
    OBVIOUS
  <1>3. q \in Sending /\ q.pc = "send" /\ q.event = sender[x].event
    BY TypesAre, SendingIs DEF Phases
  <1> HIDE DEF T, q
  <1>4. r \in Sending /\ r.pc = "send" /\ r.event = sender[x].event /\ r.todo = T
    BY <1>2, <1>3, SendingIs
  <1> HIDE DEF r
  <1>5. Onward(x, r)
    BY <1>1, <1>2, <1>4 DEF Onward, Busy, Pending
  <1>6. /\ Calmer /\ sender'[x] = r
        /\ \A y \in Sender : y # x => sender'[y] = sender[y]
    BY <1>1, <1>5, OnwardIs
  <1>7. ChannelsKeep
    BY <1>1, <1>6, ChannelsStay
  <1>8. ASSUME NEW y \in Sender
        PROVE  MadeRoom(y)'
    BY <1>1, <1>4, <1>6 DEF HubInv, MadeRoom, Room
  <1>q. QED BY <1>1, <1>6, <1>7, <1>8, CalmKeeps DEF HubInv, HubParts, HubTypeOK

\* A full channel: nothing is sent yet.
LEMMA SendFullKeeps ==
  ASSUME HubInv, NEW x \in Sender, NEW s \in Sub, Send(x, s), ~Room(s)
  PROVE  HubInv'
  <1> DEFINE q == [sender[x] EXCEPT !.pc = "drop"]
             r == [q EXCEPT !.to = s]
  <1>1. /\ sender[x].pc = "send" /\ UNCHANGED <<stream, chan, seen, wire, linked, count>>
        /\ sender' = [sender EXCEPT ![x] = r] /\ s \in sender[x].todo
    BY SenderTwice, TypesAre DEF Send, At
  <1>2. q \in Sending /\ q.pc = "drop" /\ q.event = sender[x].event /\ q.todo = sender[x].todo
    <2>1. sender[x] \in Sending /\ "drop" \in Phases
      BY TypesAre DEF Phases
    <2>q. QED BY <2>1, SendingIs
  <1> HIDE DEF q
  <1>3. /\ r \in Sending /\ r.pc = "drop" /\ r.event = sender[x].event
        /\ r.todo = sender[x].todo /\ r.to = s
    BY <1>2, SendingIs
  <1> HIDE DEF r
  <1>4. Onward(x, r)
    BY <1>1, <1>3, SendsOwnIs DEF Onward, Busy, Pending
  <1>5. /\ Calmer /\ sender'[x] = r
        /\ \A y \in Sender : y # x => sender'[y] = sender[y]
    BY <1>1, <1>4, OnwardIs
  <1>6. ChannelsKeep
    BY <1>1, <1>5, ChannelsStay
  <1>7. ASSUME NEW y \in Sender
        PROVE  MadeRoom(y)'
    BY <1>1, <1>3, <1>5 DEF HubInv, MadeRoom, Room
  <1>q. QED BY <1>1, <1>5, <1>6, <1>7, CalmKeeps DEF HubInv, HubParts, HubTypeOK

\* Who has an event of another publisher for the same channel.
LEMMA OtherTook ==
  ASSUME HubInv, NEW x \in Sender, NEW s \in Sub, Pending(x, s),
         chan' = [chan EXCEPT ![s] = Append(chan[s], sender[x].event)],
         NEW y \in Sender, y # x, sender'[y] = sender[y]
  PROVE  MadeRoom(y)'
  <1> SUFFICES ASSUME sender[y].pc = "again"
               PROVE  LET buffered == chan'[sender[y].to]
                      IN  \/ Len(chan'[sender[y].to]) < Buffer
                          \/ buffered[Len(buffered)].by # sender[y].event.by
    BY DEF MadeRoom, Room
  <1> DEFINE q == sender[y].to
             e == sender[x].event
  <1>1. /\ Len(chan[q]) < Buffer \/ chan[q][Len(chan[q])].by # sender[y].event.by
        /\ q \in Sub /\ NodeOf[q] = NodeAt(y)
    BY SendsOwnIs, TypesAre DEF HubInv, MadeRoom, Room
  <1>2. CASE q = s
    <2>1. e.by # sender[y].event.by
      BY <1>1, <1>2, PendingIs, OneSender DEF Busy
    <2>2. chan[s] \in Seq(Event) /\ e \in Event
      BY TypesAre
    <2> HIDE DEF e
    <2>3. Append(chan[s], e)[Len(Append(chan[s], e))] = e
      BY <2>2, AppendIs
    <2>4. chan'[s] = Append(chan[s], e)
      BY TypesAre DEF e
    <2>q. QED BY <1>2, <2>1, <2>3, <2>4
  <1>3. CASE q # s
    BY <1>1, <1>3, TypesAre
  <1>q. QED BY <1>2, <1>3

LEMMA SendRoomKeeps ==
  ASSUME HubInv, NEW x \in Sender, NEW s \in Sub, Send(x, s), Room(s)
  PROVE  HubInv'
  <1> DEFINE T == sender[x].todo \ {s}
             r == [sender[x] EXCEPT !.todo = T]
  <1>1. /\ sender[x].pc = "send" /\ UNCHANGED <<stream, seen, wire, linked, count>>
        /\ sender' = [sender EXCEPT ![x] = r] /\ s \in sender[x].todo
        /\ chan' = [chan EXCEPT ![s] = Append(chan[s], sender[x].event)]
    BY TypesAre DEF Send, At
  <1>2. T \in SUBSET Sub /\ sender[x] \in Sending
    BY TypesAre
  <1> HIDE DEF T
  <1>3. r \in Sending /\ r.pc = "send" /\ r.event = sender[x].event /\ r.todo = T
    BY <1>1, <1>2, SendingIs
  <1> HIDE DEF r
  <1> USE DEF T
  <1>4. Onward(x, r) /\ Pending(x, s)
    BY <1>1, <1>3, SendsOwnIs DEF Onward, Busy, Pending
  <1>5. /\ Calmer /\ sender'[x] = r
        /\ \A y \in Sender : y # x => sender'[y] = sender[y]
    BY <1>1, <1>4, OnwardIs
  <1>6. ~Pending(x, s)'
    BY <1>3, <1>5 DEF Pending
  <1>7. ChannelsKeep
    BY <1>1, <1>4, <1>5, <1>6, ChannelGrows
  <1>8. ASSUME NEW y \in Sender
        PROVE  MadeRoom(y)'
    <2>1. CASE y = x
      BY <1>3, <1>5, <2>1 DEF MadeRoom
    <2>2. CASE y # x
      BY <1>1, <1>4, <1>5, <2>2, OtherTook
    <2>q. QED BY <2>1, <2>2
  <1>q. QED BY <1>1, <1>5, <1>7, <1>8, CalmKeeps DEF HubInv, HubParts, HubTypeOK
LEMMA DropKeeps ==
  ASSUME HubInv, NEW x \in Sender, Drop(x)
  PROVE  HubInv'
  <1> DEFINE s == sender[x].to
             r == [sender[x] EXCEPT !.pc = "again"]
  <1>1. /\ sender[x].pc = "drop" /\ UNCHANGED <<stream, seen, wire, linked, count>>
        /\ sender' = [sender EXCEPT ![x] = r]
        /\ chan' = [chan EXCEPT ![s] = IF chan[s] = <<>> THEN chan[s] ELSE Tail(chan[s])]
    BY TypesAre DEF Drop, At, DropOldest
  <1>2. /\ r \in Sending /\ r.pc = "again" /\ r.event = sender[x].event
        /\ r.todo = sender[x].todo /\ r.to = s
    BY TypesAre, SendingIs DEF Phases
  <1> HIDE DEF r
  <1>3. Onward(x, r)
    BY <1>1, <1>2, SendsOwnIs DEF Onward, Busy, Pending
  <1>4. /\ Calmer /\ sender'[x] = r
        /\ \A y \in Sender : y # x => sender'[y] = sender[y]
    BY <1>1, <1>3, OnwardIs
  <1>5. s \in Sub /\ chan[s] \in Seq(Event) /\ Buffer \in Nat \ {0} /\ chan \in [Sub -> Seq(Event)]
    BY TypesAre
  <1> HIDE DEF s
  <1>6. ChannelsKeep /\ Len(chan'[s]) < Buffer
    <2>1. CASE chan[s] = <<>>
      <3>1. chan' = chan /\ Len(chan[s]) = 0
        BY <1>1, <1>5, <2>1
      <3>q. QED BY <1>1, <1>4, <1>5, <3>1, ChannelsStay
    <2>2. CASE chan[s] # <<>>
      <3>1. chan' = [chan EXCEPT ![s] = Tail(chan[s])]
        BY <1>1, <2>2
      <3>q. QED BY <1>1, <1>4, <1>5, <2>2, <3>1, ChannelsShrink
    <2>q. QED BY <2>1, <2>2
  <1>7. ASSUME NEW y \in Sender
        PROVE  MadeRoom(y)'
    <2>1. CASE sender'[y].to = s
      BY <1>6, <2>1 DEF MadeRoom, Room
    <2>2. CASE sender'[y].to # s
      <3>1. y # x /\ sender'[y] = sender[y]
        BY <1>2, <1>4, <2>2
      <3>2. chan'[sender[y].to] = chan[sender[y].to]
        BY <1>1, <1>5, <2>2, <3>1, TypesAre
      <3>q. QED BY <3>1, <3>2 DEF HubInv, MadeRoom, Room
    <2>q. QED BY <2>1, <2>2
  <1>q. QED BY <1>1, <1>4, <1>6, <1>7, CalmKeeps DEF HubInv, HubParts, HubTypeOK

\* The second attempt, with or without a place.
LEMMA AgainKeeps ==
  ASSUME HubInv, NEW x \in Sender, Again(x)
  PROVE  HubInv'
  <1>0. PICK s \in Sub : s = sender[x].to
    BY TypesAre
  <1> DEFINE T == sender[x].todo \ {s}
             q == [sender[x] EXCEPT !.pc = "send"]
             r == [q EXCEPT !.todo = T]
  <1>1. /\ sender[x].pc = "again" /\ UNCHANGED <<stream, seen, wire, linked, count>>
        /\ IF Room(s) THEN chan' = [chan EXCEPT ![s] = Append(chan[s], sender[x].event)]
                      ELSE chan' = chan
    BY <1>0 DEF Again, At
  <1>a. sender' = [sender EXCEPT ![x] = r]
    <2>1. sender' = [sender EXCEPT ![x].pc = "send", ![x].todo = T]
      BY <1>0, TypesAre DEF Again
    <2> HIDE DEF T
    <2>q. QED BY <2>1, SenderTwice, TypesAre
  <1>2. T \in SUBSET Sub /\ s \in Sub /\ s \in sender[x].todo /\ s \notin T /\ T \subseteq sender[x].todo
    <2>1. s \in sender[x].todo
      BY <1>0, <1>1, SendsOwnIs
    <2>2. sender[x].todo \in SUBSET Sub
      BY TypesAre
    <2>q. QED BY <1>0, <2>1, <2>2
  <1>3. q \in Sending /\ q.pc = "send" /\ q.event = sender[x].event
    <2>1. sender[x] \in Sending /\ "send" \in Phases
      BY TypesAre DEF Phases
    <2>q. QED BY <2>1, SendingIs
  <1> HIDE DEF T, q
  <1>4. r \in Sending /\ r.pc = "send" /\ r.event = sender[x].event /\ r.todo = T
    BY <1>2, <1>3, SendingIs
  <1> HIDE DEF r
  <1>5. Onward(x, r) /\ Pending(x, s)
    BY <1>1, <1>a, <1>2, <1>4, SendsOwnIs DEF Onward, Busy, Pending
  <1>6. /\ Calmer /\ sender'[x] = r
        /\ \A y \in Sender : y # x => sender'[y] = sender[y]
    BY <1>1, <1>5, OnwardIs
  <1>7. ~Pending(x, s)'
    BY <1>2, <1>4, <1>6 DEF Pending
  <1>8. ChannelsKeep
    <2>1. CASE Room(s)
      BY <1>1, <1>2, <1>5, <1>6, <1>7, <2>1, ChannelGrows
    <2>2. CASE ~Room(s)
      BY <1>1, <1>6, <2>2, ChannelsStay
    <2>q. QED BY <2>1, <2>2
  <1>9. ASSUME NEW y \in Sender
        PROVE  MadeRoom(y)'
    <2>1. CASE y = x
      BY <1>4, <1>6, <2>1 DEF MadeRoom
    <2>2. CASE y # x /\ Room(s)
      BY <1>1, <1>2, <1>5, <1>6, <2>2, OtherTook
    <2>3. CASE y # x /\ ~Room(s)
      BY <1>1, <1>6, <2>3 DEF HubInv, MadeRoom, Room
    <2>q. QED BY <2>1, <2>2, <2>3
  <1>q. QED BY <1>1, <1>6, <1>8, <1>9, CalmKeeps DEF HubInv, HubParts, HubTypeOK

LEMMA SentKeeps ==
  ASSUME HubInv, NEW x \in Sender, Sent(x)
  PROVE  HubInv'
  <1> DEFINE r == IF x \in Thread THEN [sender[x] EXCEPT !.pc = "redis"] ELSE Quiet
  <1>1. /\ sender[x].pc = "send" /\ sender[x].todo = {} /\ sender' = [sender EXCEPT ![x] = r]
        /\ UNCHANGED <<stream, chan, seen, wire, linked, count>>
    BY DEF Sent, At
  <1>2. /\ r \in Sending /\ r.pc \in {"redis", "idle"} /\ r.todo = {}
        /\ r.pc = "redis" => r.event = sender[x].event
    <2>1. CASE x \in Thread
      <3>1. r = [sender[x] EXCEPT !.pc = "redis"]
        BY <2>1
      <3> HIDE DEF r
      <3>2. "redis" \in Phases /\ sender[x] \in Sending
        BY TypesAre DEF Phases
      <3>q. QED BY <1>1, <3>1, <3>2, SendingIs
    <2>2. CASE x \notin Thread
      BY <2>2, QuietIs
    <2>q. QED BY <2>1, <2>2
  <1> HIDE DEF r
  <1>3. Onward(x, r)
    BY <1>1, <1>2 DEF Onward, Busy, Pending
  <1>4. /\ Calmer /\ sender'[x] = r
        /\ \A y \in Sender : y # x => sender'[y] = sender[y]
    BY <1>1, <1>3, OnwardIs
  <1>5. ChannelsKeep
    BY <1>1, <1>4, ChannelsStay
  <1>6. ASSUME NEW y \in Sender
        PROVE  MadeRoom(y)'
    BY <1>1, <1>2, <1>4 DEF HubInv, MadeRoom, Room
  <1>q. QED BY <1>1, <1>4, <1>5, <1>6, CalmKeeps DEF HubInv, HubParts, HubTypeOK

LEMMA ReceiveKeeps ==
  ASSUME HubInv, NEW s \in Sub, Receive(s)
  PROVE  HubInv'
  <1>1. /\ chan[s] # <<>> /\ chan' = [chan EXCEPT ![s] = Tail(chan[s])]
        /\ seen' = [seen EXCEPT ![s] = [seen[s] EXCEPT ![Head(chan[s]).by] = Head(chan[s]).n]]
        /\ UNCHANGED <<stream, sender, wire, linked, count>>
    BY TypesAre DEF Receive
  <1>2. Calmer
    BY <1>1, StillCalm
  <1>3. ChannelsKeep /\ Len(chan'[s]) < Buffer
    BY <1>1, <1>2, ChannelsShrink
  <1>4. ASSUME NEW y \in Sender
        PROVE  MadeRoom(y)'
    <2>1. CASE sender[y].to = s
      BY <1>1, <1>3, <2>1 DEF MadeRoom, Room
    <2>2. CASE sender[y].to # s
      <3>1. chan'[sender[y].to] = chan[sender[y].to]
        BY <1>1, <2>2, TypesAre
      <3>q. QED BY <1>1, <3>1 DEF HubInv, MadeRoom, Room
    <2>q. QED BY <2>1, <2>2
  <1>q. QED BY <1>1, <1>2, <1>3, <1>4, CalmKeeps DEF HubInv, HubParts, HubTypeOK

\* Steps of which neither channels nor senders know.
LEMMA AsideKeeps ==
  ASSUME HubInv, UNCHANGED <<chan, seen, sender, count>>, wire' = wire, linked' \subseteq Node,
         stream' \in [Sub -> {"new", "open", "closed"}]
  PROVE  HubInv'
  <1>1. Calmer
    BY StillCalm
  <1>2. ChannelsKeep
    BY <1>1, ChannelsStay
  <1>3. ASSUME NEW y \in Sender
        PROVE  MadeRoom(y)'
    BY DEF HubInv, MadeRoom, Room
  <1>q. QED BY <1>1, <1>2, <1>3, CalmKeeps

LEMMA StreamKeeps ==
  ASSUME HubInv, NEW s \in Sub, Subscribe(s) \/ Cancel(s)
  PROVE  HubInv'
  <1>1. /\ UNCHANGED <<chan, seen, sender, wire, linked, count>>
        /\ stream' = [stream EXCEPT ![s] = "open"] \/ stream' = [stream EXCEPT ![s] = "closed"]
    BY DEF Subscribe, Cancel
  <1>q. QED BY <1>1, AsideKeeps DEF HubInv, HubParts, HubTypeOK

LEMMA LinkKeeps ==
  ASSUME HubInv, NEW n \in Node, Link(n)
  PROVE  HubInv'
  BY AsideKeeps DEF Link, HubInv, HubParts, HubTypeOK
LEMMA UnlinkKeeps ==
  ASSUME HubInv, NEW n \in Node, Unlink(n)
  PROVE  HubInv'
  <1>1. /\ UNCHANGED <<stream, chan, seen, sender, count>> /\ linked' \subseteq Node
        /\ wire' = [wire EXCEPT ![n] = <<>>]
    BY DEF Unlink, HubInv, HubParts, HubTypeOK
  <1>2. wire' \in [Node -> Seq(Event)] /\ Len(wire'[n]) = 0
        /\ \A m \in Node : m # n => wire'[m] = wire[m]
    BY <1>1, TypesAre
  <1>3. Calmer
    BY <1>1, StillCalm
  <1>4. ChannelsKeep
    BY <1>1, <1>3, ChannelsStay
  <1>5. /\ HubParts'
        /\ \A x \in Sender, s \in Sub :
             Pending(x, s)' => Follows(chan'[s], seen'[s], sender'[x].event, s)
    BY <1>1, <1>2, <1>3, <1>4, CalmParts DEF HubInv, HubParts, HubTypeOK
  <1>6. ASSUME NEW m \in Node
        PROVE  WireInOrder(m)'
    <2>1. CASE m = n
      BY <1>2, <2>1 DEF WireInOrder
    <2>2. CASE m # n
      BY <1>1, <1>2, <1>3, <1>4, <2>2, CalmWire DEF WireInOrder, Foreign
    <2>q. QED BY <2>1, <2>2
  <1>7. ASSUME NEW y \in Sender
        PROVE  MadeRoom(y)'
    BY <1>1 DEF HubInv, MadeRoom, Room
  <1>q. QED BY <1>5, <1>6, <1>7 DEF HubInv

\* Nothing of t that a stream has or took is newer than what t published last.
LEMMA NewestFollows ==
  ASSUME HubInv, NEW t \in Thread, NEW e \in Event, e.by = t, NEW s \in Sub,
         e.n >= count[t] + Gap(t, s)
  PROVE  Follows(chan[s], seen[s], e, s)
  <1>1. /\ chan[s] \in Seq(Event) /\ count \in [Thread -> Nat] /\ seen[s] \in [Thread -> Nat]
        /\ Gap(t, s) \in {0, 1} /\ e.n \in Nat
    BY TypesAre, GapIs, EventIs
  <1>2. seen[s][t] <= count[t] /\ InLine(chan[s], seen[s], s, count)
    BY DEF HubInv, HubParts
  <1>3. seen[s][t] + Gap(t, s) <= e.n
    BY <1>1, <1>2
  <1>4. ASSUME NEW i \in 1 .. Len(chan[s])
        PROVE  Before(chan[s][i], e, Gap(t, s))
    <2>1. chan[s][i].n <= count[chan[s][i].by] /\ chan[s][i].n \in Nat
      BY <1>1, <1>2, ChannelIs DEF InLine
    <2>q. QED BY <1>1, <2>1 DEF Before
  <1>q. QED BY <1>3, <1>4 DEF Follows

\* Copies of one event behind a wire.
LEMMA CopiesAre ==
  ASSUME NEW w \in Seq(Event), NEW e \in Event, NEW k \in 0 .. 2
  PROVE  LET v == w \o [i \in 1 .. k |-> e]
         IN  /\ v \in Seq(Event) /\ Len(v) = Len(w) + k /\ Len(w) \in Nat
             /\ \A j \in 1 .. Len(w) : v[j] = w[j]
             /\ \A j \in 1 .. Len(v) : j \notin 1 .. Len(w) => v[j] = e
  <1> DEFINE c == [i \in 1 .. k |-> e]
  <1>1. c \in Seq(Event) /\ Len(c) = k /\ \A i \in 1 .. k : c[i] = e
    <2>1. k \in Nat /\ c \in [1 .. k -> Event]
      OBVIOUS
    <2>q. QED BY <2>1
  <1> HIDE DEF c
  <1>2. /\ w \o c \in Seq(Event) /\ Len(w \o c) = Len(w) + k /\ Len(w) \in Nat
        /\ \A j \in 1 .. Len(w) + k : (w \o c)[j] = IF j <= Len(w) THEN w[j] ELSE c[j - Len(w)]
    BY <1>1, ConcatProperties
  <1>3. \A j \in 1 .. Len(w) + k : j \notin 1 .. Len(w) => j - Len(w) \in 1 .. k /\ ~(j <= Len(w))
    BY <1>2
  <1>4. \A j \in 1 .. Len(w) : j \in 1 .. Len(w) + k /\ j <= Len(w)
    BY <1>2
  <1>5. /\ \A j \in 1 .. Len(w) : (w \o c)[j] = w[j]
        /\ \A j \in 1 .. Len(w \o c) : j \notin 1 .. Len(w) => (w \o c)[j] = e
    BY <1>1, <1>2, <1>3, <1>4
  <1>q. QED BY <1>2, <1>5 DEF c

LEMMA PublishRedisKeeps ==
  ASSUME HubInv, NEW t \in Thread, PublishRedis(t)
  PROVE  HubInv'
  <1> DEFINE e == sender[t].event
  <1>0. PICK k \in 0 .. 2 :
          wire' = [n \in Node |-> IF n \notin linked \/ k = 0 THEN wire[n]
                                  ELSE wire[n] \o [i \in 1 .. k |-> e]]
    BY DEF PublishRedis
  <1>1. /\ sender[t].pc = "redis" /\ sender' = [sender EXCEPT ![t] = Quiet]
        /\ UNCHANGED <<stream, chan, seen, linked, count>>
    BY DEF PublishRedis, At
  <1>2. t \in Sender /\ t \notin Node /\ e \in Event /\ e.by = t /\ e.n = count[t]
        /\ count[t] \in Nat /\ \A n \in Node : wire[n] \in Seq(Event)
    BY <1>1, TypesAre, SenderIs, SendsOwnIs DEF Busy
  <1>a. PICK f \in Event : f = e
    BY <1>2
  <1>3. Onward(t, Quiet)
    BY <1>1, QuietIs DEF Onward
  <1>4. Calmer /\ sender'[t] = Quiet /\ \A y \in Sender : y # t => sender'[y] = sender[y]
    BY <1>1, <1>2, <1>3, OnwardIs
  <1>5. ChannelsKeep
    BY <1>1, <1>4, ChannelsStay
  <1>6. ASSUME NEW n \in Node
        PROVE  /\ wire'[n] \in Seq(Event) /\ Len(wire[n]) \in Nat
               /\ \A j \in 1 .. Len(wire[n]) : wire'[n][j] = wire[n][j]
               /\ \A j \in 1 .. Len(wire'[n]) : j \notin 1 .. Len(wire[n]) => wire'[n][j] = f
    <2>1. CASE n \notin linked \/ k = 0
      <3>1. wire'[n] = wire[n]
        BY <1>0, <2>1
      <3>q. QED BY <1>2, <3>1
    <2>2. CASE ~(n \notin linked \/ k = 0)
      <3>1. wire'[n] = wire[n] \o [i \in 1 .. k |-> f]
        BY <1>0, <1>a, <2>2
      <3>2. wire[n] \in Seq(Event)
        BY <1>2
      <3>q. QED BY <3>1, <3>2, CopiesAre
    <2>q. QED BY <2>1, <2>2
  <1>7. wire' \in [Node -> Seq(Event)]
    BY <1>0, <1>6
  <1>8. /\ HubParts'
        /\ \A x \in Sender, s \in Sub :
             Pending(x, s)' => Follows(chan'[s], seen'[s], sender'[x].event, s)
    BY <1>1, <1>4, <1>5, <1>7, CalmParts DEF HubInv, HubParts, HubTypeOK
  <1>9. ASSUME NEW n \in Node
        PROVE  WireInOrder(n)'
    <2> SUFFICES ASSUME NEW j \in 1 .. Len(wire'[n])
                 PROVE  /\ wire'[n][j].n <= count[wire'[n][j].by]
                        /\ \A i \in 1 .. j - 1 : Before(wire'[n][i], wire'[n][j], 0)
                        /\ Busy(n)' => Before(sender'[n].event, wire'[n][j], 0)
                        /\ Foreign(n, wire'[n][j]) =>
                             \A s \in Sub : NodeOf[s] = n => Follows(chan'[s], seen'[s], wire'[n][j], s)
      BY <1>1 DEF WireInOrder, Foreign
    <2>1. CASE j \in 1 .. Len(wire[n])
      <3>1. wire'[n][j] = wire[n][j] /\ \A i \in 1 .. j - 1 : wire'[n][i] = wire[n][i]
        BY <1>6, <2>1
      <3>q. QED BY <1>4, <1>5, <2>1, <3>1, CalmWire
    <2>2. CASE j \notin 1 .. Len(wire[n])
      <3>1. wire'[n][j] = f /\ f.by = t /\ f.n = count[t]
        BY <1>2, <1>6, <1>a, <2>2
      <3>2. ASSUME NEW i \in 1 .. j - 1
            PROVE  Before(wire'[n][i], f, 0)
        <4>1. CASE i \in 1 .. Len(wire[n])
          <5>1. wire'[n][i] = wire[n][i] /\ wire[n][i].n <= count[wire[n][i].by]
            BY <1>6, <4>1 DEF HubInv, WireInOrder
          <5>2. wire[n][i].n \in Nat
            BY <1>2, <4>1, ChannelIs
          <5>q. QED BY <1>2, <3>1, <5>1, <5>2 DEF Before
        <4>2. CASE i \notin 1 .. Len(wire[n])
          <5>1. wire'[n][i] = f
            BY <1>6, <4>2
          <5>q. QED BY <1>2, <3>1, <5>1 DEF Before
        <4>q. QED BY <4>1, <4>2
      <3>3. Busy(n)' => Before(sender'[n].event, f, 0)
        <4>1. sender'[n] = sender[n] /\ n \in Sender
          BY <1>2, <1>4, SenderIs
        <4>2. Busy(n) => sender[n].event.n <= count[sender[n].event.by]
          BY <4>1, SendsOwnIs
        <4>3. sender[n].event.n \in Nat
          BY <4>1, TypesAre
        <4>q. QED BY <1>2, <3>1, <4>1, <4>2, <4>3 DEF Before, Busy
      <3>4. ASSUME Foreign(n, f), NEW s \in Sub, NodeOf[s] = n
            PROVE  Follows(chan'[s], seen'[s], f, s)
        <4>1. Gap(t, s) = 0
          BY <3>1, <3>4 DEF Gap, Foreign
        <4>2. Follows(chan[s], seen[s], f, s)
          BY <1>2, <3>1, <4>1, NewestFollows
        <4>q. QED BY <1>1, <4>2
      <3>q. QED BY <1>2, <3>1, <3>2, <3>3, <3>4
    <2>q. QED BY <2>1, <2>2
  <1>10. ASSUME NEW y \in Sender
         PROVE  MadeRoom(y)'
    <2>1. CASE y = t
      BY <1>4, <2>1, QuietIs DEF MadeRoom
    <2>2. CASE y # t
      BY <1>1, <1>4, <2>2 DEF HubInv, MadeRoom, Room
    <2>q. QED BY <2>1, <2>2
  <1>q. QED BY <1>8, <1>9, <1>10 DEF HubInv
LEMMA ConsumeKeeps ==
  ASSUME HubInv, NEW n \in Node, Consume(n)
  PROVE  HubInv'
  <1>0. PICK e : e = Head(wire[n])
    OBVIOUS
  <1>1. /\ sender[n].pc = "idle" /\ wire[n] # <<>> /\ wire' = [wire EXCEPT ![n] = Tail(wire[n])]
        /\ sender' = IF Foreign(n, e) THEN [sender EXCEPT ![n] = Broadcast(e)] ELSE sender
        /\ UNCHANGED <<stream, chan, seen, linked, count>>
    BY <1>0 DEF Consume, At
  <1>2. /\ wire[n] \in Seq(Event) /\ Tail(wire[n]) \in Seq(Event) /\ e \in Event /\ e = wire[n][1]
        /\ 1 \in 1 .. Len(wire[n]) /\ Len(wire[n]) \in Nat /\ Len(Tail(wire[n])) = Len(wire[n]) - 1
        /\ \A i \in 1 .. Len(Tail(wire[n])) :
             i + 1 \in 1 .. Len(wire[n]) /\ Tail(wire[n])[i] = wire[n][i + 1]
    <2>1. wire[n] \in Seq(Event) /\ wire[n] # <<>>
      BY <1>1, TypesAre
    <2>2. Len(wire[n]) \in Nat \ {0} => 1 \in 1 .. Len(wire[n])
      OBVIOUS
    <2>q. QED BY <1>0, <2>1, <2>2, TailIs
  <1>3. /\ wire' \in [Node -> Seq(Event)] /\ wire'[n] = Tail(wire[n])
        /\ \A m \in Node : m # n => wire'[m] = wire[m]
    BY <1>1, <1>2, TypesAre
  <1>4. n \in Sender /\ n \notin Thread /\ NodeAt(n) = n
    BY SenderIs
  <1>5. /\ e.n <= count[e.by]
        /\ Foreign(n, e) => \A s \in Sub : NodeOf[s] = n => Follows(chan[s], seen[s], e, s)
    BY <1>2 DEF HubInv, WireInOrder
  <1>6. /\ sender' \in [Sender -> Sending] /\ \A y \in Sender : y # n => sender'[y] = sender[y]
        /\ \/ Foreign(n, e) /\ sender'[n] = Broadcast(e)
           \/ sender'[n] = sender[n]
    BY <1>1, <1>2, <1>4, TypesAre, BroadcastIs
  <1>7. /\ Broadcast(e).pc = "list" /\ Broadcast(e).event = e /\ Broadcast(e).todo = {}
    BY <1>2, BroadcastIs
  <1>8. ASSUME NEW y \in Sender
        PROVE  SendsOwn(y)'
    <2>1. CASE sender'[y] = sender[y]
      BY <1>1, <2>1, SendsOwnIs DEF SendsOwn, Busy, Foreign, NodeAt
    <2>2. CASE y = n /\ Foreign(n, e) /\ sender'[n] = Broadcast(e)
      BY <1>1, <1>4, <1>5, <1>7, <2>2 DEF SendsOwn, Busy, Foreign, NodeAt
    <2>q. QED BY <1>6, <2>1, <2>2
  <1>9. HubParts'
    <2>1. HubTypeOK' /\ chan' \in [Sub -> Seq(Event)]
      BY <1>1, <1>3, <1>6 DEF HubTypeOK, HubInv, HubParts
    <2>q. QED BY <1>1, <1>8, <2>1 DEF HubParts, HubInv
  <1>10. ASSUME NEW y \in Sender, NEW s \in Sub, Pending(y, s)'
         PROVE  Follows(chan'[s], seen'[s], sender'[y].event, s)
    <2>1. CASE sender'[y] = sender[y]
      <3>1. Pending(y, s)
        BY <1>10, <2>1 DEF Pending, NodeAt
      <3>q. QED BY <1>1, <2>1, <3>1, PendingIs
    <2>2. CASE y = n /\ Foreign(n, e) /\ sender'[n] = Broadcast(e)
      <3>1. NodeOf[s] = n
        BY <1>4, <1>10, <2>2 DEF Pending, NodeAt
      <3>q. QED BY <1>1, <1>5, <1>7, <2>2, <3>1
    <2>q. QED BY <1>6, <2>1, <2>2
  <1>11. ASSUME NEW m \in Node
         PROVE  WireInOrder(m)'
    <2>1. CASE m # n
      <3>1. wire'[m] = wire[m] /\ sender'[m] = sender[m]
        BY <1>3, <1>6, <2>1, SenderIs
      <3>q. QED BY <1>1, <3>1 DEF HubInv, WireInOrder, Busy, Foreign
    <2>2. CASE m = n
      <3> SUFFICES ASSUME NEW j \in 1 .. Len(wire'[n])
                   PROVE  /\ wire'[n][j].n <= count[wire'[n][j].by]
                          /\ \A i \in 1 .. j - 1 : Before(wire'[n][i], wire'[n][j], 0)
                          /\ Busy(n)' => Before(sender'[n].event, wire'[n][j], 0)
                          /\ Foreign(n, wire'[n][j]) =>
                               \A s \in Sub : NodeOf[s] = n => Follows(chan[s], seen[s], wire'[n][j], s)
        BY <1>1, <2>2 DEF WireInOrder, Foreign
      <3>1. /\ j \in Nat /\ j + 1 \in 1 .. Len(wire[n]) /\ wire'[n][j] = wire[n][j + 1]
            /\ 1 \in 1 .. (j + 1) - 1
        BY <1>2, <1>3
      <3>2. \A i \in 1 .. j - 1 : i + 1 \in 1 .. (j + 1) - 1 /\ wire'[n][i] = wire[n][i + 1]
        BY <1>2, <1>3
      <3>3. /\ wire[n][j + 1].n <= count[wire[n][j + 1].by]
            /\ \A i \in 1 .. (j + 1) - 1 : Before(wire[n][i], wire[n][j + 1], 0)
            /\ Foreign(n, wire[n][j + 1]) =>
                 \A s \in Sub : NodeOf[s] = n => Follows(chan[s], seen[s], wire[n][j + 1], s)
        BY <3>1 DEF HubInv, WireInOrder
      <3>4. Before(e, wire'[n][j], 0)
        BY <1>2, <3>1, <3>3
      <3>5. Busy(n)' => sender'[n].event = e
        BY <1>1, <1>6, <1>7 DEF Busy
      <3>q. QED BY <3>1, <3>2, <3>3, <3>4, <3>5
    <2>q. QED BY <2>1, <2>2
  <1>12. ASSUME NEW y \in Sender
         PROVE  MadeRoom(y)'
    <2>1. CASE sender'[y] = sender[y]
      BY <1>1, <2>1 DEF HubInv, MadeRoom, Room
    <2>2. CASE y = n /\ sender'[n] = Broadcast(e)
      BY <1>7, <2>2 DEF MadeRoom
    <2>q. QED BY <1>6, <2>1, <2>2
  <1>q. QED BY <1>9, <1>10, <1>11, <1>12 DEF HubInv

LEMMA PublishKeeps ==
  ASSUME HubInv, NEW t \in Thread, Publish(t)
  PROVE  HubInv'
  <1> DEFINE c == count[t] + 1
             e == [by |-> t, n |-> c]
  <1>1. /\ sender[t].pc = "idle" /\ count[t] < MaxEvents[t] /\ count' = [count EXCEPT ![t] = c]
        /\ sender' = [sender EXCEPT ![t] = Broadcast(e)]
        /\ UNCHANGED <<stream, chan, seen, wire, linked>>
    BY DEF Publish, At
  <1>2. t \in Sender /\ t \notin Node /\ NodeAt(t) = NodeOf[t] /\ count[t] \in Nat /\ MaxEvents[t] \in Nat
    BY SenderIs, TypesAre, HubAssumption
  <1>3. c \in Nat /\ c <= MaxEvents[t] /\ c > count[t]
    BY <1>1, <1>2
  <1>4. /\ count' \in [Thread -> Nat] /\ count'[t] = c
        /\ \A u \in Thread : u # t => count'[u] = count[u]
    BY <1>1, <1>3, TypesAre
  <1>5. \A u \in Thread : count[u] <= count'[u] /\ count[u] \in Nat /\ count'[u] \in Nat
    <2>1. \A u \in Thread : count[u] \in Nat /\ count'[u] \in Nat
      BY <1>4, TypesAre
    <2>2. count[t] <= count'[t]
      BY <1>2, <1>3, <1>4
    <2>q. QED BY <1>4, <2>1, <2>2
  <1>a. c = count[t] + 1
    OBVIOUS
  <1> HIDE DEF c
  <1>6. e \in Event /\ e.by = t /\ e.n = c
    BY <1>3 DEF Event
  <1> HIDE DEF e
  <1>7. Broadcast(e) \in Sending /\ Broadcast(e).pc = "list" /\ Broadcast(e).event = e
        /\ Broadcast(e).todo = {}
    BY <1>6, BroadcastIs
  <1>8. /\ sender' \in [Sender -> Sending] /\ sender'[t] = Broadcast(e)
        /\ \A y \in Sender : y # t => sender'[y] = sender[y]
    BY <1>1, <1>2, <1>7, TypesAre
  <1>9. ASSUME NEW y \in Sender
        PROVE  SendsOwn(y)'
    <2>1. CASE y = t
      BY <1>2, <1>3, <1>4, <1>6, <1>7, <1>8, <2>1 DEF SendsOwn, Busy
    <2>2. CASE y # t
      <3>1. sender'[y] = sender[y] /\ (y \in Thread => count'[y] = count[y])
        BY <1>4, <1>8, <2>2
      <3>2. Busy(y) => sender[y].event.n <= count'[sender[y].event.by]
        <4>1. sender[y].event.by \in Thread /\ sender[y].event.n \in Nat
          BY TypesAre
        <4>q. QED BY <1>5, <4>1, SendsOwnIs
      <3>q. QED BY <3>1, <3>2, SendsOwnIs DEF SendsOwn, Busy, Foreign, NodeAt
    <2>q. QED BY <2>1, <2>2
  <1>10. HubParts'
    <2>1. \A u \in Thread : count'[u] <= MaxEvents[u]
      BY <1>3, <1>4 DEF HubInv, HubParts, HubTypeOK
    <2>2. HubTypeOK' /\ chan' \in [Sub -> Seq(Event)]
      BY <1>1, <1>4, <1>8, <2>1 DEF HubTypeOK, HubInv, HubParts
    <2>3. \A s \in Sub, u \in Thread : seen'[s][u] <= count'[u]
      <3>1. \A s \in Sub, u \in Thread : seen[s][u] <= count[u] /\ seen[s][u] \in Nat
        BY TypesAre DEF HubInv, HubParts
      <3>q. QED BY <1>1, <1>5, <3>1
    <2>4. ASSUME NEW s \in Sub
          PROVE  InLine(chan'[s], seen'[s], s, count')
      <3>1. InLine(chan[s], seen[s], s, count) /\ chan[s] \in Seq(Event)
        BY TypesAre DEF HubInv, HubParts
      <3>2. InLine(chan[s], seen[s], s, count')
        BY <1>4, <1>5, <3>1, LineGrows, TypesAre
      <3>q. QED BY <1>1, <3>2
    <2>q. QED BY <1>9, <2>2, <2>3, <2>4 DEF HubParts
  <1>11. ASSUME NEW y \in Sender, NEW s \in Sub, Pending(y, s)'
         PROVE  Follows(chan'[s], seen'[s], sender'[y].event, s)
    <2>1. CASE y = t
      <3>1. Gap(t, s) = 1
        BY <1>2, <1>11, <2>1 DEF Pending, Gap, NodeAt
      <3>2. Follows(chan[s], seen[s], e, s)
        BY <1>2, <1>a, <1>6, <3>1, NewestFollows
      <3>q. QED BY <1>1, <1>7, <1>8, <2>1, <3>2
    <2>2. CASE y # t
      <3>1. Pending(y, s)
        BY <1>8, <1>11, <2>2 DEF Pending, NodeAt
      <3>q. QED BY <1>1, <1>8, <2>2, <3>1, PendingIs
    <2>q. QED BY <2>1, <2>2
  <1>12. ASSUME NEW n \in Node
         PROVE  WireInOrder(n)'
    <2>1. sender'[n] = sender[n] /\ wire[n] \in Seq(Event)
      BY <1>2, <1>8, SenderIs, TypesAre
    <2>2. \A j \in 1 .. Len(wire[n]) : wire[n][j].n <= count'[wire[n][j].by]
      <3>1. \A j \in 1 .. Len(wire[n]) : /\ wire[n][j].by \in Thread /\ wire[n][j].n \in Nat
                                         /\ wire[n][j].n <= count[wire[n][j].by]
        BY <2>1, ChannelIs DEF HubInv, WireInOrder
      <3>q. QED BY <1>5, <3>1
    <2>q. QED BY <1>1, <2>1, <2>2 DEF HubInv, WireInOrder, Busy, Foreign
  <1>13. ASSUME NEW y \in Sender
         PROVE  MadeRoom(y)'
    <2>1. CASE y = t
      BY <1>7, <1>8, <2>1 DEF MadeRoom
    <2>2. CASE y # t
      BY <1>1, <1>8, <2>2 DEF HubInv, MadeRoom, Room
    <2>q. QED BY <2>1, <2>2
  <1>q. QED BY <1>10, <1>11, <1>12, <1>13 DEF HubInv

-----------------------------------------------------------------------------
(* The theorems.                                                           *)

LEMMA HubStarts == HubInit => HubInv
  <1> SUFFICES ASSUME HubInit PROVE HubInv
    OBVIOUS
  <1>1. /\ chan = [s \in Sub |-> <<>>] /\ seen = [s \in Sub |-> [t \in Thread |-> 0]]
        /\ wire = [n \in Node |-> <<>>] /\ count = [t \in Thread |-> 0]
    BY DEF HubInit
  <1>2. \A x \in Sender : sender[x] = Quiet
    BY DEF HubInit
  <1>3. Buffer \in Nat /\ MaxEvents \in [Thread -> Nat]
    BY HubAssumption
  <1>4. HubTypeOK /\ chan \in [Sub -> Seq(Event)]
    BY <1>1, <1>3, QuietIs DEF HubInit, HubTypeOK
  <1>5. HubParts
    <2>1. \A x \in Sender : SendsOwn(x)
      BY <1>2, QuietIs DEF SendsOwn, Busy
    <2>2. \A s \in Sub, t \in Thread : seen[s][t] <= count[t]
      BY <1>1
    <2>3. \A s \in Sub : InLine(chan[s], seen[s], s, count)
      BY <1>1 DEF InLine
    <2>q. QED BY <1>4, <2>1, <2>2, <2>3 DEF HubParts
  <1>6. \A x \in Sender, s \in Sub : ~Pending(x, s)
    BY <1>2, QuietIs DEF Pending
  <1>7. \A n \in Node : WireInOrder(n)
    BY <1>1 DEF WireInOrder
  <1>8. \A x \in Sender : MadeRoom(x)
    BY <1>2, QuietIs DEF MadeRoom
  <1>q. QED BY <1>5, <1>6, <1>7, <1>8 DEF HubInv

LEMMA HubUnmoved == HubInv /\ UNCHANGED hubvars => HubInv'
  <1> SUFFICES ASSUME HubInv, UNCHANGED hubvars PROVE HubInv'
    OBVIOUS
  <1>1. UNCHANGED <<stream, chan, seen, sender, wire, linked, count>>
    BY DEF hubvars
  <1>q. QED BY <1>1, AsideKeeps DEF HubInv, HubParts, HubTypeOK

LEMMA HubStepKeeps == HubInv /\ HubStep => HubInv'
  <1> SUFFICES ASSUME HubInv, HubStep PROVE HubInv'
    OBVIOUS
  <1>1. ASSUME NEW s \in Sub, Subscribe(s) \/ Cancel(s) \/ Receive(s)
        PROVE  HubInv'
    BY <1>1, StreamKeeps, ReceiveKeeps
  <1>2. ASSUME NEW x \in Sender, Serve(x)
        PROVE  HubInv'
    <2>1. CASE ListSubs(x)
      BY <2>1, ListSubsKeeps
    <2>2. CASE Drop(x)
      BY <2>2, DropKeeps
    <2>3. CASE Again(x)
      BY <2>3, AgainKeeps
    <2>4. CASE Sent(x)
      BY <2>4, SentKeeps
    <2>5. ASSUME NEW s \in Sub, Send(x, s)
          PROVE  HubInv'
      <3>1. CASE Room(s)
        BY <2>5, <3>1, SendRoomKeeps
      <3>2. CASE ~Room(s)
        BY <2>5, <3>2, SendFullKeeps
      <3>q. QED BY <3>1, <3>2
    <2>q. QED BY <1>2, <2>1, <2>2, <2>3, <2>4, <2>5 DEF Serve
  <1>3. ASSUME NEW t \in Thread, PublishRedis(t)
        PROVE  HubInv'
    BY <1>3, PublishRedisKeeps
  <1>4. ASSUME NEW n \in Node, Consume(n) \/ Link(n) \/ Unlink(n)
        PROVE  HubInv'
    BY <1>4, ConsumeKeeps, LinkKeeps, UnlinkKeeps
  <1>q. QED BY <1>1, <1>2, <1>3, <1>4 DEF HubStep

LEMMA NoticesKeepHub == HubInv /\ [Next]_vars => HubInv'
  <1> SUFFICES ASSUME HubInv, [Next]_vars PROVE HubInv'
    OBVIOUS
  <1>1. CASE UNCHANGED vars
    BY <1>1, HubUnmoved DEF vars
  <1>2. CASE HubStep
    BY <1>2, HubStepKeeps
  <1>3. ASSUME NEW t \in Thread, NEW d \in Doc, NotifyAdminsOnce(t, d) \/ MarkRead(t, d)
        PROVE  HubInv'
    BY <1>3, PublishKeeps, HubUnmoved DEF NotifyAdminsOnce, MarkRead
  <1>4. ASSUME NEW t \in Thread,
               Lock(t) \/ Look(t) \/ Insert(t) \/ InsertUnheard(t) \/ Fail(t) \/ Announce(t) \/ MarkAllRead(t)
        PROVE  HubInv'
    <2>1. CASE Lock(t) \/ Look(t) \/ InsertUnheard(t) \/ Fail(t)
      BY <2>1, HubUnmoved DEF Lock, Look, InsertUnheard, Fail
    <2>2. CASE Insert(t) \/ Announce(t) \/ MarkAllRead(t)
      BY <2>2, PublishKeeps DEF Insert, Announce, MarkAllRead
    <2>q. QED BY <1>4, <2>1, <2>2
  <1>5. ASSUME NEW d \in Doc, DeleteDocument(d)
        PROVE  HubInv'
    BY <1>5, HubUnmoved DEF DeleteDocument
  <1>q. QED BY <1>1, <1>2, <1>3, <1>4, <1>5 DEF Next

\* The invariant of the hub: each channel is in order, whatever a sender has
\* still to put into it and whatever is on the wire fits behind it, and a place
\* that Drop made is free or went to another publisher.
THEOREM HubInductive == Spec => []HubInv
  <1>1. Init => HubInv
    BY HubStarts DEF Init
  <1>q. QED BY <1>1, NoticesKeepHub, PTL DEF Spec

\* The types of the hub; no channel ever holds more than its buffer.
THEOREM HubTypeCorrect == Spec => []HubTypeOK
  <1>1. HubInv => HubTypeOK
    BY DEF HubInv, HubParts
  <1>q. QED BY <1>1, HubInductive, PTL

\* Each stream gets the events of one publisher in the order of Publish, those of
\* its own process at most once, although sendLatest drops events, Redis repeats
\* and loses them, and other senders run between any two of its steps.
THEOREM EventsStayOrdered == Spec => []Ordered
  <1>1. HubInv => Ordered
    <2> SUFFICES ASSUME HubInv PROVE Ordered
      OBVIOUS
    <2> SUFFICES ASSUME NEW s \in Sub, NEW i \in 1 .. Len(chan[s])
                 PROVE  LET e == chan[s][i]
                            own == NodeOf[e.by] = NodeOf[s]
                        IN  /\ Arrives(s, e, own)
                            /\ \A j \in 1 .. i - 1 : chan[s][j].by = e.by =>
                                 IF own THEN chan[s][j].n < e.n ELSE chan[s][j].n <= e.n
      BY DEF Ordered
    <2> DEFINE e == chan[s][i]
    <2>1. /\ seen[s][e.by] + Gap(e.by, s) <= e.n
          /\ \A j \in 1 .. i - 1 : Before(chan[s][j], e, Gap(e.by, s))
      BY DEF HubInv, HubParts, InLine
    <2>2. /\ chan[s] \in Seq(Event) /\ e.by \in Thread /\ e.n \in Nat /\ seen[s] \in [Thread -> Nat]
          /\ i \in Nat /\ \A j \in 1 .. i - 1 : chan[s][j].n \in Nat
      <3>1. chan[s] \in Seq(Event) /\ seen[s] \in [Thread -> Nat]
        BY TypesAre
      <3>2. i \in Nat /\ \A j \in 1 .. i - 1 : j \in 1 .. Len(chan[s])
        BY <3>1, ChannelIs
      <3>q. QED BY <3>1, <3>2, ChannelIs
    <2> HIDE DEF e
    <2>3. CASE NodeOf[e.by] = NodeOf[s]
      <3>1. Gap(e.by, s) = 1
        BY <2>3 DEF Gap
      <3>2. seen[s][e.by] < e.n /\ \A j \in 1 .. i - 1 : chan[s][j].by = e.by => chan[s][j].n < e.n
        BY <2>1, <2>2, <3>1 DEF Before
      <3>q. QED BY <2>3, <3>2 DEF Arrives, e
    <2>4. CASE NodeOf[e.by] # NodeOf[s]
      <3>1. Gap(e.by, s) = 0
        BY <2>4 DEF Gap
      <3>2. seen[s][e.by] <= e.n /\ \A j \in 1 .. i - 1 : chan[s][j].by = e.by => chan[s][j].n <= e.n
        BY <2>1, <2>2, <3>1 DEF Before
      <3>q. QED BY <2>4, <3>2 DEF Arrives, e
    <2>q. QED BY <2>3, <2>4
  <1>q. QED BY <1>1, HubInductive, PTL

\* When sendLatest gives an event up, an event of another publisher is the newest
\* in the channel: one publisher alone always gets its latest event through.
THEOREM LatestStaysKept == Spec => []LatestKept
  <1>1. HubInv => LatestKept
    BY DEF HubInv, MadeRoom, LatestKept, GivesUp, At
  <1>q. QED BY <1>1, HubInductive, PTL
=============================================================================
