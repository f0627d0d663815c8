--------------------------- MODULE EventHubProofs ---------------------------
(* Theorems about EventHub, for any number of dashboards, lines, breaks and  *)
(* restarts, and channels and sockets of any size.                           *)
EXTENDS EventHub, SequenceTheorems, TLAPS

-----------------------------------------------------------------------------
(* The inductive invariant *)

Lines == NodeLines \cup {FromXdp(n) : n \in Nat}

Connections == [pc : {"away", "backlog", "on"}, cursor : Nat, wire : Seq(Nat)]

HubTypeOK ==
    /\ emitted \in Nat /\ published \in Seq(Lines)
    /\ unsent \subseteq NodeLines /\ arriving \subseteq NodeLines
    /\ client \in [Clients -> Connections]
    /\ at \in [Dashboards -> Nat]

(* What a socket holds was taken from the channel by its task, in order, and *)
(* is lost with the connection.                                              *)
WireInv(u) ==
    LET c == client[u]
    IN  /\ c.cursor <= Sent(u)
        /\ c.pc # "on" => c.wire = <<>>
        /\ \A i \in 1..Len(c.wire) : c.wire[i] \in 1..c.cursor
        /\ \A i, j \in 1..Len(c.wire) : i < j => c.wire[i] < c.wire[j]

(* A dashboard is behind what its socket holds, and what lies between them   *)
(* has been overwritten in the channel.                                      *)
ShownInv(d) ==
    LET c == client[d]
    IN  /\ at[d] <= Len(published)
        /\ c.pc = "on" =>
              /\ at[d] <= c.cursor
              /\ \A i \in 1..Len(c.wire) : at[d] < c.wire[i]
              /\ \A m \in (at[d] + 1)..c.cursor :
                    \/ \E i \in 1..Len(c.wire) : c.wire[i] = m
                    \/ m + Capacity <= Len(published)

(* What of xdp-hello is published came before whatever the link brings yet.  *)
Before(n, c) ==
    c.pc = "on" => n <= c.cursor /\ \A j \in 1..Len(c.wire) : n < c.wire[j]

LinkInv ==
    \A i \in 1..Len(published) : published[i].type = "stats" =>
       published[i].n <= emitted /\ Before(published[i].n, client[Link])

HubInv ==
    /\ HubTypeOK
    /\ \A u \in Clients : WireInv(u)
    /\ \A d \in Dashboards : ShownInv(d)
    /\ LinkInv /\ XdpLinesInOrder

-----------------------------------------------------------------------------
(* Lines *)

LEMMA LineTypes ==
    /\ \A n : FromXdp(n).type = "stats" /\ FromXdp(n).n = n
    /\ \A line \in NodeLines : line.type # "stats"
    /\ \A n \in Nat : FromXdp(n) \in Lines
    /\ NodeLines \subseteq Lines
  BY HubAssumption DEF FromXdp, Lines

(* parse_upstream_line: what it lets through is an event.                    *)
LEMMA ParsedIsEvent ==
    ASSUME NEW line \in Lines, Parse(line)
    PROVE  IsEvent(line)
<1>1. CASE line \in NodeLines
  <2>1. line.type \in {"attack_state", "experiment_run"}
    BY <1>1, HubAssumption DEF Parse
  <2>2. line.type = "experiment_run" =>
           line.run.received <= line.run.sent /\ line.run.health.checks > 0
    BY DEF Parse, IsValid, HealthIsValid
  <2> QED BY <2>1, <2>2 DEF IsEvent
<1>2. CASE line \notin NodeLines
  <2>1. line.type = "stats"
    BY <1>2, LineTypes DEF Lines
  <2> QED BY <2>1 DEF IsEvent
<1> QED BY <1>1, <1>2

(* A line is appended, or dropped.                                           *)
LEMMA PublishStep ==
    ASSUME HubTypeOK, NEW line \in Lines, Publish(line)
    PROVE  \/ published' = published
           \/ /\ Parse(line)
              /\ published' \in Seq(Lines)
              /\ Len(published') = Len(published) + 1
              /\ \A i \in 1..Len(published) : published'[i] = published[i]
              /\ published'[Len(published) + 1] = line
  BY AppendProperties DEF Publish, HubTypeOK

-----------------------------------------------------------------------------
(* Connections *)

LEMMA SentType ==
    ASSUME HubTypeOK
    PROVE  /\ \A u \in Clients : Sent(u) \in Nat
           /\ Len(published) \in Nat /\ Away \in Connections
           /\ \A u \in Clients : /\ client[u] \in Connections
                                 /\ client[u].cursor \in Nat
                                 /\ client[u].wire \in Seq(Nat)
                                 /\ Len(client[u].wire) \in Nat
<1>1. Len(published) \in Nat
  BY LenProperties DEF HubTypeOK
<1>2. Away \in Connections
  BY EmptySeq DEF Away, Connections
<1>3. \A u \in Clients : /\ client[u] \in Connections
                         /\ client[u].cursor \in Nat
                         /\ client[u].wire \in Seq(Nat)
  BY DEF HubTypeOK, Connections
<1> QED BY <1>1, <1>2, <1>3, LenProperties DEF HubTypeOK, Sent

(* A task takes the next line from the channel and writes it to its socket.  *)
LEMMA ForwardStep ==
    ASSUME HubTypeOK, NEW u \in Clients, Forward(u)
    PROVE  /\ client' \in [Clients -> Connections]
           /\ \A v \in Clients \ {u} : client'[v] = client[v]
           /\ client[u].pc = "on" /\ client'[u].pc = "on"
           /\ client'[u].cursor = client[u].cursor + 1
           /\ client'[u].cursor <= Sent(u)
           /\ Len(client'[u].wire) = Len(client[u].wire) + 1
           /\ \A i \in 1..Len(client[u].wire) :
                 client'[u].wire[i] = client[u].wire[i]
           /\ client'[u].wire[Len(client[u].wire) + 1] = client[u].cursor + 1
           /\ UNCHANGED <<emitted, unsent, arriving, published, at>>
<1> DEFINE c == client[u]
           n == c.cursor + 1
           wire == Append(c.wire, n)
<1>1. /\ client \in [Clients -> Connections] /\ c \in Connections
      /\ c.cursor \in Nat /\ c.wire \in Seq(Nat) /\ Sent(u) \in Nat
  BY SentType DEF HubTypeOK
<1>2. n \in Nat
  BY <1>1
<1>3. /\ wire \in Seq(Nat) /\ Len(wire) = Len(c.wire) + 1
      /\ \A i \in 1..Len(c.wire) : wire[i] = c.wire[i]
      /\ wire[Len(c.wire) + 1] = n
  BY <1>1, <1>2, AppendProperties
<1>4. /\ client' = [client EXCEPT ![u] = [c EXCEPT !.cursor = n, !.wire = wire]]
      /\ c.pc = "on" /\ Sent(u) - c.cursor \in 1..Capacity
      /\ UNCHANGED <<emitted, unsent, arriving, published, at>>
  <2>1. client' = [client EXCEPT ![u] = [c EXCEPT !.cursor = n, !.wire = wire]]
    BY Zenon DEF Forward
  <2> QED BY <2>1 DEF Forward, Receiving
<1>5. n <= Sent(u)
  BY <1>1, <1>4, HubAssumption
<1> HIDE DEF n, wire
<1>6. [c EXCEPT !.cursor = n, !.wire = wire] \in Connections
  BY <1>1, <1>2, <1>3 DEF Connections
<1>7. client'[u] = [c EXCEPT !.cursor = n, !.wire = wire]
  BY <1>1, <1>4
<1>8. client'[u].pc = "on" /\ client'[u].cursor = n /\ client'[u].wire = wire
  BY <1>1, <1>4, <1>7 DEF Connections
<1>9. /\ client' \in [Clients -> Connections]
      /\ \A v \in Clients \ {u} : client'[v] = client[v]
  BY <1>1, <1>4, <1>6
<1> QED BY <1>3, <1>4, <1>5, <1>8, <1>9 DEF n

(* The reader at the other end takes the oldest line.                        *)
LEMMA TakeStep ==
    ASSUME HubTypeOK, NEW u \in Clients, client[u].wire # <<>>,
           client' = [client EXCEPT ![u].wire = Tail(@)]
    PROVE  /\ client' \in [Clients -> Connections]
           /\ \A v \in Clients \ {u} : client'[v] = client[v]
           /\ client'[u].pc = client[u].pc
           /\ client'[u].cursor = client[u].cursor
           /\ Len(client[u].wire) \in Nat \ {0}
           /\ Head(client[u].wire) = client[u].wire[1]
           /\ Len(client'[u].wire) = Len(client[u].wire) - 1
           /\ \A i \in 1..Len(client'[u].wire) :
                 client'[u].wire[i] = client[u].wire[i + 1]
<1> DEFINE c == client[u]
           rest == Tail(c.wire)
<1>1. /\ client \in [Clients -> Connections] /\ c \in Connections
      /\ c.wire \in Seq(Nat) /\ Len(c.wire) \in Nat
  BY SentType DEF HubTypeOK
<1>2. /\ rest \in Seq(Nat) /\ Len(rest) = Len(c.wire) - 1
      /\ \A i \in 1..Len(rest) : rest[i] = c.wire[i + 1]
  BY <1>1, HeadTailProperties
<1>3. Len(c.wire) \in Nat \ {0}
  BY <1>1, EmptySeq
<1>4. Head(c.wire) = c.wire[1]
  BY <1>1
<1>5. client' = [client EXCEPT ![u] = [c EXCEPT !.wire = rest]]
  BY <1>1
<1> HIDE DEF rest
<1>6. [c EXCEPT !.wire = rest] \in Connections
  BY <1>1, <1>2 DEF Connections
<1>7. client'[u] = [c EXCEPT !.wire = rest]
  BY <1>1, <1>5
<1>8. /\ client'[u].pc = c.pc /\ client'[u].cursor = c.cursor
      /\ client'[u].wire = rest
  BY <1>1, <1>7 DEF Connections
<1> QED BY <1>1, <1>2, <1>3, <1>4, <1>5, <1>6, <1>8

(* What else a step does to a connection.                                    *)
LEMMA OtherClientSteps ==
    ASSUME HubTypeOK, NEW u \in Clients,
           Connect(u) \/ Accept(u) \/ Lag(u) \/ Break(u)
    PROVE  /\ client' \in [Clients -> Connections]
           /\ \A v \in Clients \ {u} : client'[v] = client[v]
           /\ UNCHANGED <<emitted, unsent, arriving, published>>
           /\ Connect(u) => /\ client[u].pc # "on" /\ client'[u].pc # "on"
                            /\ client'[u].cursor = client[u].cursor
                            /\ client'[u].wire = client[u].wire
           /\ Accept(u) => /\ client'[u].pc = "on"
                           /\ client'[u].cursor = Sent(u)
                           /\ client'[u].wire = <<>>
           /\ Lag(u) => /\ client[u].pc = "on" /\ client'[u].pc = "on"
                        /\ client'[u].cursor = Sent(u) - Capacity
                        /\ client[u].cursor < client'[u].cursor
                        /\ client'[u].cursor <= Sent(u)
                        /\ client'[u].wire = client[u].wire
           /\ Break(u) => client'[u] = Away
           /\ Accept(u) \/ UNCHANGED at
<1>1. /\ client \in [Clients -> Connections] /\ client[u] \in Connections
      /\ client[u].cursor \in Nat /\ Sent(u) \in Nat /\ Away \in Connections
      /\ Capacity \in Nat \ {0}
  BY SentType, HubAssumption DEF HubTypeOK
<1>2. UNCHANGED <<emitted, unsent, arriving, published>>
      /\ (Accept(u) \/ UNCHANGED at)
  BY DEF Connect, Accept, Lag, Break
<1>3. CASE Connect(u)
  <2>1. client' = [client EXCEPT ![u].pc = "backlog"] /\ client[u].pc = "away"
    BY <1>3 DEF Connect
  <2>2. ~Accept(u) /\ ~Lag(u) /\ ~Break(u)
    BY <2>1 DEF Accept, Lag, Receiving, Break
  <2> QED BY <1>1, <1>2, <2>1, <2>2 DEF Connections
<1>4. CASE Accept(u)
  <2> DEFINE c == [pc |-> "on", cursor |-> Sent(u), wire |-> <<>>]
  <2>1. client' = [client EXCEPT ![u] = c] /\ client[u].pc = "backlog"
    BY <1>4 DEF Accept
  <2>2. c \in Connections
    BY <1>1, EmptySeq DEF Connections
  <2>3. client'[u] = c /\ client' \in [Clients -> Connections]
        /\ \A v \in Clients \ {u} : client'[v] = client[v]
    BY <1>1, <2>1, <2>2
  <2>4. ~Connect(u) /\ ~Lag(u)
    BY <2>1 DEF Connect, Lag, Receiving
  <2>5. ~Break(u)
    <3>1. Break(u) => client'[u].pc = "away"
      BY <1>1 DEF Break, Away
    <3> QED BY <2>3, <3>1
  <2> QED BY <1>2, <2>3, <2>4, <2>5
<1>5. CASE Lag(u)
  <2>1. /\ client' = [client EXCEPT ![u].cursor = Sent(u) - Capacity]
        /\ client[u].pc = "on" /\ Sent(u) - client[u].cursor > Capacity
    BY <1>5 DEF Lag, Receiving
  <2>2. Sent(u) - Capacity \in Nat
    BY <1>1, <2>1
  <2>3. /\ client'[u].pc = "on" /\ client'[u].cursor = Sent(u) - Capacity
        /\ client'[u].wire = client[u].wire
    BY <1>1, <2>1 DEF Connections
  <2>4. client' \in [Clients -> Connections]
        /\ \A v \in Clients \ {u} : client'[v] = client[v]
    BY <1>1, <2>1, <2>2 DEF Connections
  <2>5. ~Connect(u) /\ ~Accept(u)
    BY <2>1 DEF Connect, Accept
  <2>6. ~Break(u)
    <3>1. Break(u) => client'[u].pc = "away"
      BY <1>1 DEF Break, Away
    <3> QED BY <2>3, <3>1
  <2> QED BY <1>1, <1>2, <2>1, <2>3, <2>4, <2>5, <2>6
<1>6. CASE Break(u)
  <2>1. client' = [client EXCEPT ![u] = Away]
    BY <1>6 DEF Break
  <2>2. client'[u] = Away /\ client' \in [Clients -> Connections]
        /\ \A v \in Clients \ {u} : client'[v] = client[v]
    BY <1>1, <2>1
  <2>3. ~Connect(u) /\ ~Accept(u) /\ ~Lag(u)
    <3>1. Connect(u) => client'[u].pc = "backlog"
      BY <1>1 DEF Connect, Connections
    <3>2. Accept(u) => client'[u].pc = "on"
      BY <1>1 DEF Accept
    <3>3. Lag(u) => client'[u].pc = "on"
      BY <1>1 DEF Lag, Receiving, Connections
    <3> QED BY <2>2, <3>1, <3>2, <3>3 DEF Away
  <2> QED BY <1>2, <2>2, <2>3
<1> QED BY <1>3, <1>4, <1>5, <1>6

(* The hub's step with a line of xdp-hello: it takes it from the link, and   *)
(* publishes it if it parses.                                                *)
LEMMA IngestLinkStep ==
    ASSUME HubTypeOK, IngestLink
    PROVE  /\ client[Link].wire # <<>>
           /\ client' = [client EXCEPT ![Link].wire = Tail(@)]
           /\ client[Link].wire[1] \in Nat
           /\ FromXdp(client[Link].wire[1]) \in Lines
           /\ Publish(FromXdp(client[Link].wire[1]))
           /\ UNCHANGED <<emitted, unsent, arriving, at>>
<1>1. Link \in Clients
  BY DEF Clients
<1>2. client[Link].wire \in Seq(Nat) /\ client[Link].wire # <<>>
  BY <1>1, SentType DEF IngestLink
<1>3. Len(client[Link].wire) \in Nat \ {0}
  BY <1>2, EmptySeq
<1>4. /\ client[Link].wire[1] \in Nat
      /\ Head(client[Link].wire) = client[Link].wire[1]
  BY <1>2, <1>3, ElementOfSeq
<1>5. FromXdp(client[Link].wire[1]) \in Lines
  BY <1>4, LineTypes
<1> QED BY <1>2, <1>4, <1>5 DEF IngestLink

(* What is published stays, and channels only grow.                          *)
LEMMA Grows ==
    ASSUME HubTypeOK, [Next]_vars
    PROVE  /\ emitted' \in Nat /\ emitted <= emitted'
           /\ published' \in Seq(Lines)
           /\ Len(published) <= Len(published')
           /\ Len(published') \in Nat
           /\ \A u \in Clients : Sent(u) <= Sent(u)' /\ Sent(u)' \in Nat
<1>1. emitted \in Nat /\ published \in Seq(Lines) /\ Len(published) \in Nat
  BY SentType DEF HubTypeOK
<1>2. emitted' \in Nat /\ emitted <= emitted'
  <2>1. Emit \/ UNCHANGED emitted
    BY DEF Next, IngestLink, HubRestart, SendLine, IngestLine, Connect,
           Server, Accept, Forward, Lag, Break, Show, vars
  <2> QED BY <1>1, <2>1 DEF Emit
<1>3. published' \in Seq(Lines) /\ Len(published) <= Len(published')
  <2>1. ASSUME NEW line \in Lines, Publish(line)
        PROVE  published' \in Seq(Lines) /\ Len(published) <= Len(published')
    BY <1>1, <2>1, PublishStep
  <2>2. CASE IngestLink
    BY <2>1, <2>2, IngestLinkStep
  <2>3. CASE \E line \in NodeLines : IngestLine(line)
    BY <2>1, <2>3, LineTypes DEF IngestLine
  <2>4. CASE UNCHANGED published
    BY <1>1, <2>4
  <2> QED BY <2>2, <2>3, <2>4
          DEF Next, Emit, HubRestart, SendLine, Connect, Server, Accept,
              Forward, Lag, Break, Show, vars
<1>4. Len(published') \in Nat
  BY <1>3, LenProperties
<1> QED BY <1>1, <1>2, <1>3, <1>4 DEF Sent

LEMMA TypeNext == HubTypeOK /\ [Next]_vars => HubTypeOK'
<1> SUFFICES ASSUME HubTypeOK, [Next]_vars PROVE HubTypeOK'
  OBVIOUS
<1>1. client' \in [Clients -> Connections]
  <2>1. CASE IngestLink
    BY <2>1, IngestLinkStep, TakeStep DEF Clients
  <2>2. CASE HubRestart
    BY <2>2, SentType DEF HubRestart
  <2>3. ASSUME NEW u \in Clients, Connect(u) \/ Server(u) \/ Break(u)
        PROVE  client' \in [Clients -> Connections]
    BY <2>3, ForwardStep, OtherClientSteps DEF Server
  <2>4. ASSUME NEW d \in Dashboards, Show(d)
        PROVE  client' \in [Clients -> Connections]
    BY <2>4, TakeStep DEF Show, Clients
  <2>5. CASE UNCHANGED client
    BY <2>5 DEF HubTypeOK
  <2> QED BY <2>1, <2>2, <2>3, <2>4, <2>5
          DEF Next, Emit, SendLine, IngestLine, vars
<1>2. unsent' \subseteq NodeLines /\ arriving' \subseteq NodeLines
  BY DEF HubTypeOK, Next, Emit, IngestLink, HubRestart, SendLine, IngestLine,
         Connect, Server, Accept, Forward, Lag, Break, Show, vars
<1>3. at' \in [Dashboards -> Nat]
  <2>1. ASSUME NEW u \in Clients, Accept(u) PROVE at' \in [Dashboards -> Nat]
    BY <2>1, SentType DEF Accept, HubTypeOK
  <2>2. ASSUME NEW d \in Dashboards, Show(d) PROVE at' \in [Dashboards -> Nat]
    <3>1. client[d].wire \in Seq(Nat) /\ client[d].wire # <<>>
      BY <2>2, SentType DEF Show, Clients
    <3>2. Head(client[d].wire) \in Nat
      BY <3>1, HeadTailProperties
    <3> QED BY <2>2, <3>2 DEF Show, HubTypeOK
  <2>3. CASE UNCHANGED at
    BY <2>3 DEF HubTypeOK
  <2> QED BY <2>1, <2>2, <2>3
          DEF Next, Emit, IngestLink, HubRestart, SendLine, IngestLine, Connect,
              Server, Forward, Lag, Break, vars
<1> QED BY <1>1, <1>2, <1>3, Grows DEF HubTypeOK

-----------------------------------------------------------------------------
(* Wires *)

LEMMA WireNext ==
    ASSUME HubTypeOK, [Next]_vars, NEW u \in Clients, WireInv(u)
    PROVE  WireInv(u)'
<1>1. /\ Sent(u) \in Nat /\ Sent(u)' \in Nat /\ Sent(u) <= Sent(u)'
      /\ client[u].cursor \in Nat /\ client[u].wire \in Seq(Nat)
      /\ Len(client[u].wire) \in Nat /\ Len(<<>>) = 0
  BY SentType, Grows, EmptySeq
<1>2. CASE client'[u] = client[u]
  BY <1>1, <1>2 DEF WireInv
<1>3. CASE client'[u] = Away
  BY <1>1, <1>3 DEF WireInv, Away
<1>4. CASE Connect(u) \/ Accept(u) \/ Lag(u)
  <2>1. \A i \in 1..Len(client[u].wire) : client[u].wire[i] \in Nat
    BY <1>1, ElementOfSeq
  <2>2. CASE Connect(u)
    BY <1>1, <2>2, OtherClientSteps DEF WireInv
  <2>3. CASE Accept(u)
    BY <1>1, <2>3, OtherClientSteps DEF WireInv
  <2>4. CASE Lag(u)
    <3> DEFINE c == client[u]
               d == client'[u]
    <3>1. /\ c.pc = "on" /\ d.pc = "on" /\ d.wire = c.wire
          /\ d.cursor = Sent(u) - Capacity /\ c.cursor < d.cursor
          /\ d.cursor <= Sent(u)
      BY <2>4, OtherClientSteps
    <3>2. Capacity \in Nat
      BY HubAssumption
    <3>3. d.cursor \in Int /\ d.cursor <= Sent(u)'
      BY <1>1, <3>1, <3>2
    <3>4. \A i \in 1..Len(c.wire) : c.wire[i] \in 1..c.cursor
      BY DEF WireInv
    <3>5. \A i, j \in 1..Len(c.wire) : i < j => c.wire[i] < c.wire[j]
      BY DEF WireInv
    <3>6. \A i \in 1..Len(c.wire) : c.wire[i] \in 1..d.cursor
      BY <1>1, <2>1, <3>1, <3>3, <3>4
    <3> HIDE DEF c, d
    <3>7. /\ d.cursor <= Sent(u)' /\ d.pc = "on"
          /\ \A i \in 1..Len(d.wire) : d.wire[i] \in 1..d.cursor
          /\ \A i, j \in 1..Len(d.wire) : i < j => d.wire[i] < d.wire[j]
      BY <3>1, <3>3, <3>5, <3>6
    <3> QED BY <3>7 DEF WireInv, d
  <2> QED BY <1>4, <2>2, <2>3, <2>4
<1>5. CASE Forward(u)
  <2> DEFINE c == client[u]
             d == client'[u]
             last == Len(c.wire) + 1
  <2>1. /\ d.pc = "on" /\ d.cursor = c.cursor + 1 /\ d.cursor <= Sent(u)
        /\ Len(d.wire) = last
        /\ \A i \in 1..Len(c.wire) : d.wire[i] = c.wire[i]
        /\ d.wire[last] = c.cursor + 1
    BY <1>5, ForwardStep
  <2>2. /\ \A i \in 1..Len(c.wire) : c.wire[i] \in 1..c.cursor
        /\ \A i, j \in 1..Len(c.wire) : i < j => c.wire[i] < c.wire[j]
        /\ c.cursor \in Nat /\ Len(c.wire) \in Nat
    BY <1>1 DEF WireInv
  <2>3. d.cursor <= Sent(u)'
    BY <1>1, <2>1, <2>2
  <2> HIDE DEF c, d
  <2>4. \A i \in 1..last : i \in 1..Len(c.wire) \/ i = last
    BY <2>2
  <2>5. ASSUME NEW i \in 1..last PROVE d.wire[i] \in 1..d.cursor
    <3>1. CASE i \in 1..Len(c.wire)
      <4>1. d.wire[i] = c.wire[i] /\ c.wire[i] \in 1..c.cursor
        BY <2>1, <2>2, <3>1
      <4> QED BY <2>1, <2>2, <4>1
    <3>2. CASE i = last
      BY <2>1, <2>2, <3>2
    <3> QED BY <2>4, <3>1, <3>2
  <2>6. \A i, j \in 1..last : i < j => d.wire[i] < d.wire[j]
    <3> SUFFICES ASSUME NEW i \in 1..last, NEW j \in 1..last, i < j
                 PROVE  d.wire[i] < d.wire[j]
      OBVIOUS
    <3>1. i \in 1..Len(c.wire)
      BY <2>2
    <3>2. d.wire[i] = c.wire[i] /\ c.wire[i] \in 1..c.cursor
      BY <2>1, <2>2, <3>1
    <3>3. CASE j = last
      BY <2>1, <2>2, <3>2, <3>3
    <3>4. CASE j # last
      <4>1. j \in 1..Len(c.wire)
        BY <2>4, <3>4
      <4> QED BY <2>1, <2>2, <3>1, <4>1
    <3> QED BY <3>3, <3>4
  <2>7. /\ d.cursor <= Sent(u)' /\ d.pc = "on"
        /\ \A i \in 1..Len(d.wire) : d.wire[i] \in 1..d.cursor
        /\ \A i, j \in 1..Len(d.wire) : i < j => d.wire[i] < d.wire[j]
    BY <2>1, <2>3, <2>5, <2>6
  <2> QED BY <2>7 DEF WireInv, d
<1>6. CASE /\ client[u].wire # <<>>
           /\ client' = [client EXCEPT ![u].wire = Tail(@)]
  <2> DEFINE c == client[u]
             d == client'[u]
  <2>1. /\ d.pc = c.pc /\ d.cursor = c.cursor
        /\ Len(c.wire) \in Nat \ {0} /\ Len(d.wire) = Len(c.wire) - 1
        /\ \A i \in 1..Len(d.wire) : d.wire[i] = c.wire[i + 1]
    BY <1>6, TakeStep
  <2>2. /\ \A i \in 1..Len(c.wire) : c.wire[i] \in 1..c.cursor
        /\ \A i, j \in 1..Len(c.wire) : i < j => c.wire[i] < c.wire[j]
        /\ c.pc = "on" /\ c.cursor <= Sent(u) /\ c.cursor \in Nat
    BY <1>1, <1>6 DEF WireInv
  <2>3. d.cursor <= Sent(u)'
    BY <1>1, <2>1, <2>2
  <2> HIDE DEF c, d
  <2>4. /\ \A i \in 1..Len(d.wire) : d.wire[i] \in 1..d.cursor
        /\ \A i, j \in 1..Len(d.wire) : i < j => d.wire[i] < d.wire[j]
    <3>1. ASSUME NEW i \in 1..Len(d.wire)
          PROVE  i + 1 \in 1..Len(c.wire) /\ d.wire[i] = c.wire[i + 1]
      BY <2>1
    <3>2. ASSUME NEW i \in 1..Len(d.wire) PROVE d.wire[i] \in 1..d.cursor
      BY <2>1, <2>2, <3>1
    <3>3. ASSUME NEW i \in 1..Len(d.wire), NEW j \in 1..Len(d.wire), i < j
          PROVE  d.wire[i] < d.wire[j]
      <4>1. i + 1 < j + 1
        BY <3>3
      <4> QED BY <2>2, <3>1, <4>1
    <3> QED BY <3>2, <3>3
  <2>5. d.pc = "on"
    BY <2>1, <2>2
  <2> QED BY <2>3, <2>4, <2>5 DEF WireInv, d
<1>7. \/ client'[u] = client[u] \/ client'[u] = Away
      \/ Connect(u) \/ Accept(u) \/ Lag(u) \/ Forward(u)
      \/ /\ client[u].wire # <<>>
         /\ client' = [client EXCEPT ![u].wire = Tail(@)]
  <2>1. CASE IngestLink
    <3>1. Link \in Clients
      BY DEF Clients
    <3>2. CASE u = Link
      BY <2>1, <3>2, IngestLinkStep
    <3>3. CASE u # Link
      BY <2>1, <3>1, <3>3, IngestLinkStep, TakeStep
    <3> QED BY <3>2, <3>3
  <2>2. CASE HubRestart
    BY <2>2 DEF HubRestart
  <2>3. ASSUME NEW v \in Clients, Connect(v) \/ Server(v) \/ Break(v)
        PROVE  \/ client'[u] = client[u] \/ client'[u] = Away
               \/ Connect(u) \/ Accept(u) \/ Lag(u) \/ Forward(u)
    <3>1. CASE v # u
      BY <2>3, <3>1, ForwardStep, OtherClientSteps DEF Server
    <3>2. CASE v = u
      BY <2>3, <3>2, OtherClientSteps DEF Server
    <3> QED BY <3>1, <3>2
  <2>4. ASSUME NEW d \in Dashboards, Show(d)
        PROVE  \/ client'[u] = client[u]
               \/ /\ client[u].wire # <<>>
                  /\ client' = [client EXCEPT ![u].wire = Tail(@)]
    <3>1. d \in Clients
      BY DEF Clients
    <3>2. CASE u = d
      BY <2>4, <3>2 DEF Show
    <3>3. CASE u # d
      BY <2>4, <3>1, <3>3, TakeStep DEF Show
    <3> QED BY <3>2, <3>3
  <2>5. CASE UNCHANGED client
    BY <2>5
  <2> QED BY <2>1, <2>2, <2>3, <2>4, <2>5
          DEF Next, Emit, SendLine, IngestLine, vars
<1> QED BY <1>2, <1>3, <1>4, <1>5, <1>6, <1>7

(* A dashboard shows a line that is ahead of it, and all between them have   *)
(* been overwritten.                                                         *)
LEMMA ShowAhead ==
    ASSUME HubTypeOK, NEW d \in Dashboards, WireInv(d), ShownInv(d), Show(d)
    PROVE  /\ client[d].pc = "on"
           /\ Head(client[d].wire) = client[d].wire[1]
           /\ Head(client[d].wire) \in (at[d] + 1)..Len(published)
           /\ \A m \in (at[d] + 1)..(Head(client[d].wire) - 1) :
                 m + Capacity <= Len(published)
<1> DEFINE c == client[d]
           n == Head(c.wire)
<1>1. d \in Clients /\ Sent(d) = Len(published)
  BY HubAssumption DEF Clients, Sent
<1>2. /\ c.wire # <<>> /\ c.cursor \in Nat /\ c.wire \in Seq(Nat)
      /\ at[d] \in Nat /\ Len(published) \in Nat
  BY <1>1, SentType DEF Show, HubTypeOK
<1>3. Len(c.wire) \in Nat \ {0} /\ n = c.wire[1]
  BY <1>2, EmptySeq
<1>4. /\ c.pc = "on" /\ n \in 1..c.cursor /\ c.cursor <= Len(published)
      /\ \A i \in 1..Len(c.wire) : i > 1 => n < c.wire[i]
  BY <1>1, <1>2, <1>3 DEF WireInv
<1>5. /\ at[d] < n
      /\ \A m \in (at[d] + 1)..c.cursor :
            \/ \E i \in 1..Len(c.wire) : c.wire[i] = m
            \/ m + Capacity <= Len(published)
  BY <1>3, <1>4 DEF ShownInv
<1> HIDE DEF c, n
<1>6. n \in (at[d] + 1)..Len(published)
  BY <1>2, <1>4, <1>5
<1>7. ASSUME NEW m \in (at[d] + 1)..(n - 1) PROVE m + Capacity <= Len(published)
  <2>1. m \in (at[d] + 1)..c.cursor /\ m < n
    BY <1>2, <1>4
  <2>2. ASSUME NEW i \in 1..Len(c.wire) PROVE c.wire[i] # m
    <3>1. i = 1 \/ i > 1
      BY <1>3
    <3>2. CASE i = 1
      BY <1>2, <1>3, <2>1, <3>2
    <3>3. CASE i > 1
      <4>1. n < c.wire[i] /\ n \in Nat
        BY <1>4, <3>3
      <4> QED BY <2>1, <4>1
    <3> QED BY <3>1, <3>2, <3>3
  <2> QED BY <1>5, <2>1, <2>2
<1> QED BY <1>3, <1>4, <1>6, <1>7 DEF c, n

LEMMA ShownNext ==
    ASSUME HubTypeOK, [Next]_vars, NEW d \in Dashboards, WireInv(d),
           ShownInv(d)
    PROVE  ShownInv(d)'
<1>1. d \in Clients /\ d # Link /\ Sent(d) = Len(published)
  BY HubAssumption DEF Clients, Sent
<1>2. /\ at[d] \in Nat /\ at \in [Dashboards -> Nat]
      /\ client[d].cursor \in Nat /\ Len(client[d].wire) \in Nat
      /\ Len(published) \in Nat /\ Len(published') \in Nat
      /\ Len(published) <= Len(published')
      /\ Capacity \in Nat \ {0} /\ Len(<<>>) = 0
  BY <1>1, SentType, Grows, HubAssumption, EmptySeq DEF HubTypeOK
<1>3. CASE client'[d] = client[d] /\ at'[d] = at[d]
  <2>1. at[d] <= Len(published')
    BY <1>2 DEF ShownInv
  <2>2. ASSUME NEW m \in (at[d] + 1)..client[d].cursor,
               m + Capacity <= Len(published)
        PROVE  m + Capacity <= Len(published')
    BY <1>2, <2>2
  <2> QED BY <1>3, <2>1, <2>2 DEF ShownInv
<1>4. CASE client'[d].pc # "on" /\ at'[d] = at[d]
  BY <1>2, <1>4 DEF ShownInv
<1>5. CASE Accept(d)
  <2>1. /\ client'[d].cursor = Len(published) /\ client'[d].wire = <<>>
        /\ at'[d] = Len(published) /\ published' = published
    BY <1>1, <1>5, OtherClientSteps DEF Accept
  <2> QED BY <1>2, <2>1 DEF ShownInv
<1>6. CASE Lag(d)
  <2> DEFINE c == client[d]
             e == client'[d]
  <2>1. /\ c.pc = "on" /\ e.pc = "on" /\ e.wire = c.wire
        /\ e.cursor = Len(published) - Capacity /\ c.cursor < e.cursor
        /\ at' = at /\ published' = published
    BY <1>1, <1>6, OtherClientSteps DEF Lag
  <2>2. /\ at[d] <= Len(published) /\ at[d] <= c.cursor
        /\ \A i \in 1..Len(c.wire) : at[d] < c.wire[i]
        /\ \A m \in (at[d] + 1)..c.cursor :
              \/ \E i \in 1..Len(c.wire) : c.wire[i] = m
              \/ m + Capacity <= Len(published)
    BY <2>1 DEF ShownInv
  <2> HIDE DEF c, e
  <2>3. ASSUME NEW m \in (at[d] + 1)..e.cursor
        PROVE  \/ \E i \in 1..Len(e.wire) : e.wire[i] = m
               \/ m + Capacity <= Len(published)
    <3>1. CASE m <= c.cursor
      BY <1>2, <2>1, <2>2, <3>1 DEF c
    <3>2. CASE m > c.cursor
      BY <1>2, <2>1, <3>2
    <3> QED BY <1>2, <3>1, <3>2 DEF c
  <2>4. at[d] <= e.cursor
    BY <1>2, <2>1, <2>2 DEF c
  <2>5. /\ at'[d] <= Len(published') /\ at'[d] <= e.cursor
        /\ \A i \in 1..Len(e.wire) : at'[d] < e.wire[i]
        /\ \A m \in (at'[d] + 1)..e.cursor :
              \/ \E i \in 1..Len(e.wire) : e.wire[i] = m
              \/ m + Capacity <= Len(published')
    BY <2>1, <2>2, <2>3, <2>4
  <2> QED BY <2>5 DEF ShownInv, e
<1>7. CASE Forward(d)
  <2> DEFINE c == client[d]
             e == client'[d]
             last == Len(c.wire) + 1
  <2>1. /\ c.pc = "on" /\ e.cursor = c.cursor + 1 /\ Len(e.wire) = last
        /\ \A i \in 1..Len(c.wire) : e.wire[i] = c.wire[i]
        /\ e.wire[last] = c.cursor + 1
        /\ at' = at /\ published' = published
    BY <1>1, <1>7, ForwardStep
  <2>2. /\ at[d] <= Len(published) /\ at[d] <= c.cursor
        /\ \A i \in 1..Len(c.wire) : at[d] < c.wire[i]
        /\ \A m \in (at[d] + 1)..c.cursor :
              \/ \E i \in 1..Len(c.wire) : c.wire[i] = m
              \/ m + Capacity <= Len(published)
        /\ c.cursor \in Nat /\ Len(c.wire) \in Nat
    BY <1>2, <2>1 DEF ShownInv
  <2> HIDE DEF c, e
  <2>3. ASSUME NEW i \in 1..last PROVE at[d] < e.wire[i]
    <3>1. CASE i = last
      BY <1>2, <2>1, <2>2, <3>1
    <3>2. CASE i # last
      <4>1. i \in 1..Len(c.wire)
        BY <2>2, <3>2
      <4> QED BY <2>1, <2>2, <4>1
    <3> QED BY <3>1, <3>2
  <2>4. ASSUME NEW m \in (at[d] + 1)..e.cursor
        PROVE  \/ \E i \in 1..last : e.wire[i] = m
               \/ m + Capacity <= Len(published)
    <3>1. last \in 1..last /\ \A i \in 1..Len(c.wire) : i \in 1..last
      BY <2>2
    <3>2. CASE m = c.cursor + 1
      BY <2>1, <3>1, <3>2
    <3>3. CASE m # c.cursor + 1
      <4>1. at[d] \in Int /\ c.cursor \in Int /\ e.cursor = c.cursor + 1
        BY <1>2, <2>1, <2>2
      <4>2. m \in Int /\ at[d] + 1 <= m /\ m <= c.cursor + 1
        BY <4>1
      <4>3. m \in (at[d] + 1)..c.cursor
        BY <3>3, <4>1, <4>2
      <4> QED BY <2>1, <2>2, <3>1, <4>3
    <3> QED BY <3>2, <3>3
  <2>5. at[d] <= e.cursor
    BY <1>2, <2>1, <2>2
  <2>6. /\ at'[d] <= Len(published') /\ at'[d] <= e.cursor
        /\ \A i \in 1..Len(e.wire) : at'[d] < e.wire[i]
        /\ \A m \in (at'[d] + 1)..e.cursor :
              \/ \E i \in 1..Len(e.wire) : e.wire[i] = m
              \/ m + Capacity <= Len(published')
    BY <2>1, <2>2, <2>3, <2>4, <2>5
  <2> QED BY <2>6 DEF ShownInv, e
<1>8. CASE Show(d)
  <2> DEFINE c == client[d]
             e == client'[d]
             n == Head(c.wire)
  <2>1. /\ c.pc = "on" /\ n = c.wire[1] /\ n \in (at[d] + 1)..Len(published)
    BY <1>8, ShowAhead
  <2>2. /\ e.pc = c.pc /\ e.cursor = c.cursor
        /\ Len(c.wire) \in Nat \ {0} /\ Len(e.wire) = Len(c.wire) - 1
        /\ \A i \in 1..Len(e.wire) : e.wire[i] = c.wire[i + 1]
    BY <1>1, <1>8, TakeStep DEF Show
  <2>3. at'[d] = n /\ published' = published
    BY <1>2, <1>8 DEF Show
  <2>4. /\ \A m \in (at[d] + 1)..c.cursor :
              \/ \E i \in 1..Len(c.wire) : c.wire[i] = m
              \/ m + Capacity <= Len(published)
        /\ \A i \in 1..Len(c.wire) : c.wire[i] \in 1..c.cursor
        /\ \A i, j \in 1..Len(c.wire) : i < j => c.wire[i] < c.wire[j]
        /\ c.cursor \in Nat
    BY <1>2, <2>1 DEF ShownInv, WireInv
  <2> HIDE DEF c, e, n
  <2>5. n \in 1..c.cursor /\ n <= Len(published)
    BY SMTT(30), <1>2, <2>1, <2>2, <2>4
  <2>6. ASSUME NEW i \in 1..Len(e.wire) PROVE n < e.wire[i]
    <3>1. /\ i + 1 \in 1..Len(c.wire) /\ 1 \in 1..Len(c.wire) /\ 1 < i + 1
      BY <2>2
    <3>2. c.wire[1] < c.wire[i + 1]
      BY <2>4, <3>1
    <3>3. e.wire[i] = c.wire[i + 1]
      BY <2>2
    <3> QED BY <2>1, <3>2, <3>3
  <2>7. ASSUME NEW m \in (n + 1)..c.cursor
        PROVE  \/ \E i \in 1..Len(e.wire) : e.wire[i] = m
               \/ m + Capacity <= Len(published)
    <3>1. m \in (at[d] + 1)..c.cursor
      BY <1>2, <2>1, <2>5
    <3>2. ASSUME NEW i \in 1..Len(c.wire), c.wire[i] = m
          PROVE  \E j \in 1..Len(e.wire) : e.wire[j] = m
      <4>1. i # 1
        BY <2>1, <2>5, <3>2
      <4>2. i - 1 \in 1..Len(e.wire) /\ (i - 1) + 1 = i
        BY <2>2, <4>1
      <4> QED BY <2>2, <3>2, <4>2
    <3> QED BY <2>4, <3>1, <3>2
  <2>8. /\ at'[d] <= Len(published') /\ at'[d] <= e.cursor
        /\ \A i \in 1..Len(e.wire) : at'[d] < e.wire[i]
        /\ \A m \in (at'[d] + 1)..e.cursor :
              \/ \E i \in 1..Len(e.wire) : e.wire[i] = m
              \/ m + Capacity <= Len(published')
    BY <2>2, <2>3, <2>5, <2>6, <2>7
  <2> QED BY <2>8 DEF ShownInv, e
<1>9. \/ client'[d] = client[d] /\ at'[d] = at[d]
      \/ client'[d].pc # "on" /\ at'[d] = at[d]
      \/ Accept(d) \/ Lag(d) \/ Forward(d) \/ Show(d)
  <2>1. CASE IngestLink
    <3>1. Link \in Clients
      BY DEF Clients
    <3>2. client'[d] = client[d]
      BY <1>1, <2>1, <3>1, IngestLinkStep, TakeStep
    <3> QED BY <2>1, <3>2, IngestLinkStep
  <2>2. CASE HubRestart
    BY <1>1, <2>2 DEF HubRestart, Away
  <2>3. ASSUME NEW v \in Clients, Connect(v) \/ Server(v) \/ Break(v)
        PROVE  \/ client'[d] = client[d] /\ at'[d] = at[d]
               \/ client'[d].pc # "on" /\ at'[d] = at[d]
               \/ Accept(d) \/ Lag(d) \/ Forward(d)
    <3>1. CASE v # d
      <4>1. client'[d] = client[d]
        BY <1>1, <2>3, <3>1, ForwardStep, OtherClientSteps DEF Server
      <4>2. at'[d] = at[d]
        <5>1. Accept(v) => at'[d] = at[d]
          BY <3>1 DEF Accept
        <5> QED BY <2>3, <5>1, ForwardStep, OtherClientSteps DEF Server
      <4> QED BY <4>1, <4>2
    <3>2. CASE v = d
      BY <1>1, <2>3, <3>2, OtherClientSteps DEF Server, Away, Connect, Break
    <3> QED BY <3>1, <3>2
  <2>4. ASSUME NEW e \in Dashboards, Show(e)
        PROVE  Show(d) \/ (client'[d] = client[d] /\ at'[d] = at[d])
    <3>1. CASE e # d
      <4>1. client'[d] = client[d]
        BY <1>1, <2>4, <3>1, TakeStep DEF Show, Clients
      <4>2. at'[d] = at[d]
        BY <1>2, <2>4, <3>1 DEF Show
      <4> QED BY <4>1, <4>2
    <3> QED BY <2>4, <3>1
  <2>5. CASE UNCHANGED <<client, at>>
    BY <2>5
  <2> QED BY <2>1, <2>2, <2>3, <2>4, <2>5
          DEF Next, Emit, SendLine, IngestLine, vars
<1> QED BY <1>3, <1>4, <1>5, <1>6, <1>7, <1>8, <1>9

-----------------------------------------------------------------------------
(* The order of xdp-hello's lines *)

(* A line is published: the lines of xdp-hello before it are older.          *)
LEMMA OrderNext ==
    ASSUME HubTypeOK, WireInv(Link), LinkInv, XdpLinesInOrder, [Next]_vars
    PROVE  /\ XdpLinesInOrder'
           /\ \A i \in 1..Len(published') : published'[i].type = "stats" =>
                 \/ i \in 1..Len(published) /\ published'[i] = published[i]
                 \/ /\ IngestLink
                    /\ published'[i].n = client[Link].wire[1]
<1>1. /\ Len(published) \in Nat /\ DOMAIN published = 1..Len(published)
      /\ published \in Seq(Lines) /\ Len(client[Link].wire) \in Nat
      /\ client[Link].wire \in Seq(Nat)
  BY SentType, LenProperties DEF HubTypeOK, Clients
<1>2. ASSUME NEW line \in Lines, Publish(line),
             line.type = "stats" =>
                IngestLink /\ line.n = client[Link].wire[1]
      PROVE  /\ XdpLinesInOrder'
             /\ \A i \in 1..Len(published') : published'[i].type = "stats" =>
                   \/ i \in 1..Len(published) /\ published'[i] = published[i]
                   \/ /\ IngestLink
                      /\ published'[i].n = client[Link].wire[1]
  <2>1. CASE published' = published
    BY <1>1, <2>1 DEF XdpLinesInOrder
  <2>2. CASE /\ published' \in Seq(Lines)
             /\ Len(published') = Len(published) + 1
             /\ \A i \in 1..Len(published) : published'[i] = published[i]
             /\ published'[Len(published) + 1] = line
    <3>1. DOMAIN published' = 1..(Len(published) + 1)
      BY <2>2, LenProperties
    <3>2. \A i \in 1..(Len(published) + 1) :
             i \in 1..Len(published) \/ i = Len(published) + 1
      BY <1>1
    <3>3. line.type = "stats" =>
             \A i \in 1..Len(published) :
                published[i].type = "stats" => published[i].n < line.n
      <4>1. IngestLink => /\ client[Link].pc = "on"
                          /\ 1 \in 1..Len(client[Link].wire)
        <5>1. IngestLink => client[Link].wire # <<>>
          BY DEF IngestLink
        <5>2. client[Link].wire # <<>> => Len(client[Link].wire) \in Nat \ {0}
          BY <1>1, EmptySeq
        <5> QED BY <5>1, <5>2 DEF WireInv
      <4> QED BY <1>2, <4>1 DEF LinkInv, Before
    <3>4. ASSUME NEW i \in DOMAIN published', NEW j \in DOMAIN published', i < j,
                 published'[i].type = "stats", published'[j].type = "stats"
          PROVE  published'[i].n < published'[j].n
      <4>1. i \in 1..Len(published)
        BY <1>1, <3>1, <3>4
      <4>2. CASE j = Len(published) + 1
        BY <2>2, <3>3, <3>4, <4>1, <4>2
      <4>3. CASE j \in 1..Len(published)
        BY <1>1, <2>2, <3>4, <4>1, <4>3 DEF XdpLinesInOrder
      <4> QED BY <3>1, <3>2, <4>2, <4>3
    <3>5. XdpLinesInOrder'
      BY <3>4 DEF XdpLinesInOrder
    <3> QED BY <1>2, <2>2, <3>2, <3>5
  <2> QED BY <1>2, <2>1, <2>2, PublishStep
<1>3. CASE IngestLink
  BY <1>2, <1>3, IngestLinkStep, LineTypes
<1>4. CASE \E line \in NodeLines : IngestLine(line)
  BY <1>2, <1>4, LineTypes DEF IngestLine
<1>5. CASE UNCHANGED published
  BY <1>1, <1>5 DEF XdpLinesInOrder
<1> QED BY <1>3, <1>4, <1>5
        DEF Next, Emit, HubRestart, SendLine, Connect, Server, Accept, Forward,
            Lag, Break, Show, vars

LEMMA LinkNext ==
    ASSUME HubTypeOK, WireInv(Link), LinkInv, XdpLinesInOrder, [Next]_vars
    PROVE  LinkInv'
<1> DEFINE c == client[Link]
           e == client'[Link]
<1>1. Link \in Clients /\ Sent(Link) = emitted
  BY DEF Clients, Sent
<1>2. /\ emitted \in Nat /\ emitted' \in Nat /\ emitted <= emitted'
      /\ c.cursor \in Nat /\ c.wire \in Seq(Nat) /\ Len(c.wire) \in Nat
      /\ Len(<<>>) = 0
  BY <1>1, SentType, Grows, EmptySeq DEF HubTypeOK
<1>3. /\ c.cursor <= emitted
      /\ \A j \in 1..Len(c.wire) : c.wire[j] \in 1..c.cursor
      /\ \A i, j \in 1..Len(c.wire) : i < j => c.wire[i] < c.wire[j]
      /\ c.wire # <<>> => c.pc = "on"
  BY <1>1 DEF WireInv
<1>4. ASSUME NEW i \in 1..Len(published), published[i].type = "stats"
      PROVE  /\ published[i].n \in Nat /\ published[i].n <= emitted
             /\ Before(published[i].n, c)
  <2>1. published[i] \in Lines
    BY ElementOfSeq DEF HubTypeOK
  <2>2. published[i].n \in Nat
    BY <1>4, <2>1, LineTypes DEF Lines
  <2> QED BY <1>4, <2>2 DEF LinkInv
(* The published lines stay, and the link does not fall back.                *)
<1>5. ASSUME ~IngestLink,
             \A n \in Nat : n <= emitted /\ Before(n, c) => Before(n, e)
      PROVE  LinkInv'
  <2> HIDE DEF c, e
  <2> SUFFICES ASSUME NEW i \in 1..Len(published'),
                      published'[i].type = "stats"
               PROVE  published'[i].n <= emitted' /\ Before(published'[i].n, e)
    BY DEF LinkInv, Before, e
  <2>1. i \in 1..Len(published) /\ published'[i] = published[i]
    BY <1>5, OrderNext
  <2>2. /\ published[i].n \in Nat /\ published[i].n <= emitted
        /\ Before(published[i].n, c)
    BY <1>4, <2>1
  <2> QED BY <1>2, <1>5, <2>1, <2>2
<1>6. CASE IngestLink
  <2>1. /\ e.pc = c.pc /\ e.cursor = c.cursor /\ c.pc = "on"
        /\ Len(c.wire) \in Nat \ {0} /\ Len(e.wire) = Len(c.wire) - 1
        /\ \A j \in 1..Len(e.wire) : e.wire[j] = c.wire[j + 1]
    BY <1>1, <1>3, <1>6, IngestLinkStep, TakeStep
  <2> DEFINE n == c.wire[1]
  <2>2. n \in 1..c.cursor
    BY <1>3, <2>1
  <2> HIDE DEF c, e, n
  <2>3. ASSUME NEW j \in 1..Len(e.wire) PROVE n < e.wire[j]
    <3>1. j + 1 \in 1..Len(c.wire) /\ 1 \in 1..Len(c.wire) /\ 1 < j + 1
      BY <2>1
    <3> QED BY <1>3, <2>1, <3>1 DEF n
  <2> SUFFICES ASSUME NEW i \in 1..Len(published'),
                      published'[i].type = "stats"
               PROVE  /\ published'[i].n <= emitted'
                      /\ published'[i].n <= e.cursor
                      /\ \A j \in 1..Len(e.wire) : published'[i].n < e.wire[j]
    BY DEF LinkInv, Before, e
  <2>4. CASE i \in 1..Len(published) /\ published'[i] = published[i]
    <3>1. /\ published[i].n \in Nat /\ published[i].n <= emitted
          /\ published[i].n <= c.cursor
          /\ \A j \in 1..Len(c.wire) : published[i].n < c.wire[j]
      BY <1>4, <2>1, <2>4 DEF Before
    <3>2. \A j \in 1..Len(e.wire) : j + 1 \in 1..Len(c.wire)
      BY <2>1
    <3>3. \A j \in 1..Len(e.wire) : published[i].n < e.wire[j]
      BY <2>1, <3>1, <3>2
    <3>4. published[i].n <= emitted' /\ published[i].n <= e.cursor
      BY <1>2, <2>1, <3>1
    <3> QED BY <2>4, <3>3, <3>4
  <2>5. CASE published'[i].n = n
    BY <1>2, <1>3, <2>1, <2>2, <2>3, <2>5
  <2> QED BY <2>4, <2>5, OrderNext DEF n, c
<1>7. CASE ~IngestLink /\ (e = c \/ e.pc # "on")
  BY <1>5, <1>7 DEF Before
<1>8. CASE Accept(Link) /\ ~IngestLink
  BY <1>1, <1>2, <1>5, <1>8, OtherClientSteps DEF Before
<1>9. CASE Lag(Link) /\ ~IngestLink
  <2>1. /\ c.pc = "on" /\ e.wire = c.wire /\ c.cursor < e.cursor
        /\ e.cursor = emitted - Capacity
    BY <1>1, <1>9, OtherClientSteps
  <2>2. Capacity \in Nat
    BY HubAssumption
  <2> HIDE DEF c, e
  <2> QED BY <1>2, <1>5, <1>9, <2>1, <2>2 DEF Before
<1>10. CASE Forward(Link) /\ ~IngestLink
  <2>1. /\ c.pc = "on" /\ e.cursor = c.cursor + 1
        /\ Len(e.wire) = Len(c.wire) + 1
        /\ \A j \in 1..Len(c.wire) : e.wire[j] = c.wire[j]
        /\ e.wire[Len(c.wire) + 1] = c.cursor + 1
    BY <1>1, <1>10, ForwardStep
  <2> HIDE DEF c, e
  <2>2. ASSUME NEW n \in Nat, n <= c.cursor,
               \A j \in 1..Len(c.wire) : n < c.wire[j]
        PROVE  n <= e.cursor /\ \A j \in 1..Len(e.wire) : n < e.wire[j]
    <3>1. n < c.cursor + 1 /\ n <= e.cursor
      BY <1>2, <2>1, <2>2
    <3>2. ASSUME NEW j \in 1..Len(e.wire) PROVE n < e.wire[j]
      <4>1. j \in 1..Len(c.wire) \/ j = Len(c.wire) + 1
        BY <1>2, <2>1
      <4> QED BY <2>1, <2>2, <3>1, <4>1
    <3> QED BY <3>1, <3>2
  <2> QED BY <1>5, <1>10, <2>1, <2>2 DEF Before
<1>11. \/ IngestLink \/ e = c \/ e.pc # "on"
       \/ Accept(Link) \/ Lag(Link) \/ Forward(Link)
  <2>1. CASE HubRestart
    BY <1>1, <2>1 DEF HubRestart, Away
  <2>2. ASSUME NEW v \in Clients, Connect(v) \/ Server(v) \/ Break(v)
        PROVE  \/ e = c \/ e.pc # "on"
               \/ Accept(Link) \/ Lag(Link) \/ Forward(Link)
    <3>1. CASE v # Link
      BY <1>1, <2>2, <3>1, ForwardStep, OtherClientSteps DEF Server
    <3>2. CASE v = Link
      BY <1>1, <2>2, <3>2, OtherClientSteps DEF Server, Away
    <3> QED BY <3>1, <3>2
  <2>3. ASSUME NEW d \in Dashboards, Show(d) PROVE e = c
    <3>1. d # Link /\ d \in Clients
      BY HubAssumption DEF Clients
    <3> QED BY <1>1, <2>3, <3>1, TakeStep DEF Show
  <2>4. CASE UNCHANGED client
    BY <2>4
  <2> QED BY <2>1, <2>2, <2>3, <2>4 DEF Next, Emit, SendLine, IngestLine, vars
<1> QED BY <1>6, <1>7, <1>8, <1>9, <1>10, <1>11

-----------------------------------------------------------------------------
(* Theorems *)

LEMMA HubInvInit == Init => HubInv
<1> SUFFICES ASSUME Init PROVE HubInv
  OBVIOUS
<1>1. <<>> \in Seq(Lines) /\ <<>> \in Seq(Nat) /\ Len(<<>>) = 0
  BY EmptySeq
<1>2. HubTypeOK
  BY <1>1 DEF Init, HubTypeOK, Away, Connections
<1>3. \A u \in Clients : WireInv(u)
  BY <1>1 DEF Init, WireInv, Away, Sent
<1>4. \A d \in Dashboards : ShownInv(d)
  BY <1>1 DEF Init, ShownInv, Away, Clients
<1>5. LinkInv /\ XdpLinesInOrder
  BY <1>1 DEF Init, LinkInv, XdpLinesInOrder
<1> QED BY <1>2, <1>3, <1>4, <1>5 DEF HubInv

LEMMA HubInvNext == HubInv /\ [Next]_vars => HubInv'
<1> SUFFICES ASSUME HubInv, [Next]_vars PROVE HubInv'
  OBVIOUS
<1>1. HubTypeOK /\ LinkInv /\ XdpLinesInOrder /\ WireInv(Link)
  BY DEF HubInv, Clients
<1>2. HubTypeOK'
  BY <1>1, TypeNext
<1>3. \A u \in Clients : WireInv(u)'
  BY <1>1, WireNext DEF HubInv
<1>4. \A d \in Dashboards : ShownInv(d)'
  BY <1>1, ShownNext DEF HubInv, Clients
<1>5. LinkInv' /\ XdpLinesInOrder'
  BY <1>1, LinkNext, OrderNext
<1>6. (\A u \in Clients : WireInv(u))' /\ (\A d \in Dashboards : ShownInv(d))'
  BY <1>3, <1>4
<1> QED BY <1>2, <1>5, <1>6 DEF HubInv

(* The inductive invariant holds throughout.                                 *)
THEOREM HubInvAlways == Spec => []HubInv
  BY HubInvInit, HubInvNext, PTL DEF Spec

(* ingest_lines, run_ebpf_client: through every lag, break and restart, the  *)
(* hub publishes the lines of xdp-hello in their order, and none twice.      *)
THEOREM XdpOrderCorrect == Spec => []XdpLinesInOrder
<1>1. HubInv => XdpLinesInOrder
  BY DEF HubInv
<1> QED BY <1>1, HubInvAlways, PTL

(* The hub publishes a line, or drops it.                                    *)
LEMMA PublishIsStream ==
    ASSUME HubTypeOK, NEW line \in Lines, Publish(line), UNCHANGED at
    PROVE  Stream!Publish \/ UNCHANGED <<published, at>>
<1>1. published \in Seq(Lines) /\ Len(published) \in Nat
  BY SentType DEF HubTypeOK
<1>2. CASE /\ Parse(line)
           /\ published' \in Seq(Lines)
           /\ Len(published') = Len(published) + 1
           /\ \A i \in 1..Len(published) : published'[i] = published[i]
           /\ published'[Len(published) + 1] = line
  <2> DEFINE old == SubSeq(published', 1, Len(published))
  <2>1. /\ old \in Seq(Lines) /\ Len(old) = Len(published)
        /\ \A i \in 1..Len(published) : old[i] = published'[i]
    BY <1>1, <1>2, SubSeqProperties
  <2>2. \A i \in 1..Len(published) : old[i] = published[i]
    BY <1>2, <2>1
  <2> HIDE DEF old
  <2>3. old = published
    BY <1>1, <2>1, <2>2, SeqEqual
  <2>4. IsEvent(published'[Len(published')])
    BY <1>2, ParsedIsEvent
  <2> QED BY <1>2, <2>3, <2>4 DEF old, Stream!Publish
<1> QED BY <1>2, PublishStep

LEMMA NextIsStream ==
    ASSUME HubInv, [Next]_vars
    PROVE  Stream!Next \/ UNCHANGED <<published, at>>
<1>1. HubTypeOK /\ at \in [Dashboards -> Nat]
  BY DEF HubInv, HubTypeOK
<1>2. CASE IngestLink
  BY <1>1, <1>2, IngestLinkStep, PublishIsStream DEF Stream!Next
<1>3. ASSUME NEW line \in NodeLines, IngestLine(line)
      PROVE  Stream!Next \/ UNCHANGED <<published, at>>
  BY <1>1, <1>3, LineTypes, PublishIsStream DEF IngestLine, Stream!Next
<1>4. ASSUME NEW u \in Clients, Accept(u)
      PROVE  Stream!Next \/ UNCHANGED <<published, at>>
  <2>1. CASE u \in Dashboards
    <3>1. Sent(u) = Len(published) /\ published' = published
      BY <1>4, <2>1, HubAssumption DEF Sent, Accept
    <3>2. at' = [at EXCEPT ![u] = Len(published)]
      BY <1>1, <1>4, <3>1 DEF Accept
    <3> QED BY <2>1, <3>1, <3>2 DEF Stream!Next, Stream!Join
  <2>2. CASE u \notin Dashboards
    BY <1>1, <1>4, <2>2 DEF Accept
  <2> QED BY <2>1, <2>2
<1>5. ASSUME NEW d \in Dashboards, Show(d) PROVE Stream!Next
  <2>1. WireInv(d) /\ ShownInv(d)
    BY DEF HubInv, Clients
  <2> DEFINE n == Head(client[d].wire)
  <2>2. /\ n \in (at[d] + 1)..Len(published)
        /\ \A m \in (at[d] + 1)..(n - 1) : m + Capacity <= Len(published)
    BY <1>1, <1>5, <2>1, ShowAhead
  <2>3. at' = [at EXCEPT ![d] = n] /\ UNCHANGED published
    BY <1>5 DEF Show
  <2> HIDE DEF n
  <2>4. Stream!Show(d, n)
    BY <2>2, <2>3 DEF Stream!Show
  <2> QED BY <2>2, <2>4 DEF Stream!Next
<1>6. CASE UNCHANGED <<published, at>>
  BY <1>6
<1> QED BY <1>2, <1>3, <1>4, <1>5, <1>6
        DEF Next, Emit, HubRestart, SendLine, Connect, Server, Forward, Lag,
            Break, vars

(* The two broadcasts and the hub between them implement the stream: each    *)
(* dashboard is shown events only, in order, none twice, and misses none but *)
(* those it was Capacity lines behind.                                       *)
THEOREM StreamImplemented == Spec => StreamPromise
<1>1. Init => Stream!Init
  BY DEF Init, Stream!Init
<1>2. HubInv /\ [Next]_vars => [Stream!Next]_(Stream!vars)
  BY NextIsStream DEF Stream!vars
<1> QED BY <1>1, <1>2, HubInvAlways, PTL DEF Spec, StreamPromise, Stream!Spec
=============================================================================
