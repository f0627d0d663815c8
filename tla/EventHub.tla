------------------------------ MODULE EventHub ------------------------------
(* The way of an event to the dashboards (tools/observation-hub/src/main.rs).*)
(* xdp-hello broadcasts its lines over a channel to the hub's eBPF client;   *)
(* the hub parses these, and the lines that traffic-node and the runner      *)
(* bring one connection each, and broadcasts them over a channel of its own  *)
(* to the dashboards. Both broadcasts are the same code: a task per          *)
(* connection receives from the channel, which overwrites its oldest line    *)
(* when it is full, and writes to a socket. Clients that lose their          *)
(* connection come back after a pause.                                       *)
EXTENDS ExperimentRun

CONSTANTS Dashboards,    \* clients of the hub
          Attentive,     \* those of them that read what they are sent
          NodeLines,     \* lines that traffic-node and the runner send
          Capacity,      \* of the two broadcast channels
          WireSize,      \* lines a socket takes before its writer waits
          MaxEmitted,    \* bound: lines of xdp-hello
          MaxBreaks      \* bound: connections that break, restarts

Link == "eBPF client"
Clients == Dashboards \cup {Link}

(* What the two senders make, or anything else; statistics are xdp-hello's.  *)
ASSUME HubAssumption ==
    /\ Attentive \subseteq Dashboards /\ Link \notin Dashboards
    /\ \A line \in NodeLines :
          line.type \in {"attack_state", "experiment_run", "garbage"}
    /\ Capacity \in Nat \ {0} /\ WireSize \in Nat \ {0}
    /\ MaxEmitted \in Nat /\ MaxBreaks \in Nat

VARIABLES
    emitted,      \* how many lines xdp-hello has sent to its channel
    unsent,       \* lines that traffic-node and the runner still send
    arriving,     \* those that are on their way
    published,    \* what the hub has sent to its channel
    client,       \* each client's connection, and its task at the server
    at,           \* the line of `published' each dashboard is past
    breaks        \* how many connections broke

vars == <<emitted, unsent, arriving, published, client, at, breaks>>
-----------------------------------------------------------------------------
(* What the channel that a client subscribes to has been sent so far. *)
Sent(u) == IF u = Link THEN emitted ELSE Len(published)

Away == [pc |-> "away", cursor |-> 0, wire |-> <<>>]

Init ==
    /\ emitted = 0 /\ published = <<>>
    /\ unsent = NodeLines /\ arriving = {}
    /\ client = [u \in Clients |-> Away]
    /\ at = [d \in Dashboards |-> 0]
    /\ breaks = 0
-----------------------------------------------------------------------------
(* A broadcast server and one of its clients *)

(* The client, its pause over, is connected before the server accepts it. *)
Connect(u) ==
    /\ client[u].pc = "away"
    /\ client' = [client EXCEPT ![u].pc = "backlog"]
    /\ UNCHANGED <<emitted, unsent, arriving, published, at, breaks>>

(* Mutant of Accept: the channel is replayed to the new subscriber. *)
AcceptReplays(u) ==
    /\ client[u].pc = "backlog"
    /\ client' = [client EXCEPT ![u] =
                     [pc |-> "on", cursor |-> Monus(Sent(u), Capacity),
                      wire |-> <<>>]]
    /\ at' = [d \in Dashboards |-> IF d = u THEN Sent(u) ELSE at[d]]
    /\ UNCHANGED <<emitted, unsent, arriving, published, breaks>>

(* tx.subscribe(): from here on. *)
Accept(u) ==
    /\ client[u].pc = "backlog"
    /\ client' = [client EXCEPT ![u] = [pc |-> "on", cursor |-> Sent(u),
                                        wire |-> <<>>]]
    /\ at' = [d \in Dashboards |-> IF d = u THEN Sent(u) ELSE at[d]]
    /\ UNCHANGED <<emitted, unsent, arriving, published, breaks>>

(* The task is not in the middle of a write. *)
Receiving(u) == client[u].pc = "on" /\ Len(client[u].wire) < WireSize

Forward(u) ==
    /\ Receiving(u)
    /\ Sent(u) - client[u].cursor \in 1..Capacity
    /\ LET next == client[u].cursor + 1
       IN  client' = [client EXCEPT ![u] =
                         [@ EXCEPT !.cursor = next,
                                   !.wire = Append(client[u].wire, next)]]
    /\ UNCHANGED <<emitted, unsent, arriving, published, at, breaks>>

(* Mutant of Lag: the task resumes with the newest line. *)
LagToTail(u) ==
    /\ Receiving(u)
    /\ Sent(u) - client[u].cursor > Capacity
    /\ client' = [client EXCEPT ![u].cursor = Sent(u)]
    /\ UNCHANGED <<emitted, unsent, arriving, published, at, breaks>>

(* RecvError::Lagged: the task resumes with the oldest line there is. *)
Lag(u) ==
    /\ Receiving(u)
    /\ Sent(u) - client[u].cursor > Capacity
    /\ client' = [client EXCEPT ![u].cursor = Sent(u) - Capacity]
    /\ UNCHANGED <<emitted, unsent, arriving, published, at, breaks>>

(* A connection breaks, or a client or xdp-hello restarts: what its socket   *)
(* holds is lost.                                                            *)
Break(u) ==
    /\ client[u].pc # "away" /\ breaks < MaxBreaks
    /\ breaks' = breaks + 1
    /\ client' = [client EXCEPT ![u] = Away]
    /\ UNCHANGED <<emitted, unsent, arriving, published, at>>

(* The hub restarts: every connection, and the lines it has not read, are    *)
(* gone; `published' keeps what was published.                               *)
HubRestart ==
    /\ breaks < MaxBreaks
    /\ breaks' = breaks + 1
    /\ client' = [u \in Clients |-> Away]
    /\ arriving' = {}
    /\ UNCHANGED <<emitted, unsent, published, at>>
-----------------------------------------------------------------------------
(* Lines *)

FromXdp(n) == [type |-> "stats", n |-> n]

(* Mutant of Parse: a run is not validated. *)
ParseAnyRun(line) == line.type # "garbage"

(* parse_upstream_line *)
Parse(line) ==
    /\ line.type # "garbage"
    /\ line.type = "experiment_run" => IsValid(line.run)

Publish(line) ==
    published' = IF Parse(line) THEN Append(published, line) ELSE published

(* xdp-hello: the ticker, a ring buffer event or a change of the mode. *)
Emit ==
    /\ emitted < MaxEmitted
    /\ emitted' = emitted + 1
    /\ UNCHANGED <<unsent, arriving, published, client, at, breaks>>

(* publish_event, publish_run: connected, written, closed. *)
SendLine(line) ==
    /\ line \in unsent
    /\ unsent' = unsent \ {line} /\ arriving' = arriving \cup {line}
    /\ UNCHANGED <<emitted, published, client, at, breaks>>

(* ingest_lines: of a sender's connection, and of the one to xdp-hello.      *)
IngestLine(line) ==
    /\ line \in arriving
    /\ arriving' = arriving \ {line}
    /\ Publish(line)
    /\ UNCHANGED <<emitted, unsent, client, at, breaks>>

IngestLink ==
    /\ client[Link].wire # <<>>
    /\ Publish(FromXdp(Head(client[Link].wire)))
    /\ client' = [client EXCEPT ![Link].wire = Tail(@)]
    /\ UNCHANGED <<emitted, unsent, arriving, at, breaks>>

(* A dashboard takes the next line from its socket. *)
Show(d) ==
    /\ client[d].wire # <<>>
    /\ at' = [at EXCEPT ![d] = Head(client[d].wire)]
    /\ client' = [client EXCEPT ![d].wire = Tail(@)]
    /\ UNCHANGED <<emitted, unsent, arriving, published, breaks>>

-----------------------------------------------------------------------------
Server(u) == Accept(u) \/ Forward(u) \/ Lag(u)

Next ==
    \/ Emit \/ IngestLink \/ HubRestart
    \/ \E line \in NodeLines : SendLine(line) \/ IngestLine(line)
    \/ \E u \in Clients : Connect(u) \/ Server(u) \/ Break(u)
    \/ \E d \in Dashboards : Show(d)

(* The servers and the hub run on, and clients come back. Nobody has to read *)
(* but the attentive dashboards.                                             *)
Fairness ==
    /\ WF_vars(IngestLink)
    /\ \A line \in NodeLines : WF_vars(IngestLine(line))
    /\ \A u \in Clients : WF_vars(Connect(u)) /\ WF_vars(Server(u))
    /\ \A d \in Attentive : WF_vars(Show(d))

Spec == Init /\ [][Next]_vars /\ Fairness
-----------------------------------------------------------------------------
(* Properties *)

(* What dashboards may expect: EventStream, with runs that add up and lines  *)
(* that are events. However slow another client is, or often a connection    *)
(* breaks, a line is shown once, in order, and passed over only by those it  *)
(* is Capacity lines behind.                                                 *)
IsEvent(line) ==
    /\ line.type \in {"stats", "attack_state", "experiment_run"}
    /\ line.type = "experiment_run" =>
          line.run.received <= line.run.sent /\ line.run.health.checks > 0
Stream == INSTANCE EventStream
StreamPromise == Stream!Spec

(* The lines of xdp-hello keep their order on both ways and through every    *)
(* reconnection, and none is published twice.                                *)
XdpLinesInOrder ==
    \A i, j \in DOMAIN published :
        /\ i < j
        /\ published[i].type = "stats" /\ published[j].type = "stats"
        => published[i].n < published[j].n

(* A dashboard that reads is up to date in the end: also behind broken       *)
(* connections, after lines it was too slow for, and beside a dashboard that *)
(* never reads at all.                                                       *)
DashboardsCatchUp ==
    <>[](/\ arriving = {} /\ client[Link].cursor = emitted
         /\ client[Link].wire = <<>>
         /\ \A d \in Attentive :
               client[d].pc = "on" /\ at[d] = Len(published))
=============================================================================
