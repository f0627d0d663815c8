----------------------------- MODULE LoadSwitch -----------------------------
(* The load as those who control it may think of it. Each command switches   *)
(* it, or looks at it, at one moment between its call and its answer, and    *)
(* the count of packets in the answer is of a later moment. Packets leave in *)
(* bursts: a burst begins only while the load is on, and is bounded.         *)
EXTENDS Integers

CONSTANTS Clients, Commands, NoCommand,
          Invalid,   \* commands that are refused
          Burst      \* the packets of a burst

VARIABLES on,       \* is the load on?
          burst,    \* packets of the burst in progress that have yet to leave
          sent,     \* packets that have left
          client    \* where each client is, its command and its answer

vars == <<on, burst, sent, client>>

At(stage, req, state, n) ==
    [stage |-> stage, req |-> req, on |-> state, count |-> n]

Free == At("free", NoCommand, FALSE, 0)

Init == /\ on = FALSE /\ burst = 0 /\ sent = 0
        /\ client = [c \in Clients |-> Free]

Call(c) ==
    /\ client[c].stage = "free"
    /\ \E req \in Commands :
          client' = [client EXCEPT ![c] = At("asked", req, FALSE, 0)]
    /\ UNCHANGED <<on, burst, sent>>

(* What the load is after a command has taken effect. *)
After(cmd) == CASE cmd = "start" -> TRUE
                [] cmd = "stop" -> FALSE
                [] cmd = "status" -> on

Take(c) ==
    /\ client[c].stage = "asked" /\ client[c].req \notin Invalid
    /\ on' = After(client[c].req.cmd)
    /\ client' = [client EXCEPT ![c] = At("taken", @.req, on', @.count)]
    /\ UNCHANGED <<burst, sent>>

(* The counter is at most one packet behind what has left. *)
Answer(c) ==
    /\ client[c].stage = "taken"
    /\ \E n \in {sent, sent - 1} :
          client' = [client EXCEPT ![c] = At("answered", @.req, @.on, n)]
    /\ UNCHANGED <<on, burst, sent>>

Leaves(c) == /\ client' = [client EXCEPT ![c] = Free]
             /\ UNCHANGED <<on, burst, sent>>

Refuse(c) == /\ client[c].stage = "asked" /\ client[c].req \in Invalid
             /\ Leaves(c)

Return(c) == client[c].stage = "answered" /\ Leaves(c)

(* Somebody at the machine itself. *)
Operate == on' \in BOOLEAN /\ UNCHANGED <<burst, sent, client>>

Tick == /\ on /\ burst = 0 /\ burst' \in 1..Burst
        /\ UNCHANGED <<on, sent, client>>

Depart == /\ burst > 0 /\ burst' = burst - 1 /\ sent' = sent + 1
          /\ UNCHANGED <<on, client>>

GiveUp == /\ burst > 0 /\ burst' = 0
          /\ UNCHANGED <<on, sent, client>>

Next == \/ Tick \/ Depart \/ GiveUp \/ Operate
        \/ \E c \in Clients : \/ Call(c) \/ Take(c) \/ Answer(c)
                              \/ Refuse(c) \/ Return(c)

Spec == Init /\ [][Next]_vars
=============================================================================
