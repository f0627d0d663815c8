---------------------------- MODULE ModeRegister ----------------------------
(* The defense mode as those who control it may think of it: one value that  *)
(* a command changes at one moment between its call and its answer, and only *)
(* if it is answered with ok.                                                *)
CONSTANTS Clients, Modes

VARIABLES mode,      \* what the packets meet
          pending,   \* the mode each client asked for and does not have yet
          result     \* the answer each client has: "none", "ok" or "error"

vars == <<mode, pending, result>>

NotAsked == "none"

Init == /\ mode \in Modes
        /\ pending = [c \in Clients |-> NotAsked]
        /\ result = [c \in Clients |-> "none"]

Call(c, m) == /\ pending[c] = NotAsked /\ result[c] = "none"
              /\ pending' = [pending EXCEPT ![c] = m]
              /\ UNCHANGED <<mode, result>>

Answer(c, r) == /\ pending[c] # NotAsked
                /\ pending' = [pending EXCEPT ![c] = NotAsked]
                /\ result' = [result EXCEPT ![c] = r]

Take(c) == Answer(c, "ok") /\ mode' = pending[c]

Refuse(c) == Answer(c, "error") /\ UNCHANGED mode

Return(c) == /\ result[c] # "none"
             /\ result' = [result EXCEPT ![c] = "none"]
             /\ UNCHANGED <<mode, pending>>

Next == \E c \in Clients :
           \/ \E m \in Modes : Call(c, m)
           \/ Take(c) \/ Refuse(c) \/ Return(c)

Spec == Init /\ [][Next]_vars
=============================================================================
