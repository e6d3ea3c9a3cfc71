---------------------------- MODULE HttpExchange ----------------------------
(***************************************************************************)
(* What an application may rely on for one request: while its handlers     *)
(* run, one response is written, never a second; handlers may ask for      *)
(* cleanup blocks; once the handlers are over, and the response with them, *)
(* the blocks run, each once, in the order they were registered; then the  *)
(* request is gone.                                                        *)
(***************************************************************************)
EXTENDS Naturals, Sequences

CONSTANT Blocks     \* cleanup blocks a handler may register

VARIABLES phase,    \* "handling", "cleaning", "freed"
          responses, \* written to the client
          pending   \* cleanup blocks still to run, in order

vars == <<phase, responses, pending>>

Init == phase = "handling" /\ responses = 0 /\ pending = <<>>

Answer ==
    /\ phase = "handling" /\ responses = 0
    /\ responses' = 1
    /\ UNCHANGED <<phase, pending>>

Register ==
    /\ phase = "handling"
    /\ \E b \in Blocks : pending' = Append(pending, b)
    /\ UNCHANGED <<phase, responses>>

EndHandling ==
    /\ phase = "handling" /\ responses = 1
    /\ phase' = "cleaning"
    /\ UNCHANGED <<responses, pending>>

Clean ==
    /\ phase = "cleaning" /\ pending # <<>>
    /\ pending' = Tail(pending)
    /\ UNCHANGED <<phase, responses>>

Free ==
    /\ phase = "cleaning" /\ pending = <<>>
    /\ phase' = "freed"
    /\ UNCHANGED <<responses, pending>>

Next == Answer \/ Register \/ EndHandling \/ Clean \/ Free

Spec == Init /\ [][Next]_vars
=============================================================================
