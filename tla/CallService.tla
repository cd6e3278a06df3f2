---------------------------- MODULE CallService ----------------------------
(***************************************************************************)
(* What a caller of zencached's addJobAndWait may rely on, whatever the    *)
(* pool behind it looks like: a call is served at most once, it returns    *)
(* only after it was served, and nobody else returns it.  Memcached        *)
(* commands are not idempotent (add, delete), so serving one twice would   *)
(* change what the client is told.  The process may die at any moment; a   *)
(* call that is never served is allowed here, being a question of          *)
(* liveness.                                                               *)
(***************************************************************************)
CONSTANT Clients

VARIABLES call, alive

vars == <<call, alive>>

CallTypeOK ==
    /\ call \in [Clients -> {"idle", "pending", "served"}]
    /\ alive \in BOOLEAN

Init ==
    /\ call = [c \in Clients |-> "idle"]
    /\ alive = TRUE

Move(c, from, to) ==
    /\ alive
    /\ call[c] = from
    /\ call' = [call EXCEPT ![c] = to]
    /\ UNCHANGED alive

Call(c) == Move(c, "idle", "pending")
Serve(c) == Move(c, "pending", "served")
Return(c) == Move(c, "served", "idle")

Die == alive /\ alive' = FALSE /\ UNCHANGED call

Next == (\E c \in Clients : Call(c) \/ Serve(c) \/ Return(c)) \/ Die

Spec == Init /\ [][Next]_vars
=============================================================================
