------------------------------ MODULE KeyStore ------------------------------
(***************************************************************************)
(* What a caller of Get, Set, Add and Delete may rely on, for one key of   *)
(* one node and one command at a time.                                     *)
(*                                                                         *)
(* A command is executed at most once, atomically.  A result is the one of *)
(* its execution, which took place before the command returned.  After an  *)
(* error, or no result, the command may have been executed, may be         *)
(* executed later, beside other commands, or never.                        *)
(***************************************************************************)
EXTENDS Naturals, Memcached

CONSTANT NoReply

VARIABLES
    store,    \* the value of the key, or Absent
    phase,    \* "idle", "called", "applied", "abandoned"
    call,     \* [request, command], where the number tells equal commands apart
    reply,    \* what its execution gave, or NoReply
    report,   \* what the last command returned, or Error before it did
    late      \* commands given up that the server may still execute

vars == <<store, phase, call, reply, report, late>>

Init ==
    /\ phase = "idle"
    /\ reply = NoReply
    /\ report = Error
    /\ late = {}

Invoke ==
    /\ phase = "idle"
    /\ phase' = "called"
    /\ call'.request > call.request
    /\ reply' = NoReply
    /\ report' = Error
    /\ UNCHANGED <<store, late>>

(* The connection is known to be broken: the command is not sent. *)
Refuse ==
    /\ phase = "idle"
    /\ report' = Error
    /\ reply' = NoReply
    /\ UNCHANGED <<store, phase, late>>

Apply ==
    /\ phase = "called"
    /\ phase' = "applied"
    /\ store' = StoreAfter(call.command, store)
    /\ reply' = ReplyTo(call.command, store)
    /\ UNCHANGED <<call, report, late>>

GiveUp ==
    /\ phase = "called"
    /\ phase' = "abandoned"
    /\ late' \in {late, late \cup {call}}
    /\ UNCHANGED <<store, call, reply, report>>

ApplyLate ==
    /\ \E c \in late : store' = StoreAfter(c.command, store) /\ late' = late \ {c}
    /\ UNCHANGED <<phase, call, reply, report>>

LoseLate ==
    /\ \E c \in late : late' = late \ {c}
    /\ UNCHANGED <<store, phase, call, reply, report>>

Return ==
    /\ phase = "applied"
    /\ phase' = "idle"
    /\ report' = reply
    /\ UNCHANGED <<store, call, reply, late>>

(* "None" comes without an error: the connection ended within the answer. *)
Fail ==
    /\ phase # "idle"
    /\ phase' = "idle"
    /\ report' \in {Error, Plain("None")}
    /\ late' \in {late} \cup IF phase = "called" THEN {late \cup {call}} ELSE {}
    /\ UNCHANGED <<store, call, reply>>

(* Expiry, eviction, a restart of memcached. *)
Forget ==
    /\ store' = Absent
    /\ UNCHANGED <<phase, call, reply, report, late>>

Next ==
    \/ Invoke \/ Refuse \/ Apply \/ GiveUp \/ ApplyLate \/ LoseLate \/ Return \/ Fail \/ Forget

Spec == Init /\ [][Next]_vars
=============================================================================
