------------------------------- MODULE Telnet -------------------------------
(***************************************************************************)
(* One Telnet object (telnet.go): the worker that sends commands on it and *)
(* reads their answers, the TCP connection and the server behind it, and   *)
(* the goroutine that checks the connection.                               *)
(*                                                                         *)
(* An answer is a sequence of tokens, the units the network may cut it     *)
(* into.  A token on the wire carries the number of the request it         *)
(* answers.  The server executes a command some time after it was written, *)
(* and answers it then; module Commands says what the commands do.         *)
(*                                                                         *)
(* A failure is reported here in one step; module NodeWorkers models what  *)
(* becomes of the signal.                                                  *)
(***************************************************************************)
EXTENDS Naturals, Sequences, SequencesExt

CONSTANTS
    Addresses,       \* what the host name may resolve to
    NoAddress,       \* t.address after a failed resolution
    Commands,        \* what Send may be given
    Tokens,
    Answers,         \* what the server may answer to each command
    ResponseSet,     \* of each command: patterns to look for, with their ResultTypes
    ReadBufferSize,  \* tokens one Read takes at most
    MaxRequests      \* a bound on the requests of a behaviour

Types == UNION {{ResponseSet[c][i].type : i \in DOMAIN ResponseSet[c]} : c \in Commands}

ASSUME AddressAssumption == NoAddress \notin Addresses /\ Addresses # {}
ASSUME AnswerAssumption ==
    Commands # {} /\ \A c \in Commands : \A a \in Answers[c] : a \in Seq(Tokens) /\ a # <<>>
ASSUME ResponseAssumption ==
    /\ \A c \in Commands : ResponseSet[c] \in Seq([pattern : Seq(Tokens), type : Types])
    /\ Types \cap {"error", "none"} = {}
ASSUME SizeAssumption == ReadBufferSize \in Nat \ {0} /\ MaxRequests \in Nat

VARIABLES
    connection,  \* "open", "dead" when the server closed it, "nil"
    address,
    onFailure,
    pc,          \* where the worker is in Send, Read or reconnect
    op,          \* what was interrupted by a reconnection
    request,     \* number of requests made
    command,     \* the last one
    received,    \* requests the server has of this connection and did not answer
    answer,      \* what the server answered to the last one
    arriving,    \* tokens on their way, or in the socket, of this connection
    fullBuffer,
    result,      \* what Send or Read returned last: an error or data and type
    checker,
    panicked     \* checkConnection dereferenced a nil address

wire == <<received, answer, arriving>>
sent == <<request, command>>
vars == <<connection, address, onFailure, pc, op, sent, wire, fullBuffer, result, checker,
          panicked>>

Piece == [request : 1 .. MaxRequests, token : Tokens]

(* What an error is returned with. *)
Failed == [type |-> "error", data |-> <<>>]

TypeOK ==
    /\ connection \in {"open", "dead", "nil"}
    /\ address \in Addresses \cup {NoAddress}
    /\ onFailure \in BOOLEAN
    /\ pc \in {"idle", "write", "read", "reading", "resolve", "dial", "closed"}
    /\ op \in {"write", "read"}
    /\ request \in 0 .. MaxRequests
    /\ command \in Commands
    /\ received \in Seq([request : 1 .. MaxRequests, command : Commands])
    /\ answer \in Seq(Piece)
    /\ arriving \in Seq(Piece)
    /\ fullBuffer \in Seq(Piece)
    /\ result \in [type : Types \cup {"none"}, data : Seq(Piece)] \cup {Failed}
    /\ checker \in {"select", "test", "stopped"}
    /\ panicked \in BOOLEAN

(* connect, and go t.checkConnection(). *)
Init ==
    /\ connection = "open"
    /\ address \in Addresses
    /\ onFailure = FALSE
    /\ pc = "idle"
    /\ op = "write"
    /\ request = 0
    /\ command = CHOOSE c \in Commands : TRUE
    /\ received = <<>>
    /\ answer = <<>>
    /\ arriving = <<>>
    /\ fullBuffer = <<>>
    /\ result = Failed
    /\ checker = "select"
    /\ panicked = FALSE

-----------------------------------------------------------------------------
Return(r) ==
    /\ pc' = "idle"
    /\ result' = r
    /\ op' = "write"
    /\ fullBuffer' = <<>>

(* What was on the old connection is gone with it. *)
Disconnect ==
    /\ connection' = "nil"
    /\ received' = <<>>
    /\ arriving' = <<>>

(* Send, until the first test of onFailure. *)
Send ==
    /\ pc = "idle"
    /\ request < MaxRequests
    /\ request' = request + 1
    /\ command' \in Commands
    /\ answer' = <<>>
    /\ result' = Failed
    /\ pc' = IF onFailure THEN "idle" ELSE "write"
    /\ UNCHANGED <<connection, address, onFailure, op, received, arriving, fullBuffer,
                   checker, panicked>>

(* Mutant of WriteSucceeds: a missing connection is not noticed. *)
WriteUnchecked ==
    /\ pc = "write"
    /\ pc' = "read"
    /\ UNCHANGED <<connection, address, onFailure, op, sent, wire, fullBuffer,
                   result, checker, panicked>>

(* The command is written; an open connection brings it to the server. *)
WriteSucceeds ==
    /\ pc = "write"
    /\ connection # "nil"
    /\ pc' = "read"
    /\ received' = IF connection = "open"
                   THEN Append(received, [request |-> request, command |-> command])
                   ELSE received
    /\ UNCHANGED <<connection, address, onFailure, op, sent, answer, arriving,
                   fullBuffer, result, checker, panicked>>

(* A missing or a broken connection is reported by send. *)
WriteFails ==
    /\ pc = "write"
    /\ onFailure' = TRUE
    /\ Return(Failed)
    /\ UNCHANGED <<connection, address, sent, wire, checker, panicked>>

(* Read begins with the second test of onFailure. *)
ReadStarts ==
    /\ pc = "read"
    /\ IF onFailure THEN Return(Failed)
       ELSE pc' = "reading" /\ UNCHANGED <<result, op, fullBuffer>>
    /\ UNCHANGED <<connection, address, onFailure, sent, wire, checker, panicked>>

(* findLastIndexOfByteSlice, backwards from the end of s: with j > 0 tokens  *)
(* of sep still to be matched, or 0 to look for its last one.  What breaks a *)
(* match is not looked at again, and a single token is never found.          *)
Occurs(s, sep) ==
    LET found[i \in 0 .. Len(s), j \in 0 .. Len(sep)] ==
            /\ i > 0
            /\ IF j = 0
               THEN found[i - 1, IF s[i] = sep[Len(sep)] THEN Len(sep) - 1 ELSE 0]
               ELSE IF s[i] = sep[j] THEN j = 1 \/ found[i - 1, j - 1] ELSE found[i - 1, 0]
    IN  s # <<>> /\ sep # <<>> /\ found[Len(s), 0]

(* The first pattern of the responseSet that is in the chunk just read. *)
Matches(chunk) ==
    LET s == [i \in DOMAIN chunk |-> chunk[i].token]
    IN  {i \in DOMAIN ResponseSet[command] : Occurs(s, ResponseSet[command][i].pattern)}

ResultType(chunk) ==
    ResponseSet[command][CHOOSE i \in Matches(chunk) : \A j \in Matches(chunk) : i <= j].type

(* What one t.connection.Read may give: what has come so far, as far as the *)
(* buffer goes, and at least one token.                                     *)
Chunks == {SubSeq(arriving, 1, n) : n \in 1 .. Min({Len(arriving), ReadBufferSize})}

(* Mutant of ReadChunk: what came before this chunk is forgotten. *)
ReadLastChunk ==
    /\ pc = "reading"
    /\ \E chunk \in Chunks :
         /\ arriving' = SubSeq(arriving, Len(chunk) + 1, Len(arriving))
         /\ IF Matches(chunk) # {}
            THEN Return([type |-> ResultType(chunk), data |-> chunk])
            ELSE fullBuffer' = chunk /\ UNCHANGED <<pc, result, op>>
    /\ UNCHANGED <<connection, address, onFailure, sent, received, answer, checker, panicked>>

ReadChunk ==
    /\ pc = "reading"
    /\ \E chunk \in Chunks :
         /\ arriving' = SubSeq(arriving, Len(chunk) + 1, Len(arriving))
         /\ IF Matches(chunk) # {}
            THEN Return([type |-> ResultType(chunk), data |-> fullBuffer \o chunk])
            ELSE fullBuffer' = fullBuffer \o chunk /\ UNCHANGED <<pc, result, op>>
    /\ UNCHANGED <<connection, address, onFailure, sent, received, answer, checker, panicked>>

(* io.EOF is no error: what was read is returned without a type. *)
ReadEOF ==
    /\ pc = "reading"
    /\ connection = "dead"
    /\ arriving = <<>>
    /\ Return([type |-> "none", data |-> fullBuffer])
    /\ UNCHANGED <<connection, address, onFailure, sent, wire, checker, panicked>>

(* Mutant of ReadFails: what was read is returned beside the error. *)
ReadFailsPartly ==
    /\ pc = "reading"
    /\ connection = "dead"
    /\ onFailure' = TRUE
    /\ Return([type |-> "error", data |-> fullBuffer])
    /\ UNCHANGED <<connection, address, sent, wire, checker, panicked>>

(* Any other error of the connection. *)
ReadFails ==
    /\ pc = "reading"
    /\ connection = "dead"
    /\ onFailure' = TRUE
    /\ Return(Failed)
    /\ UNCHANGED <<connection, address, sent, wire, checker, panicked>>

(* Mutant of TimesOut: reads have no deadline. *)
WriteTimesOut ==
    /\ pc = "write"
    /\ connection # "nil"
    /\ op' = "write"
    /\ pc' = "resolve"
    /\ Disconnect
    /\ UNCHANGED <<address, onFailure, sent, answer, fullBuffer, result, checker, panicked>>

(* Mutant of TimesOut: the connection is kept. *)
TimesOutOnly ==
    /\ pc \in {"write", "reading"}
    /\ connection # "nil"
    /\ Return(Failed)
    /\ UNCHANGED <<connection, address, onFailure, sent, wire, checker, panicked>>

(* The deadline passes, of the configuration or of the context: reconnect   *)
(* closes the connection and connects again.                                *)
TimesOut ==
    /\ pc \in {"write", "reading"}
    /\ connection # "nil"
    /\ op' = IF pc = "write" THEN "write" ELSE "read"
    /\ pc' = "resolve"
    /\ fullBuffer' = <<>>
    /\ Disconnect
    /\ UNCHANGED <<address, onFailure, sent, answer, result, checker, panicked>>

(* A failed reconnection is reported by send and not by read. *)
ReconnectFails ==
    /\ onFailure' = (onFailure \/ op = "write")
    /\ Return(Failed)

Resolve ==
    /\ pc = "resolve"
    /\ \/ /\ address' \in Addresses
          /\ pc' = "dial"
          /\ UNCHANGED <<onFailure, result, op, fullBuffer>>
       \/ /\ address' = NoAddress
          /\ ReconnectFails
    /\ UNCHANGED <<connection, sent, wire, checker, panicked>>

Dial ==
    /\ pc = "dial"
    /\ \/ connection' = "open" /\ Return(Failed) /\ UNCHANGED onFailure
       \/ ReconnectFails /\ UNCHANGED connection
    /\ UNCHANGED <<address, sent, wire, checker, panicked>>

(* work leaves its loop.  The end signal reaches nobody (see NodeWorkers). *)
Close ==
    /\ pc = "idle"
    /\ pc' = "closed"
    /\ Disconnect
    /\ UNCHANGED <<address, onFailure, op, sent, answer, fullBuffer, result, checker,
                   panicked>>

(* The worker inside Send or Read. *)
Proceeds ==
    \/ WriteSucceeds \/ WriteFails \/ ReadStarts \/ ReadChunk \/ ReadEOF \/ ReadFails
    \/ TimesOut \/ Resolve \/ Dial

WorkerStep == Send \/ Proceeds \/ Close

-----------------------------------------------------------------------------
(* The server and the network. *)
ServerAnswersWith(a) ==
    /\ received # <<>>
    /\ connection = "open"
    /\ LET r == Head(received)
           pieces == [i \in DOMAIN a |-> [request |-> r.request, token |-> a[i]]]
       IN  /\ arriving' = arriving \o pieces
           /\ answer' = IF r.request = request THEN pieces ELSE answer
    /\ received' = Tail(received)
    /\ UNCHANGED <<connection, address, onFailure, pc, op, sent, fullBuffer, result,
                   checker, panicked>>

ServerAnswers ==
    /\ received # <<>>
    /\ \E a \in Answers[Head(received).command] : ServerAnswersWith(a)

(* The connection breaks; part of what the server was sending still comes. *)
ServerCloses ==
    /\ connection = "open"
    /\ connection' = "dead"
    /\ received' = <<>>
    /\ \E n \in 0 .. Len(arriving) : arriving' = SubSeq(arriving, 1, n)
    /\ UNCHANGED <<address, onFailure, pc, op, sent, answer, fullBuffer, result, checker,
                   panicked>>

-----------------------------------------------------------------------------
(* checkConnection: on a tick, unless the connection is on failure. *)
CheckerTick ==
    /\ checker = "select"
    /\ ~onFailure
    /\ checker' = "test"
    /\ UNCHANGED <<connection, address, onFailure, pc, op, sent, wire, fullBuffer,
                   result, panicked>>

(* The name resolves to the address in use, which accepts a connection. *)
CheckerPasses ==
    /\ checker = "test"
    /\ address # NoAddress
    /\ checker' = "select"
    /\ UNCHANGED <<connection, address, onFailure, pc, op, sent, wire, fullBuffer,
                   result, panicked>>

(* The name does not resolve, or resolves to another address, or the        *)
(* address does not accept a connection.                                    *)
CheckerReports ==
    /\ checker = "test"
    /\ checker' = "stopped"
    /\ onFailure' = TRUE
    /\ UNCHANGED <<connection, address, pc, op, sent, wire, fullBuffer, result, panicked>>

(* The name resolves again after a reconnection that could not resolve it. *)
CheckerPanics ==
    /\ checker = "test"
    /\ address = NoAddress
    /\ panicked' = TRUE
    /\ UNCHANGED <<connection, address, onFailure, pc, op, sent, wire, fullBuffer, result,
                   checker>>

CheckerStep == CheckerTick \/ CheckerPasses \/ CheckerReports \/ CheckerPanics

-----------------------------------------------------------------------------
Next ==
    /\ ~panicked
    /\ WorkerStep \/ ServerAnswers \/ ServerCloses \/ CheckerStep

Spec == Init /\ [][Next]_vars

-----------------------------------------------------------------------------
(* What is looked for occurs in no part of an answer but at its end.  A value *)
(* that holds the end of an answer breaks this.                              *)
Unambiguous ==
    \A c \in Commands : \A a \in Answers[c] : \A m, n \in 1 .. Len(a) :
        \A i \in DOMAIN ResponseSet[c] :
            m <= n /\ Occurs(SubSeq(a, m, n), ResponseSet[c][i].pattern) => n = Len(a)

(* A typed result is the answer to the command that was sent last, all of   *)
(* it, however the network cuts it up and whatever was left behind by       *)
(* commands that timed out before it.                                       *)
ReplyIsTheAnswer == pc = "idle" /\ result.type \in Types => result.data = answer

(* Between two commands nothing is left on a connection that will be used   *)
(* again: no byte in the socket or on its way, which the next answer would  *)
(* start with, and no command the server has still to answer.  It never has  *)
(* two.                                                                     *)
NothingLeftUnread ==
    /\ pc \in {"idle", "write"} /\ ~onFailure => received = <<>> /\ arriving = <<>>
    /\ Len(received) <= 1

(* The worker never reads through a missing connection, which would be a     *)
(* nil dereference, although a failed reconnection leaves it with none.      *)
ReadsAreConnected == pc \in {"read", "reading"} => connection # "nil"

=============================================================================
