------------------------------ MODULE Commands ------------------------------
(***************************************************************************)
(* The commands of zencached_ops.go on one connection (module Telnet) to   *)
(* a memcached server, for one key: how they are rendered, executed,       *)
(* answered, recognised in what was read, and turned into a result.        *)
(*                                                                         *)
(* The server keeps a value for the key.  A command it received on a       *)
(* connection that was closed since, it may still execute.                 *)
(***************************************************************************)
EXTENDS Telnet

CONSTANTS
    Values,          \* values to store: sequences of tokens, not empty
    NotStoredWords,  \* what the network makes of NOT_STORED: it may tear it
    NoReply

ASSUME TearAssumption == NotStoredWords \in {<<"NOT_STORED">>, <<"NOT_", "STORED">>}

Absent == <<>>

INSTANCE Memcached

VARIABLES
    store,       \* the value memcached has for the key
    reply,       \* what the execution of the last command gave, or NoReply
    late,        \* requests of closed connections, not executed yet
    outcome      \* the OperationResult of the last command

commandVars == <<store, reply, late, outcome>>
allVars == <<vars, commandVars>>

(* The jobs of baseStore, baseGet and baseDelete.  store returns before it   *)
(* makes one of an empty value.                                             *)
Jobs ==
    [name : {"set", "add"}, value : Values \ {<<>>}] \cup [name : {"get", "delete"}, value : {Absent}]

-----------------------------------------------------------------------------
(* The protocol: what memcached answers, token by token, and what each job  *)
(* looks for in it.  A value has the length of its tokens.                  *)
Digits == <<"1", "2", "3", "4">>
Line(words) == words \o <<"CRLF">>

StoredLine == Line(<<"STORED">>)
NotStoredLine == Line(NotStoredWords)
DeletedLine == Line(<<"DELETED">>)
NotFoundLine == Line(<<"NOT_FOUND">>)
EndLine == Line(<<"END">>)
ValueAnswer(v) ==
    Line(<<"VALUE", "sp", "key", "sp", "flags", "sp", Digits[Len(v)]>>) \o Line(v) \o EndLine
ErrorLine == Line(<<"ERROR">>)

ResponseSetOf(job) ==
    CASE job.name \in {"set", "add"} ->
           <<[pattern |-> NotStoredLine, type |-> "NotStored"],
             [pattern |-> StoredLine, type |-> "Stored"]>>
      [] job.name = "delete" ->
           <<[pattern |-> DeletedLine, type |-> "Deleted"],
             [pattern |-> NotFoundLine, type |-> "NotFound"]>>
      [] job.name = "get" -> <<[pattern |-> EndLine, type |-> "Found"]>>

AnswersTo(job) ==
    {ErrorLine} \cup
    CASE job.name = "set" -> {StoredLine}
      [] job.name = "add" -> {StoredLine, NotStoredLine}
      [] job.name = "delete" -> {DeletedLine, NotFoundLine}
      [] job.name = "get" -> {EndLine} \cup {ValueAnswer(v) : v \in Values}

AllTokens ==
    UNION {Range(a) : a \in UNION {AnswersTo(job) : job \in Jobs}}

(* What Telnet is given.  A value has some tokens, and Absent none. *)
ASSUME JobsAssumption ==
    /\ Commands = Jobs
    /\ Answers = [job \in Jobs |-> AnswersTo(job)]
    /\ ResponseSet = [job \in Jobs |-> ResponseSetOf(job)]
ASSUME ValuesAssumption ==
    /\ AllTokens \subseteq Tokens
    /\ \A v \in Values : v \in Seq(Tokens) /\ Len(v) \in DOMAIN Digits

(* What an execution may give. *)
Replies == {ReplyTo(job, s) : job \in Jobs, s \in Values \cup {Absent}}
ASSUME NoReplyAssumption == NoReply \notin Replies

AnswerFor(job, r) ==
    CASE r.type = "Stored" -> StoredLine
      [] r.type = "NotStored" -> NotStoredLine
      [] r.type = "Deleted" -> DeletedLine
      [] r.type = "NotFound" -> IF job.name = "get" THEN EndLine ELSE NotFoundLine
      [] r.type = "Found" -> ValueAnswer(r.data)

-----------------------------------------------------------------------------
(* extractGetCmdValue.  A slice that ends past the response is memory nobody *)
(* wrote, or past its capacity a panic: an Overrun is either.               *)
Past(s, i, token) ==
    LET at == {j \in i .. Len(s) : s[j] = token}
    IN  IF at = {} THEN Len(s) + 1 ELSE Min(at) + 1

(* Mutant of Extract: the value is taken to be the rest of the answer. *)
ExtractRest(s) ==
    LET start == Past(s, Past(s, Past(s, 3, "sp"), "sp"), "CRLF")
    IN  CASE s[1] = "END" -> Plain("NotFound")
          [] OTHER -> [type |-> "Found", data |-> SubSeq(s, start, Len(s))]

Extract(s) ==
    LET flags == Past(s, 3, "sp")
        length == Past(s, flags, "sp")
        start == Past(s, length, "CRLF")
        n == {i \in DOMAIN Digits : <<Digits[i]>> = SubSeq(s, length, start - 2)}
    IN  CASE s[1] = "END" -> Plain("NotFound")
          [] s[1] # "END" /\ (s[1] # "VALUE" \/ s[2] # "sp" \/ n = {}) -> Error
          [] OTHER -> IF start + Min(n) - 1 > Len(s) THEN Plain("Overrun")
                      ELSE [type |-> "Found", data |-> SubSeq(s, start, start + Min(n) - 1)]

(* checkResponse, and what baseStore, baseGet and baseDelete make of it. *)
OperationResult(job, r) ==
    CASE r.type = "error" \/ r.data = <<>> -> Error
      [] r.type = "Found" /\ r.data # <<>> -> Extract([i \in DOMAIN r.data |-> r.data[i].token])
      [] r.type = "none" /\ r.data # <<>> -> Plain("None")
      [] OTHER -> Plain(r.type)
-----------------------------------------------------------------------------
LastCall == [request |-> request, command |-> command]

(* A command written and not answered whose caller does not wait any more:  *)
(* the connection was on failure when read began.                           *)
Unheeded == {r \in Range(received) : pc \in {"idle", "closed"} \/ r.request # request}

(* The request was written, and will not be executed on this connection. *)
Abandoned ==
    /\ received = <<>>
    /\ pc \in {"read", "reading"} \/ (pc \in {"resolve", "dial"} /\ op = "read")

Phase ==
    CASE pc \in {"idle", "closed"} -> "idle"
      [] pc \notin {"idle", "closed"} /\ reply # NoReply -> "applied"
      [] pc \notin {"idle", "closed"} /\ reply = NoReply /\ Abandoned -> "abandoned"
      [] OTHER -> "called"

Promise == INSTANCE KeyStore WITH
    phase <- Phase, call <- LastCall, report <- outcome, late <- late \cup Unheeded

CommandsInit ==
    /\ Init
    /\ store \in Values \cup {Absent}
    /\ reply = NoReply
    /\ late = {}
    /\ outcome = Error

(* Get, Set, Add and Delete up to the write; without a connection to write   *)
(* on they return at once.                                                  *)
Issue ==
    /\ Send
    /\ reply' = NoReply
    /\ outcome' = Error
    /\ UNCHANGED <<store, late>>

(* The server executes the request it received first, and answers it. *)
Executes ==
    /\ received # <<>>
    /\ LET r == Head(received)
           done == ReplyTo(r.command, store)
       IN  /\ ServerAnswersWith(AnswerFor(r.command, done))
           /\ store' = StoreAfter(r.command, store)
           /\ reply' = IF r \in Unheeded THEN reply ELSE done
    /\ UNCHANGED <<late, outcome>>

(* Or it answers that it cannot (SERVER_ERROR, out of memory). *)
Declines ==
    /\ ServerAnswersWith(ErrorLine)
    /\ UNCHANGED commandVars

(* A request of a connection that was closed is still executed, or is not. *)
ExecutesLate ==
    /\ \E r \in late :
         /\ store' \in {store, StoreAfter(r.command, store)}
         /\ late' = late \ {r}
    /\ UNCHANGED <<vars, reply, outcome>>

(* Expiry, eviction, a restart. *)
Forgets ==
    /\ store # Absent
    /\ store' = Absent
    /\ UNCHANGED <<vars, reply, late, outcome>>

(* What other steps of Telnet do to the rest. *)
Carries ==
    /\ late' = late \cup (Range(received) \ Range(received'))
    /\ outcome' = IF pc # "idle" /\ pc' = "idle" THEN OperationResult(command, result')
                  ELSE outcome
    /\ UNCHANGED <<store, reply>>

Elsewhere == (Proceeds \/ Close \/ ServerCloses \/ CheckerStep) /\ Carries

CommandsNext ==
    /\ ~panicked
    /\ Issue \/ Executes \/ Declines \/ ExecutesLate \/ Forgets \/ Elsewhere

CommandsSpec == CommandsInit /\ [][CommandsNext]_allVars

(* The worker is scheduled; what it waits for in Send and Read ends by its   *)
(* deadline at the latest.  Nothing makes the server or the network act.    *)
FairCommandsSpec == CommandsSpec /\ WF_allVars(~panicked /\ Proceeds /\ Carries)

-----------------------------------------------------------------------------
(* No pattern is found in an ERROR; and the first one found in some part of   *)
(* the answer to a store or a delete is that of its reply.  A NOT_STORED torn *)
(* before its STORED breaks this.                                            *)
FoundFirst(job, part, i) ==
    /\ Occurs(part, ResponseSetOf(job)[i].pattern)
    /\ \A j \in 1 .. i - 1 : ~Occurs(part, ResponseSetOf(job)[j].pattern)

Recognises ==
    \A job \in Jobs : \A i \in DOMAIN ResponseSetOf(job) :
        /\ \A m, n \in 1 .. Len(ErrorLine) :
             m <= n => ~Occurs(SubSeq(ErrorLine, m, n), ResponseSetOf(job)[i].pattern)
        /\ \A s \in Values \cup {Absent} :
             LET done == ReplyTo(job, s)
                 a == AnswerFor(job, done)
             IN  \A m, n \in 1 .. Len(a) :
                   job.name # "get" /\ m <= n /\ FoundFirst(job, SubSeq(a, m, n), i)
                     => Plain(ResponseSetOf(job)[i].type) = done

(* Whatever deadlines pass and connections break, and however answers are    *)
(* cut up that no cut makes mistakable (Unambiguous, Recognises), a command  *)
(* is executed at most once and its result, error or none, is a true account *)
(* of it: Get returns bytes somebody stored and nobody has replaced or       *)
(* deleted since, and Add, Set and Delete what they did.                     *)
KeepsItsPromise == Promise!Spec

(* A command returns, whatever the server and the network do or fail to do. *)
CommandsReturn == pc \notin {"idle", "closed"} ~> pc = "idle" \/ panicked
=============================================================================
