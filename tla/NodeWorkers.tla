---------------------------- MODULE NodeWorkers ----------------------------
(***************************************************************************)
(* One nodeWorkers object of zencached: the pool of connections to one     *)
(* memcached node (zencached_worker.go), the clients that queue commands   *)
(* on it (addJobAndWait), the connection checkers that report failures to  *)
(* it (telnet.go), and the rebalance and Shutdown calls that end it        *)
(* (zencached.go).                                                         *)
(*                                                                         *)
(* A Go channel is its buffer plus a closed flag: jobs and jobsClosed for  *)
(* nw.jobs, disc and discClosed for nw.disconnectionChannel, rebal and     *)
(* rebalClosed for z.rebalanceChannel.  Receiving drains a closed channel; *)
(* sending on a closed channel panics, and a panic nobody recovers ends    *)
(* the process, so no action is enabled once panicked is set.              *)
(*                                                                         *)
(* What one connection does to serve a command is reduced here to the      *)
(* outcomes the pool tells apart; module Telnet models it in full.         *)
(***************************************************************************)
EXTENDS Naturals, Sequences, FiniteSets

CONSTANTS
    Clients,                     \* goroutines that call Get, Set, Add, Delete or Version
    Workers,                     \* the connections of the pool, each with its goroutine
    CommandExecutionBufferSize,  \* capacity of nw.jobs
    RebalanceOnDisconnection,    \* the configuration flag of that name
    StaticNodes,                 \* there is no NodeListFunction to leave the node out
    NoJob                        \* a worker that serves no command

(* setDefaults replaces 0 by a positive number in both configured sizes. *)
ASSUME ClientsAssumption == NoJob \notin Clients
ASSUME WorkersAssumption == IsFiniteSet(Workers) /\ Workers # {}
ASSUME BufferAssumption == CommandExecutionBufferSize \in Nat \ {0}
ASSUME FlagAssumption == RebalanceOnDisconnection \in BOOLEAN
ASSUME ListAssumption == StaticNodes \in BOOLEAN

NumConnectionsPerNode == Cardinality(Workers)

(***************************************************************************)
(* How sendAndReadResponse may end.  "ok" is any answer of the server,     *)
(* "deadline" context.DeadlineExceeded after a reconnection, "closed"      *)
(* ErrTelnetConnectionIsClosed (the reconnection failed), "neterr" the     *)
(* bare error of a failed read, "noresponse" ErrMemcachedNoResponse,       *)
(* "write" ErrConnectionWrite and "read" ErrConnectionRead.                *)
(***************************************************************************)
QuietOutcomes == {"ok", "deadline", "closed", "noresponse"}
ReportedOutcomes == {"write", "neterr"}
FailedOutcomes == {"write", "read", "neterr"}
Responses == QuietOutcomes \cup ReportedOutcomes \cup FailedOutcomes

(* The errors on which work asks for a rebalance and gives up. *)
Disconnections == {"noresponse", "write", "read"}

VARIABLES
    creation,     \* progress of createNodeWorker
    connected,    \* nw.connected
    jobs,         \* nw.jobs, a job being named by the client that waits for it
    jobsClosed,
    disc,         \* number of signals buffered in nw.disconnectionChannel
    discClosed,
    client,       \* where each client is in addJobAndWait
    worker,       \* where each goroutine is in work
    job,          \* the job each worker serves
    response,     \* what it will answer
    onFailure,    \* Telnet.onFailure of each connection
    checker,      \* the checkConnection goroutine of each connection
    listener,     \* where listenForDisconnections is
    rebal,        \* number of requests buffered in z.rebalanceChannel
    rebalClosed,
    rebalancing,  \* whose call of Rebalance holds z.rebalanceLock, and whether
                  \* it has this pool behind it ("leaving")
    shutdown,     \* progress of Shutdown
    panicked      \* the channel whose misuse ended the process

chanVars == <<jobs, jobsClosed, disc, discClosed, rebal, rebalClosed>>
poolVars == <<worker, job, response, onFailure, checker, listener>>
envVars  == <<rebalancing, shutdown>>
vars == <<creation, connected, client, panicked, chanVars, poolVars, envVars>>

WorkerStates == {"unborn", "receive", "execute", "report", "reply", "signal", "exit", "done"}

TypeOK ==
    /\ creation \in {"dialing", "up", "failed"}
    /\ connected \in BOOLEAN
    /\ jobs \in Seq(Clients)
    /\ Len(jobs) <= CommandExecutionBufferSize
    /\ jobsClosed \in BOOLEAN
    /\ disc \in 0 .. NumConnectionsPerNode
    /\ discClosed \in BOOLEAN
    /\ client \in [Clients -> {"idle", "sending", "waiting"}]
    /\ worker \in [Workers -> WorkerStates]
    /\ job \in [Workers -> Clients \cup {NoJob}]
    /\ response \in [Workers -> Responses]
    /\ onFailure \in [Workers -> BOOLEAN]
    /\ checker \in [Workers -> {"off", "running", "reporting", "stopped"}]
    /\ listener \in {"off", "receive", "signal", "done"}
    /\ rebal \in 0 .. 1
    /\ rebalClosed \in BOOLEAN
    /\ rebalancing \in {"no", "request", "other", "leaving"}
    /\ shutdown \in {"no", "terminated", "done"}
    /\ panicked \in {"no", "jobs", "rebalanceChannel"}

(* The pool is being created by a call of Rebalance that holds the lock      *)
(* while rebalanceWorker runs ("leaving"), or by New or rebalanceWorker, by *)
(* which requests are received only later ("no").                           *)
Init ==
    /\ creation = "dialing"
    /\ connected = FALSE
    /\ jobs = <<>>
    /\ jobsClosed = FALSE
    /\ disc = 0
    /\ discClosed = FALSE
    /\ client = [c \in Clients |-> "idle"]
    /\ worker = [w \in Workers |-> "unborn"]
    /\ job = [w \in Workers |-> NoJob]
    /\ response = [w \in Workers |-> "ok"]
    /\ onFailure = [w \in Workers |-> FALSE]
    /\ checker = [w \in Workers |-> "off"]
    /\ listener = "off"
    /\ rebal = 0
    /\ rebalClosed = FALSE
    /\ rebalancing \in {"no", "leaving"}
    /\ shutdown = "no"
    /\ panicked = "no"

-----------------------------------------------------------------------------
(* Mutant of terminate: the disconnection channel is left open.             *)
TerminateJobsOnly ==
    /\ connected' = FALSE
    /\ jobsClosed' = TRUE
    /\ UNCHANGED discClosed

(* terminate, called at most once on a pool (module Rebalance checks that   *)
(* its callers keep to that).  Its three statements are one step: what runs *)
(* between them only finds a pool that is already marked down.              *)
terminate ==
    /\ connected' = FALSE
    /\ discClosed' = TRUE
    /\ jobsClosed' = TRUE

-----------------------------------------------------------------------------
(* createNodeWorker dials the connections one after the other. *)
Dial(w) ==
    /\ creation = "dialing"
    /\ worker[w] = "unborn"
    /\ worker' = [worker EXCEPT ![w] = "receive"]
    /\ checker' = [checker EXCEPT ![w] = "running"]
    /\ UNCHANGED <<creation, connected, client, panicked, chanVars, envVars,
                   job, response, onFailure, listener>>

(* A connection cannot be made: the workers already started are sent home. *)
DialFails ==
    /\ creation = "dialing"
    /\ \E w \in Workers : worker[w] = "unborn"
    /\ creation' = "failed"
    /\ terminate
    /\ UNCHANGED <<client, panicked, jobs, disc, rebal, rebalClosed, poolVars, envVars>>

StartServing ==
    /\ creation = "dialing"
    /\ \A w \in Workers : worker[w] # "unborn"
    /\ creation' = "up"
    /\ connected' = TRUE
    /\ listener' = "receive"
    /\ UNCHANGED <<client, panicked, chanVars, envVars,
                   worker, job, response, onFailure, checker>>

Create == (\E w \in Workers : Dial(w)) \/ DialFails \/ StartServing

-----------------------------------------------------------------------------
(* Clients.  Looking the pool up under nodeWorkersMu only reads connected;  *)
(* the lock is gone when the job is sent.                                   *)
ClientRouted(c) ==
    /\ client[c] = "idle"
    /\ creation = "up"
    /\ connected
    /\ client' = [client EXCEPT ![c] = "sending"]
    /\ UNCHANGED <<creation, connected, panicked, chanVars, poolVars, envVars>>

(* nw.jobs <- job blocks while the buffer is full. *)
ClientSends(c) ==
    /\ client[c] = "sending"
    /\ ~jobsClosed
    /\ Len(jobs) < CommandExecutionBufferSize
    /\ jobs' = Append(jobs, c)
    /\ client' = [client EXCEPT ![c] = "waiting"]
    /\ UNCHANGED <<creation, connected, panicked, jobsClosed, disc, discClosed,
                   rebal, rebalClosed, poolVars, envVars>>

(* The same statement after terminate closed the channel. *)
ClientPanics(c) ==
    /\ client[c] = "sending"
    /\ jobsClosed
    /\ panicked' = "jobs"
    /\ UNCHANGED <<creation, connected, client, chanVars, poolVars, envVars>>

-----------------------------------------------------------------------------
(* Mutant of WorkerReceives: the job is looked at and not taken. *)
WorkerPeeks(w) ==
    /\ worker[w] = "receive"
    /\ jobs # <<>>
    /\ job' = [job EXCEPT ![w] = Head(jobs)]
    /\ worker' = [worker EXCEPT ![w] = "execute"]
    /\ UNCHANGED <<creation, connected, client, panicked, chanVars,
                   response, onFailure, checker, listener, envVars>>

(* work: for job := range nw.jobs. *)
WorkerReceives(w) ==
    /\ worker[w] = "receive"
    /\ jobs # <<>>
    /\ job' = [job EXCEPT ![w] = Head(jobs)]
    /\ jobs' = Tail(jobs)
    /\ worker' = [worker EXCEPT ![w] = "execute"]
    /\ UNCHANGED <<creation, connected, client, panicked, jobsClosed, disc, discClosed,
                   rebal, rebalClosed, response, onFailure, checker, listener, envVars>>

(* The range ends when the channel is closed and empty. *)
WorkerDrained(w) ==
    /\ worker[w] = "receive"
    /\ jobs = <<>>
    /\ jobsClosed
    /\ worker' = [worker EXCEPT ![w] = "exit"]
    /\ UNCHANGED <<creation, connected, client, panicked, chanVars,
                   job, response, onFailure, checker, listener, envVars>>

(* sendAndReadResponse on a connection nobody reported yet: a failed write *)
(* or read wins the CompareAndSwap of reportDisconnection.                 *)
ExecuteHealthy(w) ==
    /\ ~onFailure[w]
    /\ \/ /\ \E r \in QuietOutcomes : response' = [response EXCEPT ![w] = r]
          /\ worker' = [worker EXCEPT ![w] = "reply"]
          /\ UNCHANGED onFailure
       \/ /\ \E r \in ReportedOutcomes : response' = [response EXCEPT ![w] = r]
          /\ worker' = [worker EXCEPT ![w] = "report"]
          /\ onFailure' = [onFailure EXCEPT ![w] = TRUE]

(* On a connection on failure send and read return at once; an error met   *)
(* while the checker was faster finds the report already made.             *)
ExecuteFailed(w) ==
    /\ onFailure[w]
    /\ \E r \in FailedOutcomes : response' = [response EXCEPT ![w] = r]
    /\ worker' = [worker EXCEPT ![w] = "reply"]
    /\ UNCHANGED onFailure

WorkerExecutes(w) ==
    /\ worker[w] = "execute"
    /\ ExecuteHealthy(w) \/ ExecuteFailed(w)
    /\ UNCHANGED <<creation, connected, client, panicked, chanVars,
                   job, checker, listener, envVars>>

(* t.disconnectionChannel <- struct{}{}: blocks on a full buffer; on a     *)
(* closed channel the panic is recovered and the signal is lost.           *)
SendDisconnection ==
    \/ discClosed /\ UNCHANGED disc
    \/ ~discClosed /\ disc < NumConnectionsPerNode /\ disc' = disc + 1

WorkerReports(w) ==
    /\ worker[w] = "report"
    /\ SendDisconnection
    /\ worker' = [worker EXCEPT ![w] = "reply"]
    /\ UNCHANGED <<creation, connected, client, panicked, jobs, jobsClosed, discClosed,
                   rebal, rebalClosed, job, response, onFailure, checker, listener, envVars>>

(* job.response <- response, then the test for a disconnection error. *)
WorkerReplies(w) ==
    /\ worker[w] = "reply"
    /\ client[job[w]] = "waiting"
    /\ client' = [client EXCEPT ![job[w]] = "idle"]
    /\ job' = [job EXCEPT ![w] = NoJob]
    /\ worker' = [worker EXCEPT ![w] =
                    IF response[w] \in Disconnections /\ RebalanceOnDisconnection
                    THEN "signal" ELSE "receive"]
    /\ response' = [response EXCEPT ![w] = "ok"]
    /\ UNCHANGED <<creation, connected, panicked, chanVars, onFailure, checker,
                   listener, envVars>>

(* Mutant of SendRebalance: nothing bounds the channel. *)
SendRebalanceUnbounded == ~rebalClosed /\ rebal' = rebal + 1

(* nw.rebalanceChannel <- struct{}{}, of capacity 1. *)
SendRebalance ==
    /\ ~rebalClosed
    /\ rebal = 0
    /\ rebal' = 1

WorkerSignals(w) ==
    /\ worker[w] = "signal"
    /\ SendRebalance
    /\ worker' = [worker EXCEPT ![w] = "exit"]
    /\ UNCHANGED <<creation, connected, client, panicked, jobs, jobsClosed, disc, discClosed,
                   rebalClosed, job, response, onFailure, checker, listener, envVars>>

(* Mutant of WorkerExits: the pool is not marked down. *)
WorkerExitsSilently(w) ==
    /\ worker[w] = "exit"
    /\ worker' = [worker EXCEPT ![w] = "done"]
    /\ UNCHANGED <<creation, connected, client, panicked, chanVars, job, response,
                   onFailure, checker, listener, envVars>>

(* telnetConn.Close() offers the end signal to the checker in a select     *)
(* with a default, and the checker takes it in another such select: neither *)
(* ever waits for the other, so the signal is never passed and the checker  *)
(* outlives the connection.                                                 *)
WorkerExits(w) ==
    /\ worker[w] = "exit"
    /\ worker' = [worker EXCEPT ![w] = "done"]
    /\ connected' = FALSE
    /\ UNCHANGED <<creation, client, panicked, chanVars, job, response, onFailure,
                   checker, listener, envVars>>

(* Mutant of CheckerFinds: onFailure is stored without a CompareAndSwap. *)
CheckerFindsAgain(w) ==
    /\ checker[w] = "running"
    /\ checker' = [checker EXCEPT ![w] = "reporting"]
    /\ onFailure' = [onFailure EXCEPT ![w] = TRUE]
    /\ UNCHANGED <<creation, connected, client, panicked, chanVars,
                   worker, job, response, listener, envVars>>

(* checkConnection finds the node gone and wins the CompareAndSwap.  It    *)
(* keeps running, and may still report, after its connection was closed.   *)
CheckerFinds(w) ==
    /\ checker[w] = "running"
    /\ ~onFailure[w]
    /\ checker' = [checker EXCEPT ![w] = "reporting"]
    /\ onFailure' = [onFailure EXCEPT ![w] = TRUE]
    /\ UNCHANGED <<creation, connected, client, panicked, chanVars,
                   worker, job, response, listener, envVars>>

CheckerReports(w) ==
    /\ checker[w] = "reporting"
    /\ SendDisconnection
    /\ checker' = [checker EXCEPT ![w] = "stopped"]
    /\ UNCHANGED <<creation, connected, client, panicked, jobs, jobsClosed, discClosed,
                   rebal, rebalClosed, worker, job, response, onFailure, listener, envVars>>

-----------------------------------------------------------------------------
(* Mutant of ListenerReceives: the pool is not marked down. *)
ListenerOnlySignals ==
    /\ listener = "receive"
    /\ disc > 0
    /\ disc' = disc - 1
    /\ listener' = IF RebalanceOnDisconnection THEN "signal" ELSE "receive"
    /\ UNCHANGED <<creation, connected, client, panicked, jobs, jobsClosed, discClosed,
                   rebal, rebalClosed, worker, job, response, onFailure, checker, envVars>>

(* Mutant of ListenerReceives: no rebalance is asked for. *)
ListenerOnlyMarks ==
    /\ listener = "receive"
    /\ disc > 0
    /\ disc' = disc - 1
    /\ connected' = FALSE
    /\ UNCHANGED <<creation, client, panicked, jobs, jobsClosed, discClosed, rebal,
                   rebalClosed, worker, job, response, onFailure, checker, listener, envVars>>

(* listenForDisconnections: for range nw.disconnectionChannel. *)
ListenerReceives ==
    /\ listener = "receive"
    /\ disc > 0
    /\ disc' = disc - 1
    /\ connected' = FALSE
    /\ listener' = IF RebalanceOnDisconnection THEN "signal" ELSE "receive"
    /\ UNCHANGED <<creation, client, panicked, jobs, jobsClosed, discClosed,
                   rebal, rebalClosed, worker, job, response, onFailure, checker, envVars>>

ListenerSignals ==
    /\ listener = "signal"
    /\ SendRebalance
    /\ listener' = "receive"
    /\ UNCHANGED <<creation, connected, client, panicked, jobs, jobsClosed, disc, discClosed,
                   rebalClosed, worker, job, response, onFailure, checker, envVars>>

ListenerEnds ==
    /\ listener = "receive"
    /\ disc = 0
    /\ discClosed
    /\ listener' = "done"
    /\ UNCHANGED <<creation, connected, client, panicked, chanVars,
                   worker, job, response, onFailure, checker, envVars>>

(* A rebalance request sent after Shutdown closed the channel. *)
SignalPanics ==
    /\ rebalClosed
    /\ listener = "signal" \/ \E w \in Workers : worker[w] = "signal"
    /\ panicked' = "rebalanceChannel"
    /\ UNCHANGED <<creation, connected, client, chanVars, poolVars, envVars>>

-----------------------------------------------------------------------------
(* Another pool sends its request on the channel they all share.           *)
OtherPoolSignals ==
    /\ creation # "dialing"
    /\ SendRebalance
    /\ UNCHANGED <<creation, connected, client, panicked, jobs, jobsClosed, disc, discClosed,
                   rebalClosed, poolVars, envVars>>

(* rebalanceWorker takes a request and calls Rebalance, which returns at   *)
(* once if another call holds the lock: the request is gone.               *)
RequestReceived ==
    /\ rebal > 0
    /\ rebalancing # "request"
    /\ rebal' = 0
    /\ rebalancing' = IF rebalancing = "no" THEN "request" ELSE rebalancing
    /\ UNCHANGED <<creation, connected, client, panicked, jobs, jobsClosed, disc, discClosed,
                   rebalClosed, poolVars, shutdown>>

(* Mutant of VisitPool: a connected pool is replaced as well. *)
VisitPoolAnyway ==
    IF jobsClosed
    THEN UNCHANGED <<connected, discClosed, jobsClosed>>
    ELSE terminate

(* A pool is kept if it is connected and terminated if not; one that was    *)
(* terminated before is no longer in the map.                              *)
VisitPool ==
    IF connected \/ jobsClosed
    THEN UNCHANGED <<connected, discClosed, jobsClosed>>
    ELSE terminate

(* A pool whose node is not discovered is not visited: it leaves the table. *)
(* That this hides it from clients and Shutdown is not modelled.           *)
PassOver == ~StaticNodes /\ UNCHANGED <<connected, discClosed, jobsClosed>>

RebalanceVisits ==
    /\ rebalancing = "request"
    /\ rebalancing' = "no"
    /\ VisitPool \/ PassOver
    /\ UNCHANGED <<creation, client, panicked, jobs, disc, rebal, rebalClosed,
                   poolVars, shutdown>>

(* The application calls Rebalance, or a retry goroutine does. *)
OtherLocks ==
    /\ creation # "dialing"
    /\ rebalancing = "no"
    /\ rebalancing' = "other"
    /\ UNCHANGED <<creation, connected, client, panicked, chanVars, poolVars, shutdown>>

(* It visits the pool, and may do so when the lock is not held, or not by it: *)
(* two calls that load the lock before either stores it both go on, and the *)
(* first to end releases it for both.                                      *)
OtherRebalanceVisits ==
    /\ creation = "up"
    /\ rebalancing' = IF rebalancing = "other" THEN "leaving" ELSE rebalancing
    /\ VisitPool \/ PassOver
    /\ UNCHANGED <<creation, client, panicked, jobs, disc, rebal, rebalClosed,
                   poolVars, shutdown>>

OtherUnlocks ==
    /\ creation # "dialing"
    /\ rebalancing = "leaving"
    /\ rebalancing' = "no"
    /\ UNCHANGED <<creation, connected, client, panicked, chanVars, poolVars, shutdown>>

ShutdownTerminates ==
    /\ creation = "up"
    /\ shutdown = "no"
    /\ shutdown' = "terminated"
    /\ IF jobsClosed THEN UNCHANGED <<connected, discClosed, jobsClosed>> ELSE terminate
    /\ UNCHANGED <<creation, client, panicked, jobs, disc, rebal, rebalClosed,
                   poolVars, rebalancing>>

ShutdownClosesRebalanceChannel ==
    /\ shutdown = "terminated"
    /\ shutdown' = "done"
    /\ rebalClosed' = TRUE
    /\ UNCHANGED <<creation, connected, client, panicked, jobs, jobsClosed, disc, discClosed,
                   rebal, poolVars, rebalancing>>

-----------------------------------------------------------------------------
ClientStep(c) == ClientRouted(c) \/ ClientSends(c) \/ ClientPanics(c)

WorkerStep(w) ==
    \/ WorkerReceives(w) \/ WorkerDrained(w) \/ WorkerExecutes(w) \/ WorkerReports(w)
    \/ WorkerReplies(w) \/ WorkerSignals(w) \/ WorkerExits(w)

CheckerStep(w) == CheckerFinds(w) \/ CheckerReports(w)

ListenerStep == ListenerReceives \/ ListenerSignals \/ ListenerEnds \/ SignalPanics

RebalanceStep ==
    \/ OtherPoolSignals \/ RequestReceived \/ RebalanceVisits
    \/ OtherLocks \/ OtherRebalanceVisits \/ OtherUnlocks

ShutdownStep == ShutdownTerminates \/ ShutdownClosesRebalanceChannel

Next ==
    /\ panicked = "no"
    /\ \/ Create
       \/ \E c \in Clients : ClientStep(c)
       \/ \E w \in Workers : WorkerStep(w) \/ CheckerStep(w)
       \/ ListenerStep
       \/ RebalanceStep
       \/ ShutdownStep

Spec == Init /\ [][Next]_vars

(***************************************************************************)
(* Fairness.  Every goroutine the library starts is scheduled, and a read  *)
(* or a write ends at its deadline (MaxReadTimeout and MaxWriteTimeout are *)
(* at least a second), so its enabled steps happen.  The senders blocked   *)
(* on a channel are served in arrival order by the Go runtime, which is    *)
(* strong fairness of each send; since a pool sends finitely many requests *)
(* for a rebalance, it is enough to state it of them together.  A call of  *)
(* Rebalance ends, since NodeListFunction returns and dialling has a       *)
(* timeout.  Nothing makes a client call, a checker find a failure,        *)
(* another pool ask for a rebalance, or the application call Rebalance or  *)
(* Shutdown.                                                               *)
(***************************************************************************)
Running(A) == panicked = "no" /\ A

Fairness ==
    /\ WF_vars(Running(Create))
    /\ \A c \in Clients : SF_vars(Running(ClientSends(c))) /\ WF_vars(Running(ClientPanics(c)))
    /\ \A w \in Workers :
         /\ WF_vars(Running(WorkerReceives(w) \/ WorkerDrained(w) \/ WorkerExecutes(w)
                            \/ WorkerReports(w) \/ WorkerReplies(w) \/ WorkerExits(w)))
         /\ WF_vars(Running(CheckerReports(w)))
    /\ WF_vars(Running(ListenerReceives \/ ListenerEnds \/ SignalPanics))
    /\ SF_vars(Running(ListenerSignals \/ \E w \in Workers : WorkerSignals(w)))
    /\ WF_vars(Running(RequestReceived \/ RebalanceVisits))
    /\ WF_vars(Running(rebalancing = "other" /\ OtherRebalanceVisits))
    /\ WF_vars(Running(OtherUnlocks))
    /\ WF_vars(Running(ShutdownClosesRebalanceChannel))

FairSpec == Spec /\ Fairness

-----------------------------------------------------------------------------
(***************************************************************************)
(* Safety.                                                                 *)
(***************************************************************************)
Queued(c) == \E i \in 1 .. Len(jobs) : jobs[i] = c
Serving(w) == worker[w] \in {"execute", "report", "reply"}

(* The job of a waiting client is in exactly one place, once in nw.jobs or *)
(* in the hands of one worker; no other client has a job anywhere.  So a   *)
(* command is executed at most once, and the unbuffered job.response of    *)
(* addJobAndWait always has a receiver when the worker answers.            *)
JobConservation ==
    /\ \A i, k \in 1 .. Len(jobs) : jobs[i] = jobs[k] => i = k
    /\ \A v, w \in Workers : Serving(v) /\ Serving(w) /\ job[v] = job[w] => v = w
    /\ \A w \in Workers : Serving(w) => ~Queued(job[w])
    /\ \A c \in Clients :
         client[c] = "waiting" <=> Queued(c) \/ \E w \in Workers : Serving(w) /\ job[w] = c

(* reportDisconnection never blocks: whoever has to send a disconnection   *)
(* signal finds room in nw.disconnectionChannel, whose capacity is the     *)
(* number of connections, because onFailure lets each connection send one. *)
Reporting(w) == worker[w] = "report" \/ checker[w] = "reporting"
ReportNeverBlocks ==
    (\E w \in Workers : Reporting(w)) => discClosed \/ disc < NumConnectionsPerNode

(* No failure goes unnoticed: while clients are still routed to a pool      *)
(* one of whose connections failed, the signal that will mark it down is    *)
(* on its way to listenForDisconnections.                                   *)
FailureIsNoticed ==
    connected /\ (\E w \in Workers : onFailure[w]) => disc > 0 \/ \E w \in Workers : Reporting(w)

(* A pool is marked down for a reason: only a failed connection, a worker  *)
(* that gave up or Shutdown takes a pool out of service, so a Rebalance    *)
(* that meets it never tears down a pool whose connections all work.       *)
DownForAReason ==
    creation = "up" /\ ~connected =>
        \/ shutdown # "no"
        \/ \E w \in Workers : onFailure[w] \/ worker[w] = "done"

(* What a client may rely on: every call is served once and returned once,  *)
(* whatever happens to the pool.  A call is served when its response exists. *)
Served(c) == \E w \in Workers : worker[w] \in {"report", "reply"} /\ job[w] = c
CallStage(c) ==
    IF client[c] = "idle" THEN "idle" ELSE IF Served(c) THEN "served" ELSE "pending"

Service == INSTANCE CallService WITH
    call <- [c \in Clients |-> CallStage(c)],
    alive <- panicked = "no"

ServesCallsOnce == Service!Spec

(***************************************************************************)
(* Liveness, under FairSpec.                                               *)
(***************************************************************************)
Ended == panicked # "no"

(* Every call returns unless all workers of its pool have ended: clients    *)
(* of addJobAndWait wait without looking at their context, so only a worker *)
(* that is left can end their wait.                                         *)
CallsAreAnswered ==
    \A c \in Clients :
        client[c] # "idle" ~>
            client[c] = "idle" \/ Ended \/ \A w \in Workers : worker[w] = "done"

(* A terminated pool winds down: its workers close their connections and   *)
(* end, and so does its listener.                                          *)
WoundDown == (\A w \in Workers : worker[w] \in {"unborn", "done"}) /\ listener \in {"off", "done"}
PoolWindsDown == jobsClosed ~> WoundDown \/ Ended

(* A worker that leaves asks for the rebalance before it marks the pool     *)
(* down, so clients are still routed to a pool that misses it.  They are    *)
(* not for ever: the request is taken at last, and the mark follows.        *)
LeftPoolGoesDown ==
    (\E w \in Workers : worker[w] \in {"signal", "exit"}) ~> ~connected \/ Ended

(* A failed connection of a pool in service ends with the pool terminated,  *)
(* to be created anew, if RebalanceOnDisconnection, the nodes are static,   *)
(* and no request waits while another call of Rebalance holds the lock:     *)
(* such a request is dropped, and then the pool may stay down (README).     *)
RequestMeetsLock == rebal > 0 /\ rebalancing \in {"other", "leaving"}
Repaired == creation = "up" /\ (\E w \in Workers : onFailure[w]) ~> jobsClosed \/ Ended

FailureIsRepaired == []~RequestMeetsLock => Repaired

(***************************************************************************)
(* Claims of the repository that the code does not keep (see README).      *)
(***************************************************************************)
(* Every call returns, with an answer or an error.                         *)
CallsReturn == \A c \in Clients : client[c] # "idle" ~> client[c] = "idle" \/ Ended

(* Calls racing with Rebalance or Shutdown end with a result or an error.  *)
NoPanicInCalls == panicked # "jobs"

=============================================================================
