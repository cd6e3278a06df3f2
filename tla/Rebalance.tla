----------------------------- MODULE Rebalance -----------------------------
(***************************************************************************)
(* The node table of a Zencached object and everything that changes it     *)
(* (zencached.go): Rebalance, called by New, by rebalanceWorker, by the    *)
(* application and by the goroutine rebalance starts when it finds no      *)
(* node; and Shutdown.                                                     *)
(*                                                                         *)
(* A pool (nodeWorkers) is a name here, with the part of its state these   *)
(* functions read and write: whether it is connected, and whether it was   *)
(* terminated.  Module NodeWorkers models one pool in full; its failures   *)
(* and its rebalance requests appear here as PoolGoesDown, PoolAsks and    *)
(* PoolSignals.                                                            *)
(*                                                                         *)
(* New calls Rebalance and then starts rebalanceWorker, one after the      *)
(* other, so both are the process Worker, which begins inside Rebalance.   *)
(***************************************************************************)
EXTENDS HostOrder, Functions

CONSTANTS
    Callers,         \* application goroutines that call Rebalance
    Stoppers,        \* application goroutines that call Shutdown
    Worker,          \* rebalanceWorker
    Retries,         \* goroutines rebalance may have started at one time: a bound
    Nodes,           \* configuration.Nodes
    Discoverable,    \* what NodeListFunction may return; {} when there is none
    Dependable,      \* nodes to which a connection can always be made
    Pools,           \* names for nodeWorkers objects: a bound on those in memory
    NoPool,
    RebalanceOnDisconnection

(* A node is <<host, port>>; all that is asked of a host is its order. *)
Listed == Range(Nodes) \cup UNION {Range(list) : list \in Discoverable}
Procs == Callers \cup {Worker} \cup Retries

ASSUME ProcsAssumption ==
    /\ Worker \notin Callers \cup Retries
    /\ Callers \cap Retries = {}
ASSUME NodesAssumption ==
    /\ Nodes \in Seq(Nat \X Nat)
    /\ \A list \in Discoverable : list \in Seq(Nat \X Nat) /\ list # <<>>
ASSUME PoolsAssumption == IsFiniteSet(Pools) /\ NoPool \notin Pools
ASSUME SwitchAssumption == RebalanceOnDisconnection \in BOOLEAN

VARIABLES
    rebalanceLock,
    nodeWorkerArray,  \* the pools, in routing order
    connectedNodes,   \* their nodes, in the same order
    notAvailable,
    status,           \* of each pool: connected is up; terminate makes it terminated
    nodeOf,           \* nw.node
    asking,           \* a goroutine of the pool is at nw.rebalanceChannel <- struct{}{}
    rebal,            \* number of requests buffered in z.rebalanceChannel
    rebalClosed,
    pc,               \* where each process is in rebalance
    todo,             \* discoveredNodes still to be visited
    existing,         \* existingNodeWorkerMap
    foundPools,       \* nodeTelnetConns
    foundNodes,       \* the local connectedNodes
    opened,           \* New has returned
    shuttingDown,
    stop,             \* where each goroutine is in Shutdown
    stopList,         \* the copied workers it has still to terminate
    panicked          \* a closed channel was closed again or sent to

tableVars == <<nodeWorkerArray, connectedNodes>>
poolVars == <<status, nodeOf, asking>>
chanVars == <<rebal, rebalClosed>>
localVars == <<todo, existing, foundPools, foundNodes>>
stopVars == <<shuttingDown, stop, stopList>>
vars == <<rebalanceLock, notAvailable, pc, opened, panicked,
          tableVars, poolVars, chanVars, localVars, stopVars>>

NoMap == [n \in Listed |-> NoPool]
NoNode == <<0, 0>>    \* that of a name no pool has had

Stages == {"idle", "load", "store", "list", "snapshot", "visit", "create", "publish",
           "check", "found", "empty", "wait", "unlock"}

TypeOK ==
    /\ rebalanceLock \in BOOLEAN
    /\ nodeWorkerArray \in Seq(Pools)
    /\ connectedNodes \in Seq(Listed)
    /\ notAvailable \in BOOLEAN
    /\ status \in [Pools -> {"none", "up", "down", "terminated"}]
    /\ nodeOf \in [Pools -> Listed \cup {NoNode}]
    /\ asking \in [Pools -> BOOLEAN]
    /\ rebal \in 0 .. 1
    /\ rebalClosed \in BOOLEAN
    /\ pc \in [Procs -> Stages]
    /\ todo \in [Procs -> Seq(Listed)]
    /\ existing \in [Procs -> [Listed -> Pools \cup {NoPool}]]
    /\ foundPools \in [Procs -> Seq(Pools)]
    /\ foundNodes \in [Procs -> Seq(Listed)]
    /\ opened \in BOOLEAN
    /\ shuttingDown \in BOOLEAN
    /\ stop \in [Stoppers -> {"idle", "store", "copy", "terminate", "done"}]
    /\ stopList \in [Stoppers -> Seq(Pools)]
    /\ panicked \in BOOLEAN

Init ==
    /\ rebalanceLock = FALSE
    /\ nodeWorkerArray = <<>>
    /\ connectedNodes = <<>>
    /\ notAvailable = FALSE
    /\ status = [k \in Pools |-> "none"]
    /\ nodeOf = [k \in Pools |-> NoNode]
    /\ asking = [k \in Pools |-> FALSE]
    /\ rebal = 0
    /\ rebalClosed = FALSE
    /\ pc = [p \in Procs |-> IF p = Worker THEN "load" ELSE "idle"]
    /\ todo = [p \in Procs |-> <<>>]
    /\ existing = [p \in Procs |-> NoMap]
    /\ foundPools = [p \in Procs |-> <<>>]
    /\ foundNodes = [p \in Procs |-> <<>>]
    /\ opened = FALSE
    /\ shuttingDown = FALSE
    /\ stop = [s \in Stoppers |-> "idle"]
    /\ stopList = [s \in Stoppers |-> <<>>]
    /\ panicked = FALSE

-----------------------------------------------------------------------------
Goto(p, from, to) ==
    /\ pc[p] = from
    /\ pc' = [pc EXCEPT ![p] = to]

(* What the locals are before and after a rebalance. *)
ForgetLocals(p) ==
    /\ todo' = [todo EXCEPT ![p] = <<>>]
    /\ existing' = [existing EXCEPT ![p] = NoMap]
    /\ foundPools' = [foundPools EXCEPT ![p] = <<>>]
    /\ foundNodes' = [foundNodes EXCEPT ![p] = <<>>]

(* terminate closes two channels, which panics the second time. *)
Terminate(k) ==
    IF status[k] = "terminated"
    THEN panicked' = TRUE /\ UNCHANGED status
    ELSE status' = [status EXCEPT ![k] = "terminated"] /\ UNCHANGED panicked

NodeHost == [n \in Listed |-> n[1]]
PoolHost == [k \in Pools |-> nodeOf[k][1]]

-----------------------------------------------------------------------------
(* Who calls Rebalance. *)
CallerCalls(p) ==
    /\ p \in Callers
    /\ opened
    /\ Goto(p, "idle", "load")
    /\ UNCHANGED <<rebalanceLock, notAvailable, opened, panicked, tableVars, poolVars,
                   chanVars, localVars, stopVars>>

RequestReceived ==
    /\ Goto(Worker, "idle", "load")
    /\ rebal = 1
    /\ rebal' = 0
    /\ UNCHANGED <<rebalanceLock, notAvailable, opened, panicked, tableVars, poolVars,
                   rebalClosed, localVars, stopVars>>

(* if z.rebalanceLock.Load() { return } *)
LoadLock(p) ==
    /\ Goto(p, "load", IF rebalanceLock THEN "idle" ELSE "store")
    /\ UNCHANGED <<rebalanceLock, notAvailable, opened, panicked, tableVars, poolVars,
                   chanVars, localVars, stopVars>>

StoreLock(p) ==
    /\ Goto(p, "store", "list")
    /\ rebalanceLock' = TRUE
    /\ UNCHANGED <<notAvailable, opened, panicked, tableVars, poolVars,
                   chanVars, localVars, stopVars>>

(* tryListNodes: after NumNodeListRetries failures or empty answers of the  *)
(* function, the configured nodes.                                          *)
ListNodes(p) ==
    /\ Goto(p, "list", "snapshot")
    /\ \E list \in Discoverable \cup {Nodes} : todo' = [todo EXCEPT ![p] = list]
    /\ UNCHANGED <<rebalanceLock, notAvailable, opened, panicked, tableVars, poolVars,
                   chanVars, existing, foundPools, foundNodes, stopVars>>

(* The map of the pools in the table; the last one wins. *)
PoolByNode ==
    [n \in Listed |->
        LET at == {i \in DOMAIN connectedNodes : connectedNodes[i] = n}
        IN  IF at = {} THEN NoPool
            ELSE nodeWorkerArray[CHOOSE i \in at : \A j \in at : j <= i]]

Snapshot(p) ==
    /\ Goto(p, "snapshot", "visit")
    /\ existing' = [existing EXCEPT ![p] = PoolByNode]
    /\ UNCHANGED <<rebalanceLock, notAvailable, opened, panicked, tableVars, poolVars,
                   chanVars, todo, foundPools, foundNodes, stopVars>>

(* Mutant of VisitKeeps: the pool is not added to the new table. *)
VisitSkips(p) ==
    /\ pc[p] = "visit"
    /\ todo[p] # <<>>
    /\ LET k == existing[p][Head(todo[p])] IN k # NoPool /\ status[k] = "up"
    /\ todo' = [todo EXCEPT ![p] = Tail(@)]
    /\ UNCHANGED <<rebalanceLock, notAvailable, pc, opened, panicked, tableVars, poolVars,
                   chanVars, existing, foundPools, foundNodes, stopVars>>

(* A discovered node whose pool is connected is kept. *)
VisitKeeps(p) ==
    /\ pc[p] = "visit"
    /\ todo[p] # <<>>
    /\ LET n == Head(todo[p]) IN
         /\ existing[p][n] # NoPool
         /\ status[existing[p][n]] = "up"
         /\ foundPools' = [foundPools EXCEPT ![p] = Append(@, existing[p][n])]
         /\ foundNodes' = [foundNodes EXCEPT ![p] = Append(@, n)]
    /\ todo' = [todo EXCEPT ![p] = Tail(@)]
    /\ UNCHANGED <<rebalanceLock, notAvailable, pc, opened, panicked, tableVars, poolVars,
                   chanVars, existing, stopVars>>

(* Mutant of VisitReplaces: the old pool is not terminated. *)
VisitAbandons(p) ==
    /\ todo[p] # <<>>
    /\ Goto(p, "visit", "create")
    /\ LET k == existing[p][Head(todo[p])] IN k # NoPool => status[k] # "up"
    /\ UNCHANGED <<rebalanceLock, notAvailable, opened, panicked, tableVars, poolVars,
                   chanVars, localVars, stopVars>>

(* One whose pool is not connected has it terminated first. *)
VisitReplaces(p) ==
    /\ todo[p] # <<>>
    /\ Goto(p, "visit", "create")
    /\ LET k == existing[p][Head(todo[p])]
       IN  IF k = NoPool THEN UNCHANGED <<status, panicked>>
           ELSE status[k] # "up" /\ Terminate(k)
    /\ UNCHANGED <<rebalanceLock, notAvailable, opened, tableVars, nodeOf, asking,
                   chanVars, localVars, stopVars>>

(* A name for a new pool: unused, or of a terminated pool nobody refers to   *)
(* any more.  A request that pool has still to send goes with its name.      *)
Referenced(k) ==
    \/ k \in Range(nodeWorkerArray)
    \/ \E p \in Procs : k \in Range(foundPools[p]) \cup Range(existing[p])
    \/ \E s \in Stoppers : k \in Range(stopList[s])
Free(k) ==
    \/ status[k] = "none"
    \/ status[k] = "terminated" /\ ~Referenced(k)

(* createNodeWorker: the pool is connected when it returns. *)
Creates(p) ==
    /\ Goto(p, "create", "visit")
    /\ \E k \in Pools : Free(k)
    /\ LET k == CHOOSE k \in Pools : Free(k)
           n == Head(todo[p])
       IN  /\ status' = [status EXCEPT ![k] = "up"]
           /\ nodeOf' = [nodeOf EXCEPT ![k] = n]
           /\ foundPools' = [foundPools EXCEPT ![p] = Append(@, k)]
           /\ foundNodes' = [foundNodes EXCEPT ![p] = Append(@, n)]
           /\ existing' = [existing EXCEPT ![p][n] = k]
    /\ todo' = [todo EXCEPT ![p] = Tail(@)]
    /\ UNCHANGED <<rebalanceLock, notAvailable, opened, panicked, tableVars, asking,
                   chanVars, stopVars>>

(* Mutant of CreateFails: the node keeps its old pool. *)
CreateFailsKeepsOld(p) ==
    /\ Goto(p, "create", "visit")
    /\ LET n == Head(todo[p]) IN
         /\ n \notin Dependable
         /\ existing[p][n] # NoPool
         /\ foundPools' = [foundPools EXCEPT ![p] = Append(@, existing[p][n])]
         /\ foundNodes' = [foundNodes EXCEPT ![p] = Append(@, n)]
    /\ todo' = [todo EXCEPT ![p] = Tail(@)]
    /\ UNCHANGED <<rebalanceLock, notAvailable, opened, panicked, tableVars, poolVars,
                   chanVars, existing, stopVars>>

(* It failed: the node is left out. *)
CreateFails(p) ==
    /\ Goto(p, "create", "visit")
    /\ Head(todo[p]) \notin Dependable
    /\ todo' = [todo EXCEPT ![p] = Tail(@)]
    /\ UNCHANGED <<rebalanceLock, notAvailable, opened, panicked, tableVars, poolVars,
                   chanVars, existing, foundPools, foundNodes, stopVars>>

(* Mutant of Publish: only one of the two arrays is sorted. *)
PublishHalfSorted(p) ==
    /\ todo[p] = <<>>
    /\ Goto(p, "visit", "check")
    /\ nodeWorkerArray' = foundPools[p]
    /\ connectedNodes' = SortByHost(foundNodes[p], NodeHost)
    /\ ForgetLocals(p)
    /\ UNCHANGED <<rebalanceLock, notAvailable, opened, panicked, poolVars, chanVars, stopVars>>

(* Both arrays are sorted, and published together under nodeWorkersMu. *)
Publish(p) ==
    /\ todo[p] = <<>>
    /\ Goto(p, "visit", "check")
    /\ nodeWorkerArray' = SortByHost(foundPools[p], PoolHost)
    /\ connectedNodes' = SortByHost(foundNodes[p], NodeHost)
    /\ ForgetLocals(p)
    /\ UNCHANGED <<rebalanceLock, notAvailable, opened, panicked, poolVars, chanVars, stopVars>>

(* if len(z.connectedNodes) == 0, which is read without the mutex. *)
CheckEmpty(p) ==
    /\ Goto(p, "check", IF connectedNodes = <<>> THEN "empty" ELSE "found")
    /\ UNCHANGED <<rebalanceLock, notAvailable, opened, panicked, tableVars, poolVars,
                   chanVars, localVars, stopVars>>

(* Mutant of MarkAvailable: the flag stays as it was. *)
LeaveFlag(p) ==
    /\ Goto(p, "found", "unlock")
    /\ UNCHANGED <<rebalanceLock, notAvailable, opened, panicked, tableVars, poolVars,
                   chanVars, localVars, stopVars>>

MarkAvailable(p) ==
    /\ Goto(p, "found", "unlock")
    /\ notAvailable' = FALSE
    /\ UNCHANGED <<rebalanceLock, opened, panicked, tableVars, poolVars,
                   chanVars, localVars, stopVars>>

MarkNotAvailable(p) ==
    /\ Goto(p, "empty", "wait")
    /\ notAvailable' = TRUE
    /\ UNCHANGED <<rebalanceLock, opened, panicked, tableVars, poolVars,
                   chanVars, localVars, stopVars>>

(* After NodeListRetryTimeout, go func() { z.Rebalance() }().  The guard on  *)
(* a free name is a bound of the model: a go statement never waits.  Two     *)
(* names are enough when one rebalance runs at a time, since the one that is *)
(* not p's own is idle or about to find the lock p holds.                    *)
StartRetry(p) ==
    /\ pc[p] = "wait"
    /\ \E r \in Retries :
         /\ pc[r] = "idle"
         /\ pc' = [pc EXCEPT ![p] = "unlock", ![r] = "load"]
    /\ UNCHANGED <<rebalanceLock, notAvailable, opened, panicked, tableVars, poolVars,
                   chanVars, localVars, stopVars>>

(* Mutant of Unlock: the lock is not given back. *)
ForgetUnlock(p) ==
    /\ Goto(p, "unlock", "idle")
    /\ opened' = (opened \/ p = Worker)
    /\ UNCHANGED <<rebalanceLock, notAvailable, panicked, tableVars, poolVars, chanVars,
                   localVars, stopVars>>

(* The deferred z.rebalanceLock.Store(false). *)
Unlock(p) ==
    /\ Goto(p, "unlock", "idle")
    /\ rebalanceLock' = FALSE
    /\ opened' = (opened \/ p = Worker)
    /\ UNCHANGED <<notAvailable, panicked, tableVars, poolVars, chanVars, localVars, stopVars>>

RebalanceStep(p) ==
    \/ LoadLock(p) \/ StoreLock(p) \/ ListNodes(p) \/ Snapshot(p)
    \/ VisitKeeps(p) \/ VisitReplaces(p) \/ Creates(p) \/ CreateFails(p)
    \/ Publish(p) \/ CheckEmpty(p) \/ MarkAvailable(p) \/ MarkNotAvailable(p)
    \/ StartRetry(p) \/ Unlock(p)

-----------------------------------------------------------------------------
(* What a pool does by itself (module NodeWorkers).  listenForDisconnections *)
(* marks it down and asks for a rebalance; a worker that gives up asks       *)
(* first and marks it down later; and the workers of a terminated pool may   *)
(* still ask while they answer the jobs left in it.                          *)
PoolGoesDown(k) ==
    /\ status[k] = "up"
    /\ status' = [status EXCEPT ![k] = "down"]
    /\ asking' = [asking EXCEPT ![k] = RebalanceOnDisconnection]
    /\ UNCHANGED <<rebalanceLock, notAvailable, pc, opened, panicked, tableVars, nodeOf,
                   chanVars, localVars, stopVars>>

PoolGivesUp(k) ==
    /\ status[k] = "up"
    /\ status' = [status EXCEPT ![k] = "down"]
    /\ UNCHANGED <<rebalanceLock, notAvailable, pc, opened, panicked, tableVars, nodeOf,
                   asking, chanVars, localVars, stopVars>>

PoolAsks(k) ==
    /\ RebalanceOnDisconnection
    /\ status[k] # "none"
    /\ ~asking[k]
    /\ asking' = [asking EXCEPT ![k] = TRUE]
    /\ UNCHANGED <<rebalanceLock, notAvailable, pc, opened, panicked, tableVars, status,
                   nodeOf, chanVars, localVars, stopVars>>

(* Mutant of PoolSignals: nothing bounds the channel. *)
PoolSignalsUnbounded(k) ==
    /\ asking[k]
    /\ ~rebalClosed
    /\ rebal' = rebal + 1
    /\ asking' = [asking EXCEPT ![k] = FALSE]
    /\ UNCHANGED <<rebalanceLock, notAvailable, pc, opened, panicked, tableVars, status,
                   nodeOf, rebalClosed, localVars, stopVars>>

(* z.rebalanceChannel <- struct{}{}, of capacity 1. *)
PoolSignals(k) ==
    /\ asking[k]
    /\ ~rebalClosed
    /\ rebal = 0
    /\ rebal' = 1
    /\ asking' = [asking EXCEPT ![k] = FALSE]
    /\ UNCHANGED <<rebalanceLock, notAvailable, pc, opened, panicked, tableVars, status,
                   nodeOf, rebalClosed, localVars, stopVars>>

(* The same after Shutdown closed it. *)
PoolPanics(k) ==
    /\ asking[k]
    /\ rebalClosed
    /\ panicked' = TRUE
    /\ UNCHANGED <<rebalanceLock, notAvailable, pc, opened, tableVars, poolVars,
                   chanVars, localVars, stopVars>>

PoolStep(k) ==
    PoolGoesDown(k) \/ PoolGivesUp(k) \/ PoolAsks(k) \/ PoolSignals(k) \/ PoolPanics(k)

-----------------------------------------------------------------------------
(* Shutdown. *)
StopAt(s, from, to) ==
    /\ stop[s] = from
    /\ stop' = [stop EXCEPT ![s] = to]

StopLoads(s) ==
    /\ opened
    /\ StopAt(s, "idle", IF shuttingDown THEN "done" ELSE "store")
    /\ UNCHANGED <<rebalanceLock, notAvailable, pc, opened, panicked, tableVars, poolVars,
                   chanVars, localVars, shuttingDown, stopList>>

StopStores(s) ==
    /\ StopAt(s, "store", "copy")
    /\ shuttingDown' = TRUE
    /\ UNCHANGED <<rebalanceLock, notAvailable, pc, opened, panicked, tableVars, poolVars,
                   chanVars, localVars, stopList>>

StopCopies(s) ==
    /\ StopAt(s, "copy", "terminate")
    /\ stopList' = [stopList EXCEPT ![s] = nodeWorkerArray]
    /\ UNCHANGED <<rebalanceLock, notAvailable, pc, opened, panicked, tableVars, poolVars,
                   chanVars, localVars, shuttingDown>>

StopTerminates(s) ==
    /\ stop[s] = "terminate"
    /\ stopList[s] # <<>>
    /\ Terminate(Head(stopList[s]))
    /\ stopList' = [stopList EXCEPT ![s] = Tail(@)]
    /\ UNCHANGED <<rebalanceLock, notAvailable, pc, opened, tableVars, nodeOf, asking,
                   chanVars, localVars, shuttingDown, stop>>

(* close(z.rebalanceChannel) *)
StopCloses(s) ==
    /\ stopList[s] = <<>>
    /\ StopAt(s, "terminate", "done")
    /\ rebalClosed' = TRUE
    /\ panicked' = rebalClosed
    /\ UNCHANGED <<rebalanceLock, notAvailable, pc, opened, tableVars, poolVars, rebal,
                   localVars, shuttingDown, stopList>>

StopStep(s) ==
    StopLoads(s) \/ StopStores(s) \/ StopCopies(s) \/ StopTerminates(s) \/ StopCloses(s)

-----------------------------------------------------------------------------
Next ==
    /\ ~panicked
    /\ \/ \E p \in Procs : CallerCalls(p) \/ RebalanceStep(p)
       \/ RequestReceived
       \/ \E k \in Pools : PoolStep(k)
       \/ \E s \in Stoppers : StopStep(s)

Spec == Init /\ [][Next]_vars

(***************************************************************************)
(* Fairness.  Nothing inside rebalance waits for anything but the network, *)
(* which has deadlines (HostConnectionTimeout), and NodeListFunction,      *)
(* which is taken to return; so every step of a process that is inside     *)
(* happens, and so does every step of a running Shutdown.  Senders blocked *)
(* on a channel are served in order of arrival, hence strong fairness.     *)
(* Nothing makes a pool fail or the application call anything.             *)
(***************************************************************************)
Fairness ==
    /\ \A p \in Procs : WF_vars(~panicked /\ RebalanceStep(p))
    /\ WF_vars(~panicked /\ RequestReceived)
    /\ \A k \in Pools : SF_vars(~panicked /\ PoolSignals(k))
    /\ \A s \in Stoppers : WF_vars(~panicked /\ stop[s] # "idle" /\ StopStep(s))

FairSpec == Spec /\ Fairness

(* A node that is dialled again and again is reached at last. *)
ReachableSpec == FairSpec /\ \A p \in Procs : SF_vars(~panicked /\ Creates(p))

-----------------------------------------------------------------------------
Inside(p) == pc[p] \notin {"idle", "load"}
AtRest == \A p \in Procs : ~Inside(p)
Alive(k) == status[k] \in {"up", "down"}

(* The two arrays that are published together stay parallel and in host    *)
(* order, however Rebalance calls overlap: connectedNodes[i] is the node   *)
(* whose pool commands with index i are routed to, and the map the next    *)
(* rebalance builds from them gives every node its own pool.               *)
TablesAligned ==
    /\ Len(nodeWorkerArray) = Len(connectedNodes)
    /\ \A i \in DOMAIN nodeWorkerArray : nodeOf[nodeWorkerArray[i]] = connectedNodes[i]
    /\ \A i, j \in DOMAIN connectedNodes :
         i < j => NodeHost[connectedNodes[i]] <= NodeHost[connectedNodes[j]]

(* No pool is terminated twice, which would close a closed channel. *)
NoDoubleTermination == ~panicked

(* Between two rebalances the table is exact: every pool in it can still   *)
(* be used or replaced, and no pool that was not terminated is outside it, *)
(* where nobody would ever close its connections.                          *)
TableIsExactAtRest == AtRest => Range(nodeWorkerArray) = {k \in Pools : Alive(k)}

(* A rebalance never takes a pool that works out of the table. *)
HealthyPoolsKept ==
    [][\A k \in Range(nodeWorkerArray) :
         status[k] = "up" => k \in Range(nodeWorkerArray')]_vars

(* No wake-up is lost: a pool that is down and whose request is on its way *)
(* is terminated, to be created anew, by this rebalance or the next.       *)
RequestIsServed ==
    \A k \in Pools : status[k] = "down" /\ asking[k] ~> status[k] = "terminated"

(* When nobody rebalances or is about to, the flag that makes every command *)
(* return ErrNoAvailableNodes is set exactly if the table is empty.         *)
FlagAgreesAtRest ==
    (\A p \in Procs : pc[p] = "idle") => (notAvailable <=> nodeWorkerArray = <<>>)

(***************************************************************************)
(* Claims of the repository that the code does not keep (see README).      *)
(***************************************************************************)
(* When Shutdown has returned and the rebalances that ran beside it are over, *)
(* no connection is left.                                                   *)
ShutdownClosesAllPools ==
    (\E s \in Stoppers : stop[s] = "done") /\ AtRest => \A k \in Pools : ~Alive(k)

(* A client that finds no node keeps looking until it has one. *)
EmptyTableRecovers == []<>(nodeWorkerArray # <<>>)
=============================================================================
