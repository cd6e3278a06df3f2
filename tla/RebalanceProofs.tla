-------------------------- MODULE RebalanceProofs --------------------------
(***************************************************************************)
(* Theorems about Rebalance, for all nodes, pools, goroutines and          *)
(* configurations.                                                         *)
(***************************************************************************)
EXTENDS Rebalance, HostOrderProofs, WellFoundedInduction

-----------------------------------------------------------------------------
(* The nodes of the pools.  What is referred to was created, and the lists   *)
(* of pools and of nodes that go together do.                                *)
Parallel(pools, nodes) ==
    /\ Len(pools) = Len(nodes)
    /\ \A i \in 1 .. Len(pools) : nodeOf[pools[i]] = nodes[i]

Typing ==
    /\ TypeOK
    /\ \A p \in Procs : pc[p] = "create" => todo[p] # <<>>

AlignInv ==
    /\ Parallel(nodeWorkerArray, connectedNodes)
    /\ \A i, j \in 1 .. Len(connectedNodes) :
         i < j => NodeHost[connectedNodes[i]] <= NodeHost[connectedNodes[j]]
    /\ \A p \in Procs :
         /\ Parallel(foundPools[p], foundNodes[p])
         /\ \A n \in Listed : existing[p][n] # NoPool => nodeOf[existing[p][n]] = n
    /\ \A k \in Pools : status[k] = "none" => ~Referenced(k)

(* The largest and the smallest of some numbers. *)
LEMMA LargestExists ==
    ASSUME NEW n \in Nat, NEW S, S \subseteq 1 .. n, S # {}
    PROVE  \E i \in S : \A j \in S : j <= i
  <1> DEFINE R == OpToRel(<, Nat)
             T == {n - i : i \in S}
  <1>1. T \subseteq Nat /\ T # {}
    <2>1. \A i \in S : n - i \in Nat
      OBVIOUS
    <2> QED
      BY <2>1
  <1>2. \E x \in T : \A y \in T : ~(<<y, x>> \in R)
    <2> HIDE DEF T, R
    <2>1. IsWellFoundedOn(R, Nat)
      BY NatLessThanWellFounded DEF R
    <2> QED
      BY <1>1, <2>1, WFMin
  <1>3. PICK i \in S : \A y \in T : ~(<<y, n - i>> \in R)
    BY <1>2
  <1>4. ASSUME NEW j \in S PROVE j <= i
    <2>1. n - j \in T /\ n - j \in Nat /\ n - i \in Nat
      BY <1>1
    <2>2. ~(n - j < n - i)
      BY <1>3, <2>1 DEF OpToRel
    <2> QED
      BY <2>2
  <1> QED
    BY <1>4

-----------------------------------------------------------------------------
LEMMA ListsTyped ==
    /\ \A list \in Discoverable \cup {Nodes} : list \in Seq(Listed)
    /\ \A n \in Listed : n \in Nat \X Nat /\ NodeHost[n] \in Nat /\ NodeHost[n] = n[1]
    /\ NoMap \in [Listed -> Pools \cup {NoPool}]
  <1>1. \A list \in Discoverable \cup {Nodes} :
          list \in Seq(Range(list)) /\ Range(list) \subseteq Nat \X Nat
    BY NodesAssumption, SeqOfRange, RangeOfSeq
  <1>2. \A list \in Discoverable \cup {Nodes} : Range(list) \subseteq Listed
    BY DEF Listed
  <1>3. Listed \subseteq Nat \X Nat
    BY <1>1 DEF Listed
  <1>4. \A list \in Discoverable \cup {Nodes} : list \in Seq(Listed)
    BY <1>1, <1>2, SeqMonotonic
  <1> QED
    BY <1>3, <1>4 DEF NoMap, NodeHost

(* What the arrays are sorted into. *)
LEMMA SortedTables ==
    ASSUME Typing, AlignInv, NEW p \in Procs
    PROVE  LET pools == SortByHost(foundPools[p], PoolHost)
               nodes == SortByHost(foundNodes[p], NodeHost)
           IN  /\ pools \in Seq(Pools) /\ nodes \in Seq(Listed)
               /\ Parallel(pools, nodes)
               /\ \A i, j \in 1 .. Len(nodes) : i < j => NodeHost[nodes[i]] <= NodeHost[nodes[j]]
               /\ Range(pools) = Range(foundPools[p])
               /\ IsInjective(foundNodes[p]) => IsInjective(nodes)
               /\ Len(pools) = Len(foundPools[p])
  <1> DEFINE s == foundPools[p]
             t == foundNodes[p]
             pools == SortByHost(s, PoolHost)
             nodes == SortByHost(t, NodeHost)
  <1>1. s \in Seq(Pools) /\ t \in Seq(Listed) /\ Parallel(s, t)
    BY DEF Typing, TypeOK, AlignInv
  <1>2. ASSUME NEW i \in 1 .. Len(s)
        PROVE  PoolHost[s[i]] = NodeHost[t[i]] /\ NodeHost[t[i]] \in Nat
    <2>1. s[i] \in Pools /\ t[i] \in Listed /\ nodeOf[s[i]] = t[i]
      BY <1>1 DEF Parallel
    <2>2. PoolHost[s[i]] = t[i][1]
      BY <2>1 DEF PoolHost
    <2> QED
      BY <2>1, <2>2, ListsTyped
  <1> HIDE DEF s, t
  <1>3. Len(s) = Len(t)
    BY <1>1 DEF Parallel
  <1>4. TakenFrom(pools, nodes, s, t)
    BY <1>1, <1>2, <1>3, SortedTogether
  <1>5. pools \in Seq(Pools) /\ Len(pools) = Len(s) /\ Range(pools) = Range(s)
    <2>1. \A i \in 1 .. Len(s) : PoolHost[s[i]] \in Nat
      BY <1>2
    <2> QED
      BY <1>1, <2>1, SortPermutes
  <1>6. /\ nodes \in Seq(Listed) /\ Len(nodes) = Len(t)
        /\ \A i, j \in 1 .. Len(t) : i < j => NodeHost[nodes[i]] <= NodeHost[nodes[j]]
        /\ IsInjective(t) => IsInjective(nodes)
    <2>1. \A i \in 1 .. Len(t) : NodeHost[t[i]] \in Nat
      BY <1>2, <1>3
    <2> QED
      BY <1>1, <2>1, SortPermutes
  <1> HIDE DEF pools, nodes
  <1>7. Parallel(pools, nodes)
    <2>1. \A j \in DOMAIN s : nodeOf[s[j]] = t[j]
      BY <1>1 DEF Parallel
    <2>2. \A k \in DOMAIN pools : nodeOf[pools[k]] = nodes[k]
      BY <1>4, <2>1 DEF TakenFrom
    <2> QED
      BY <1>3, <1>5, <1>6, <2>2 DEF Parallel
  <1> QED
    BY <1>3, <1>5, <1>6, <1>7 DEF s, t, pools, nodes

(* The map of the table gives a node a pool of its own. *)
LEMMA PoolsByNode ==
    ASSUME Typing, AlignInv, NEW n \in Listed
    PROVE  /\ PoolByNode[n] \in Pools \cup {NoPool}
           /\ PoolByNode[n] # NoPool =>
                /\ PoolByNode[n] \in Range(nodeWorkerArray)
                /\ nodeOf[PoolByNode[n]] = n
           /\ \A i \in 1 .. Len(connectedNodes) :
                connectedNodes[i] = n =>
                  PoolByNode[n] \in {nodeWorkerArray[j] :
                    j \in {l \in 1 .. Len(connectedNodes) : connectedNodes[l] = n}}
  <1> DEFINE at == {i \in DOMAIN connectedNodes : connectedNodes[i] = n}
             last == CHOOSE i \in at : \A j \in at : j <= i
  <1>1. /\ connectedNodes \in Seq(Listed) /\ nodeWorkerArray \in Seq(Pools)
        /\ Parallel(nodeWorkerArray, connectedNodes)
    BY DEF Typing, TypeOK, AlignInv
  <1>2. at \subseteq 1 .. Len(connectedNodes) /\ Len(connectedNodes) \in Nat
    BY <1>1
  <1>3. PoolByNode[n] = IF at = {} THEN NoPool ELSE nodeWorkerArray[last]
    BY DEF PoolByNode
  <1>4. at # {} => last \in at
    <2> HIDE DEF at
    <2>1. at # {} => \E i \in at : \A j \in at : j <= i
      BY <1>2, LargestExists
    <2> QED
      BY <2>1
  <1>5. last \in at =>
          /\ last \in 1 .. Len(nodeWorkerArray)
          /\ nodeWorkerArray[last] \in Pools
          /\ nodeWorkerArray[last] \in Range(nodeWorkerArray)
          /\ nodeOf[nodeWorkerArray[last]] = n
    <2> HIDE DEF last
    <2> SUFFICES ASSUME last \in at
                 PROVE  /\ last \in 1 .. Len(nodeWorkerArray)
                        /\ nodeWorkerArray[last] \in Pools
                        /\ nodeWorkerArray[last] \in Range(nodeWorkerArray)
                        /\ nodeOf[nodeWorkerArray[last]] = n
      OBVIOUS
    <2>1. last \in 1 .. Len(nodeWorkerArray) /\ connectedNodes[last] = n
      BY <1>1, <1>2 DEF Parallel
    <2> QED
      BY <1>1, <2>1 DEF Parallel, Range
  <1> HIDE DEF last
  <1>6. DOMAIN connectedNodes = 1 .. Len(connectedNodes)
    BY <1>1
  <1> QED
    BY <1>3, <1>4, <1>5, <1>6

-----------------------------------------------------------------------------
(* Types.                                                                    *)
LEMMA TypingStep == Typing /\ AlignInv /\ [Next]_vars => Typing'
  <1> SUFFICES ASSUME Typing, AlignInv, [Next]_vars PROVE Typing'
    OBVIOUS
  <1> USE DEF Typing, tableVars, poolVars, chanVars, localVars, stopVars
  <1>1. ASSUME NEW p \in Procs, CallerCalls(p) \/ LoadLock(p) \/ StoreLock(p) \/ CheckEmpty(p)
                                 \/ MarkAvailable(p) \/ MarkNotAvailable(p) \/ Unlock(p)
        PROVE  Typing'
    BY <1>1 DEF CallerCalls, LoadLock, StoreLock, CheckEmpty, MarkAvailable, MarkNotAvailable,
      Unlock, Goto, TypeOK, Stages
  <1>2. CASE RequestReceived
    <2>1. Worker \in Procs /\ pc' = [pc EXCEPT ![Worker] = "load"]
      BY <1>2 DEF RequestReceived, Goto, Procs
    <2>2. pc' \in [Procs -> Stages] /\ \A q \in Procs : pc'[q] = "create" => pc[q] = "create"
      BY <2>1 DEF TypeOK, Stages
    <2> QED
      BY <1>2, <2>2 DEF RequestReceived, TypeOK
  <1>3. ASSUME NEW p \in Procs, ListNodes(p) PROVE Typing'
    <2>1. PICK list \in Discoverable \cup {Nodes} : todo' = [todo EXCEPT ![p] = list]
      BY <1>3 DEF ListNodes
    <2>2. todo' \in [Procs -> Seq(Listed)]
      BY <2>1, ListsTyped DEF TypeOK
    <2>3. /\ pc' = [pc EXCEPT ![p] = "snapshot"]
          /\ \A q \in Procs : pc'[q] = "create" => q # p /\ pc[q] = "create"
      BY <1>3 DEF ListNodes, Goto, TypeOK
    <2>4. \A q \in Procs : pc'[q] = "create" => todo'[q] # <<>>
      BY <2>1, <2>3 DEF TypeOK
    <2> QED
      BY <1>3, <2>2, <2>3, <2>4 DEF ListNodes, TypeOK, Stages
  <1>4. ASSUME NEW p \in Procs, Snapshot(p) PROVE Typing'
    <2>1. PoolByNode \in [Listed -> Pools \cup {NoPool}]
      BY PoolsByNode DEF PoolByNode
    <2>2. existing' \in [Procs -> [Listed -> Pools \cup {NoPool}]]
      BY <1>4, <2>1 DEF Snapshot, TypeOK
    <2> QED
      BY <1>4, <2>2 DEF Snapshot, Goto, TypeOK, Stages
  <1>5. ASSUME NEW p \in Procs, VisitKeeps(p) PROVE Typing'
    <2> DEFINE n == Head(todo[p])
               k == existing[p][n]
    <2>1. todo[p] \in Seq(Listed) /\ todo[p] # <<>> /\ pc[p] = "visit"
      BY <1>5 DEF VisitKeeps, TypeOK
    <2>2. n \in Listed /\ Tail(todo[p]) \in Seq(Listed)
      BY <2>1, HeadTailProperties
    <2>3. k \in Pools
      BY <1>5, <2>2 DEF VisitKeeps, TypeOK
    <2> HIDE DEF n, k
    <2>4. /\ foundPools' = [foundPools EXCEPT ![p] = Append(@, k)]
          /\ foundNodes' = [foundNodes EXCEPT ![p] = Append(@, n)]
          /\ todo' = [todo EXCEPT ![p] = Tail(@)]
      BY <1>5 DEF VisitKeeps, k, n
    <2>5. /\ Append(foundPools[p], k) \in Seq(Pools)
          /\ Append(foundNodes[p], n) \in Seq(Listed)
      BY <2>2, <2>3 DEF TypeOK
    <2>6. /\ foundPools' \in [Procs -> Seq(Pools)]
          /\ foundNodes' \in [Procs -> Seq(Listed)]
          /\ todo' \in [Procs -> Seq(Listed)]
      BY <2>2, <2>4, <2>5 DEF TypeOK
    <2>7. \A q \in Procs : pc'[q] = "create" => todo'[q] # <<>>
      BY <1>5, <2>1, <2>4 DEF VisitKeeps, TypeOK
    <2> QED
      BY <1>5, <2>6, <2>7 DEF VisitKeeps, TypeOK
  <1>6. ASSUME NEW p \in Procs, VisitReplaces(p) PROVE Typing'
    <2>1. status' \in [Pools -> {"none", "up", "down", "terminated"}] /\ panicked' \in BOOLEAN
      BY <1>6 DEF VisitReplaces, Terminate, TypeOK
    <2> QED
      BY <1>6, <2>1 DEF VisitReplaces, Goto, TypeOK, Stages
  <1>7. ASSUME NEW p \in Procs, Creates(p) PROVE Typing'
    <2>1. PICK k \in Pools :
            /\ status' = [status EXCEPT ![k] = "up"]
            /\ nodeOf' = [nodeOf EXCEPT ![k] = Head(todo[p])]
            /\ foundPools' = [foundPools EXCEPT ![p] = Append(@, k)]
            /\ foundNodes' = [foundNodes EXCEPT ![p] = Append(@, Head(todo[p]))]
            /\ existing' = [existing EXCEPT ![p][Head(todo[p])] = k]
      BY <1>7 DEF Creates
    <2> DEFINE n == Head(todo[p])
    <2>2. pc[p] = "create" /\ todo[p] \in Seq(Listed) /\ todo[p] # <<>>
      BY <1>7 DEF Creates, Goto, TypeOK
    <2>3. n \in Listed /\ Tail(todo[p]) \in Seq(Listed)
      BY <2>2, HeadTailProperties
    <2> HIDE DEF n
    <2>4. Append(foundPools[p], k) \in Seq(Pools) /\ Append(foundNodes[p], n) \in Seq(Listed)
      BY <2>3 DEF TypeOK
    <2>5. /\ status' \in [Pools -> {"none", "up", "down", "terminated"}]
          /\ nodeOf' \in [Pools -> Listed \cup {NoNode}]
          /\ foundPools' \in [Procs -> Seq(Pools)]
          /\ foundNodes' \in [Procs -> Seq(Listed)]
          /\ existing' \in [Procs -> [Listed -> Pools \cup {NoPool}]]
      BY <2>1, <2>3, <2>4 DEF TypeOK, n
    <2>6. todo' = [todo EXCEPT ![p] = Tail(@)] /\ pc' = [pc EXCEPT ![p] = "visit"]
      BY <1>7 DEF Creates, Goto
    <2>7. todo' \in [Procs -> Seq(Listed)]
      BY <2>3, <2>6 DEF TypeOK
    <2>8. \A q \in Procs : pc'[q] = "create" => todo'[q] # <<>>
      BY <2>6 DEF TypeOK
    <2> QED
      BY <1>7, <2>5, <2>6, <2>7, <2>8 DEF Creates, TypeOK, Stages
  <1>8. ASSUME NEW p \in Procs, CreateFails(p) PROVE Typing'
    <2>1. pc[p] = "create" /\ todo[p] \in Seq(Listed) /\ todo[p] # <<>>
      BY <1>8 DEF CreateFails, Goto, TypeOK
    <2>2. todo' = [todo EXCEPT ![p] = Tail(@)] /\ pc' = [pc EXCEPT ![p] = "visit"]
      BY <1>8 DEF CreateFails, Goto
    <2>3. todo' \in [Procs -> Seq(Listed)]
      BY <2>1, <2>2 DEF TypeOK
    <2>4. \A q \in Procs : pc'[q] = "create" => todo'[q] # <<>>
      BY <2>2 DEF TypeOK
    <2> QED
      BY <1>8, <2>2, <2>3, <2>4 DEF CreateFails, TypeOK, Stages
  <1>9. ASSUME NEW p \in Procs, Publish(p) PROVE Typing'
    <2>1. nodeWorkerArray' \in Seq(Pools) /\ connectedNodes' \in Seq(Listed)
      BY <1>9, SortedTables DEF Publish
    <2>2. /\ todo' = [todo EXCEPT ![p] = <<>>]
          /\ existing' = [existing EXCEPT ![p] = NoMap]
          /\ foundPools' = [foundPools EXCEPT ![p] = <<>>]
          /\ foundNodes' = [foundNodes EXCEPT ![p] = <<>>]
          /\ pc' = [pc EXCEPT ![p] = "check"]
      BY <1>9 DEF Publish, ForgetLocals, Goto
    <2>3. /\ todo' \in [Procs -> Seq(Listed)]
          /\ foundPools' \in [Procs -> Seq(Pools)]
          /\ foundNodes' \in [Procs -> Seq(Listed)]
      BY <2>2 DEF TypeOK
    <2>4. existing' \in [Procs -> [Listed -> Pools \cup {NoPool}]]
      BY <2>2, ListsTyped DEF TypeOK
    <2>5. /\ pc' \in [Procs -> Stages]
          /\ \A q \in Procs : pc'[q] = "create" => q # p /\ pc[q] = "create"
      BY <2>2 DEF TypeOK, Stages
    <2>6. \A q \in Procs : pc'[q] = "create" => todo'[q] # <<>>
      BY <2>2, <2>5 DEF TypeOK
    <2> QED
      BY <1>9, <2>1, <2>3, <2>4, <2>5, <2>6 DEF Publish, TypeOK
  <1>10. ASSUME NEW p \in Procs, StartRetry(p) PROVE Typing'
    BY <1>10 DEF StartRetry, TypeOK, Stages, Procs
  <1>11. ASSUME NEW k \in Pools, PoolStep(k) PROVE Typing'
    <2>1. CASE PoolGoesDown(k)
      BY <2>1, SwitchAssumption DEF PoolGoesDown, TypeOK
    <2>2. CASE PoolGivesUp(k)
      BY <2>2 DEF PoolGivesUp, TypeOK
    <2>3. CASE PoolAsks(k)
      BY <2>3 DEF PoolAsks, TypeOK
    <2>4. CASE PoolSignals(k)
      BY <2>4 DEF PoolSignals, TypeOK
    <2>5. CASE PoolPanics(k)
      BY <2>5 DEF PoolPanics, TypeOK
    <2> QED
      BY <1>11, <2>1, <2>2, <2>3, <2>4, <2>5 DEF PoolStep
  <1>12. ASSUME NEW s \in Stoppers, StopStep(s) PROVE Typing'
    <2>1. CASE StopLoads(s) \/ StopStores(s) \/ StopCopies(s) \/ StopCloses(s)
      BY <2>1 DEF StopLoads, StopStores, StopCopies, StopCloses, StopAt, TypeOK
    <2>2. CASE StopTerminates(s)
      <3>1. stopList' \in [Stoppers -> Seq(Pools)]
        BY <2>2 DEF StopTerminates, TypeOK
      <3>2. status' \in [Pools -> {"none", "up", "down", "terminated"}] /\ panicked' \in BOOLEAN
        BY <2>2 DEF StopTerminates, Terminate, TypeOK
      <3> QED
        BY <2>2, <3>1, <3>2 DEF StopTerminates, TypeOK
    <2> QED
      BY <1>12, <2>1, <2>2 DEF StopStep
  <1>13. CASE UNCHANGED vars
    BY <1>13 DEF vars, TypeOK
  <1> QED
    BY <1>1, <1>2, <1>3, <1>4, <1>5, <1>6, <1>7, <1>8, <1>9, <1>10, <1>11, <1>12, <1>13
    DEF Next, RebalanceStep

LEMMA TypingInit == Init => Typing /\ AlignInv
  <1> SUFFICES ASSUME Init PROVE Typing /\ AlignInv
    OBVIOUS
  <1>1. /\ status \in [Pools -> {"none", "up", "down", "terminated"}]
        /\ nodeOf \in [Pools -> Listed \cup {NoNode}]
        /\ asking \in [Pools -> BOOLEAN]
    BY DEF Init
  <1>2. /\ pc \in [Procs -> Stages]
        /\ todo \in [Procs -> Seq(Listed)]
        /\ foundPools \in [Procs -> Seq(Pools)]
        /\ foundNodes \in [Procs -> Seq(Listed)]
        /\ \A p \in Procs : pc[p] # "create"
    BY DEF Init, Stages
  <1>3. existing \in [Procs -> [Listed -> Pools \cup {NoPool}]]
    BY ListsTyped DEF Init
  <1>4. Typing
    <2>1. /\ stop \in [Stoppers -> {"idle", "store", "copy", "terminate", "done"}]
          /\ stopList \in [Stoppers -> Seq(Pools)]
      BY DEF Init
    <2>2. nodeWorkerArray \in Seq(Pools) /\ connectedNodes \in Seq(Listed)
      BY DEF Init
    <2>3. rebal \in 0 .. 1
      BY DEF Init
    <2> QED
      BY <1>1, <1>2, <1>3, <2>1, <2>2, <2>3 DEF Init, Typing, TypeOK
  <1>5. \A p \in Procs : \A n \in Listed : existing[p][n] = NoPool
    BY DEF Init, NoMap
  <1>6. ASSUME NEW k \in Pools PROVE ~Referenced(k)
    <2>1. \A p \in Procs : Range(existing[p]) \subseteq {NoPool}
      BY <1>5, <1>3 DEF Range
    <2>2. Range(<<>>) = {}
      BY DEF Range
    <2> QED
      BY <2>1, <2>2, PoolsAssumption DEF Init, Referenced
  <1>7. Parallel(nodeWorkerArray, connectedNodes)
    BY DEF Init, Parallel
  <1>8. \A p \in Procs : Parallel(foundPools[p], foundNodes[p])
    BY DEF Init, Parallel
  <1>9. \A i, j \in 1 .. Len(connectedNodes) :
          i < j => NodeHost[connectedNodes[i]] <= NodeHost[connectedNodes[j]]
    BY DEF Init
  <1> QED
    BY <1>4, <1>5, <1>6, <1>7, <1>8, <1>9 DEF AlignInv

-----------------------------------------------------------------------------
(* Alignment.  A step that leaves the tables, the lists and the nodes alone  *)
(* keeps them aligned; so does one that lets go of pools.                    *)
LEMMA AlignedWhenUnchanged ==
    ASSUME AlignInv,
           UNCHANGED <<nodeWorkerArray, connectedNodes, nodeOf, foundPools, foundNodes, existing>>,
           \A k \in Pools : status'[k] = "none" => status[k] = "none",
           \A s \in Stoppers : Range(stopList'[s]) \subseteq Range(stopList[s])
    PROVE  AlignInv'
  <1>1. \A k \in Pools : Referenced(k)' => Referenced(k)
    BY DEF Referenced
  <1>2. Parallel(nodeWorkerArray, connectedNodes)'
    BY DEF AlignInv, Parallel
  <1>3. \A p \in Procs : Parallel(foundPools[p], foundNodes[p])'
    BY DEF AlignInv, Parallel
  <1> QED
    BY <1>1, <1>2, <1>3 DEF AlignInv

(* What is referred to.                                                      *)
LEMMA WhatIsReferredTo ==
    ASSUME Typing
    PROVE  /\ \A i \in 1 .. Len(nodeWorkerArray) : Referenced(nodeWorkerArray[i])
           /\ \A p \in Procs : \A i \in 1 .. Len(foundPools[p]) : Referenced(foundPools[p][i])
           /\ \A p \in Procs : \A n \in Listed : Referenced(existing[p][n])
  <1>1. ASSUME NEW i \in 1 .. Len(nodeWorkerArray) PROVE Referenced(nodeWorkerArray[i])
    <2>1. nodeWorkerArray[i] \in Range(nodeWorkerArray)
      BY DEF Typing, TypeOK, Range
    <2> QED
      BY <2>1 DEF Referenced
  <1>2. ASSUME NEW p \in Procs, NEW i \in 1 .. Len(foundPools[p])
        PROVE  Referenced(foundPools[p][i])
    <2>1. foundPools[p][i] \in Range(foundPools[p])
      BY DEF Typing, TypeOK, Range
    <2> QED
      BY <2>1 DEF Referenced
  <1>3. ASSUME NEW p \in Procs, NEW n \in Listed PROVE Referenced(existing[p][n])
    <2>1. existing[p][n] \in Range(existing[p])
      BY DEF Typing, TypeOK, Range
    <2> QED
      BY <2>1 DEF Referenced
  <1> QED
    BY <1>1, <1>2, <1>3

(* createNodeWorker makes a pool nothing refers to the pool of the node.     *)
LEMMA CreatesAFreePool ==
    ASSUME Typing, AlignInv, NEW p \in Procs, Creates(p)
    PROVE  \E k \in Pools :
             /\ Free(k) /\ ~Referenced(k)
             /\ status' = [status EXCEPT ![k] = "up"]
             /\ nodeOf' = [nodeOf EXCEPT ![k] = Head(todo[p])]
             /\ foundPools' = [foundPools EXCEPT ![p] = Append(@, k)]
             /\ foundNodes' = [foundNodes EXCEPT ![p] = Append(@, Head(todo[p]))]
             /\ existing' = [existing EXCEPT ![p][Head(todo[p])] = k]
  <1> DEFINE k == CHOOSE k \in Pools : Free(k)
  <1>1. k \in Pools /\ Free(k)
    BY DEF Creates
  <1>2. /\ status' = [status EXCEPT ![k] = "up"]
        /\ nodeOf' = [nodeOf EXCEPT ![k] = Head(todo[p])]
        /\ foundPools' = [foundPools EXCEPT ![p] = Append(@, k)]
        /\ foundNodes' = [foundNodes EXCEPT ![p] = Append(@, Head(todo[p]))]
        /\ existing' = [existing EXCEPT ![p][Head(todo[p])] = k]
    BY DEF Creates
  <1> HIDE DEF k
  <1>3. ~Referenced(k)
    BY <1>1 DEF Free, AlignInv
  <1> QED
    BY <1>1, <1>2, <1>3

LEMMA AlignedAfterCreates ==
    ASSUME Typing, AlignInv, NEW p \in Procs, Creates(p)
    PROVE  AlignInv'
  <1>1. PICK k \in Pools :
          /\ ~Referenced(k)
          /\ status' = [status EXCEPT ![k] = "up"]
          /\ nodeOf' = [nodeOf EXCEPT ![k] = Head(todo[p])]
          /\ foundPools' = [foundPools EXCEPT ![p] = Append(@, k)]
          /\ foundNodes' = [foundNodes EXCEPT ![p] = Append(@, Head(todo[p]))]
          /\ existing' = [existing EXCEPT ![p][Head(todo[p])] = k]
    BY CreatesAFreePool
  <1> DEFINE n == Head(todo[p])
  <1>2. n \in Listed
    <2>1. pc[p] = "create"
      BY DEF Creates, Goto
    <2> QED
      BY <2>1, HeadTailProperties DEF Typing, TypeOK
  <1> HIDE DEF n
  <1>3. /\ \A l \in Pools : l # k => nodeOf'[l] = nodeOf[l]
        /\ nodeOf'[k] = n
    BY <1>1 DEF Typing, TypeOK, n
  <1>4. UNCHANGED <<nodeWorkerArray, connectedNodes, stopList>>
    BY DEF Creates, tableVars, stopVars
  <1>5. ASSUME NEW pools \in Seq(Pools), NEW nodes \in Seq(Listed), Parallel(pools, nodes),
               \A i \in 1 .. Len(pools) : Referenced(pools[i])
        PROVE  /\ Len(pools) = Len(nodes)
               /\ \A i \in 1 .. Len(pools) : nodeOf'[pools[i]] = nodes[i]
    BY <1>1, <1>3, <1>5 DEF Parallel
  <1>6. Parallel(nodeWorkerArray, connectedNodes)'
    <2>1. /\ nodeWorkerArray \in Seq(Pools) /\ connectedNodes \in Seq(Listed)
          /\ Parallel(nodeWorkerArray, connectedNodes)
          /\ \A i \in 1 .. Len(nodeWorkerArray) : Referenced(nodeWorkerArray[i])
      BY WhatIsReferredTo DEF AlignInv, Typing, TypeOK
    <2>2. /\ Len(nodeWorkerArray) = Len(connectedNodes)
          /\ \A i \in 1 .. Len(nodeWorkerArray) : nodeOf'[nodeWorkerArray[i]] = connectedNodes[i]
      BY <1>5, <2>1
    <2> QED
      BY <1>4, <2>2 DEF Parallel
  <1>7. ASSUME NEW q \in Procs PROVE Parallel(foundPools[q], foundNodes[q])'
    <2>1. /\ foundPools[q] \in Seq(Pools) /\ foundNodes[q] \in Seq(Listed)
          /\ Parallel(foundPools[q], foundNodes[q])
          /\ \A i \in 1 .. Len(foundPools[q]) : Referenced(foundPools[q][i])
      BY WhatIsReferredTo DEF AlignInv, Typing, TypeOK
    <2>2. /\ Len(foundPools[q]) = Len(foundNodes[q])
          /\ \A i \in 1 .. Len(foundPools[q]) : nodeOf'[foundPools[q][i]] = foundNodes[q][i]
      BY <1>5, <2>1
    <2>3. CASE q = p
      <3>1. foundPools'[q] = Append(foundPools[q], k) /\ foundNodes'[q] = Append(foundNodes[q], n)
        BY <1>1, <2>3 DEF Typing, TypeOK, n
      <3> QED
        BY <1>2, <1>3, <2>1, <2>2, <3>1 DEF Parallel
    <2>4. CASE q # p
      <3>1. foundPools'[q] = foundPools[q] /\ foundNodes'[q] = foundNodes[q]
        BY <1>1, <2>4 DEF Typing, TypeOK
      <3> QED
        BY <2>2, <3>1 DEF Parallel
    <2> QED
      BY <2>3, <2>4
  <1>8. ASSUME NEW q \in Procs, NEW m \in Listed, existing'[q][m] # NoPool
        PROVE  nodeOf'[existing'[q][m]] = m
    <2>1. CASE q = p /\ m = n
      BY <1>1, <1>3, <2>1 DEF Typing, TypeOK, n
    <2>2. CASE ~(q = p /\ m = n)
      <3>1. existing'[q][m] = existing[q][m]
        BY <1>1, <2>2 DEF Typing, TypeOK, n
      <3>2. existing[q][m] \in Pools \cup {NoPool} /\ existing[q][m] # NoPool
        BY <1>8, <3>1 DEF Typing, TypeOK
      <3>3. existing[q][m] # k
        BY <1>1, WhatIsReferredTo
      <3>4. nodeOf[existing[q][m]] = m
        BY <3>2 DEF AlignInv
      <3> QED
        BY <1>3, <3>1, <3>2, <3>3, <3>4
    <2> QED
      BY <2>1, <2>2
  <1>9. ASSUME NEW l \in Pools, status'[l] = "none" PROVE ~Referenced(l)'
    <2>1. status[l] = "none" /\ l # k
      BY <1>1, <1>9 DEF Typing, TypeOK
    <2>2. ~Referenced(l)
      BY <2>1 DEF AlignInv
    <2>3. ASSUME NEW q \in Procs PROVE l \notin Range(foundPools'[q])
      <3>1. l \notin Range(foundPools[q]) /\ foundPools[q] \in Seq(Pools)
        BY <2>2 DEF Referenced, Typing, TypeOK
      <3>2. foundPools'[q] = foundPools[q] \/ foundPools'[q] = Append(foundPools[q], k)
        BY <1>1 DEF Typing, TypeOK
      <3> QED
        BY <2>1, <3>1, <3>2 DEF Range
    <2>4. ASSUME NEW q \in Procs PROVE l \notin Range(existing'[q])
      <3>1. \A m \in Listed : existing[q][m] # l
        BY <2>2, WhatIsReferredTo
      <3>2. \A m \in Listed : existing'[q][m] # l
        BY <1>1, <2>1, <3>1 DEF Typing, TypeOK
      <3>3. DOMAIN existing'[q] = Listed
        BY <1>1 DEF Typing, TypeOK
      <3> QED
        BY <3>2, <3>3 DEF Range
    <2> QED
      BY <1>4, <2>2, <2>3, <2>4 DEF Referenced
  <1> QED
    BY <1>4, <1>6, <1>7, <1>8, <1>9 DEF AlignInv

LEMMA AlignedAfterSnapshot ==
    ASSUME Typing, AlignInv, NEW p \in Procs, Snapshot(p)
    PROVE  AlignInv'
  <1>1. /\ existing' = [existing EXCEPT ![p] = PoolByNode]
        /\ UNCHANGED <<nodeWorkerArray, connectedNodes, nodeOf, status, foundPools, foundNodes,
                       stopList>>
    BY DEF Snapshot, tableVars, poolVars, stopVars
  <1>2. DOMAIN PoolByNode = Listed
    BY DEF PoolByNode
  <1>3. ASSUME NEW q \in Procs PROVE existing'[q] = IF q = p THEN PoolByNode ELSE existing[q]
    BY <1>1 DEF Typing, TypeOK
  <1>4. ASSUME NEW q \in Procs, NEW n \in Listed, existing'[q][n] # NoPool
        PROVE  nodeOf'[existing'[q][n]] = n
    BY <1>1, <1>3, <1>4, PoolsByNode DEF AlignInv
  <1>5. ASSUME NEW k \in Pools, status'[k] = "none" PROVE ~Referenced(k)'
    <2>1. ~Referenced(k)
      BY <1>1, <1>5 DEF AlignInv
    <2>2. \A n \in Listed : PoolByNode[n] # k
      <3>1. k \notin Range(nodeWorkerArray)
        BY <2>1 DEF Referenced
      <3> QED
        BY <3>1, PoolsByNode, PoolsAssumption
    <2>3. k \notin Range(PoolByNode)
      BY <1>2, <2>2 DEF Range
    <2>4. \A q \in Procs : k \notin Range(existing'[q])
      BY <1>3, <2>1, <2>3 DEF Referenced
    <2> QED
      BY <1>1, <2>1, <2>4 DEF Referenced
  <1>6. Parallel(nodeWorkerArray, connectedNodes)'
    BY <1>1 DEF AlignInv, Parallel
  <1>7. \A q \in Procs : Parallel(foundPools[q], foundNodes[q])'
    BY <1>1 DEF AlignInv, Parallel
  <1> QED
    BY <1>1, <1>4, <1>5, <1>6, <1>7 DEF AlignInv

LEMMA AlignedAfterVisitKeeps ==
    ASSUME Typing, AlignInv, NEW p \in Procs, VisitKeeps(p)
    PROVE  AlignInv'
  <1> DEFINE n == Head(todo[p])
             k == existing[p][n]
  <1>1. n \in Listed
    BY HeadTailProperties DEF VisitKeeps, Typing, TypeOK
  <1>2. k \in Pools /\ nodeOf[k] = n /\ Referenced(k)
    BY <1>1, WhatIsReferredTo DEF VisitKeeps, Typing, TypeOK, AlignInv
  <1>3. /\ foundPools' = [foundPools EXCEPT ![p] = Append(@, k)]
        /\ foundNodes' = [foundNodes EXCEPT ![p] = Append(@, n)]
        /\ UNCHANGED <<nodeWorkerArray, connectedNodes, nodeOf, status, existing, stopList>>
    BY DEF VisitKeeps, tableVars, poolVars, stopVars
  <1> HIDE DEF n, k
  <1>4. ASSUME NEW q \in Procs
        PROVE  /\ Parallel(foundPools[q], foundNodes[q])'
               /\ Range(foundPools'[q]) \subseteq Range(foundPools[q]) \cup {k}
    <2>1. /\ foundPools[q] \in Seq(Pools) /\ foundNodes[q] \in Seq(Listed)
          /\ Len(foundPools[q]) = Len(foundNodes[q])
          /\ \A i \in 1 .. Len(foundPools[q]) : nodeOf[foundPools[q][i]] = foundNodes[q][i]
      BY DEF AlignInv, Typing, TypeOK, Parallel
    <2>2. CASE q = p
      <3>1. foundPools'[q] = Append(foundPools[q], k) /\ foundNodes'[q] = Append(foundNodes[q], n)
        BY <1>3, <2>2 DEF Typing, TypeOK
      <3> QED
        BY <1>1, <1>2, <1>3, <2>1, <3>1 DEF Parallel, Range
    <2>3. CASE q # p
      <3>1. foundPools'[q] = foundPools[q] /\ foundNodes'[q] = foundNodes[q]
        BY <1>3, <2>3 DEF Typing, TypeOK
      <3> QED
        BY <1>3, <2>1, <3>1 DEF Parallel
    <2> QED
      BY <2>2, <2>3
  <1>5. \A l \in Pools : Referenced(l)' => Referenced(l)
    BY <1>2, <1>3, <1>4 DEF Referenced
  <1>6. Parallel(nodeWorkerArray, connectedNodes)'
    BY <1>3 DEF AlignInv, Parallel
  <1> QED
    BY <1>3, <1>4, <1>5, <1>6 DEF AlignInv

LEMMA AlignedAfterPublish ==
    ASSUME Typing, AlignInv, NEW p \in Procs, Publish(p)
    PROVE  AlignInv'
  <1>1. /\ nodeWorkerArray' = SortByHost(foundPools[p], PoolHost)
        /\ connectedNodes' = SortByHost(foundNodes[p], NodeHost)
        /\ existing' = [existing EXCEPT ![p] = NoMap]
        /\ foundPools' = [foundPools EXCEPT ![p] = <<>>]
        /\ foundNodes' = [foundNodes EXCEPT ![p] = <<>>]
        /\ UNCHANGED <<nodeOf, status, stopList>>
    BY DEF Publish, ForgetLocals, poolVars, stopVars
  <1>2. /\ Parallel(nodeWorkerArray', connectedNodes')
        /\ \A i, j \in 1 .. Len(connectedNodes') :
             i < j => NodeHost[connectedNodes'[i]] <= NodeHost[connectedNodes'[j]]
        /\ Range(nodeWorkerArray') = Range(foundPools[p])
    BY <1>1, SortedTables
  <1>3. Parallel(nodeWorkerArray, connectedNodes)'
    BY <1>1, <1>2 DEF Parallel
  <1>4. Parallel(<<>>, <<>>)
    BY DEF Parallel
  <1>5. ASSUME NEW q \in Procs PROVE Parallel(foundPools[q], foundNodes[q])'
    <2>1. \/ foundPools'[q] = <<>> /\ foundNodes'[q] = <<>>
          \/ foundPools'[q] = foundPools[q] /\ foundNodes'[q] = foundNodes[q]
      BY <1>1 DEF Typing, TypeOK
    <2> QED
      BY <1>1, <1>4, <2>1 DEF AlignInv, Parallel
  <1>6. ASSUME NEW q \in Procs
        PROVE  existing'[q] = NoMap \/ existing'[q] = existing[q]
    BY <1>1 DEF Typing, TypeOK
  <1>7. \A n \in Listed : NoMap[n] = NoPool
    BY DEF NoMap
  <1>8. ASSUME NEW q \in Procs, NEW n \in Listed, existing'[q][n] # NoPool
        PROVE  nodeOf'[existing'[q][n]] = n
    BY <1>1, <1>6, <1>7, <1>8 DEF AlignInv
  <1>9. ASSUME NEW k \in Pools, Referenced(k)' PROVE Referenced(k)
    <2>1. Range(NoMap) \subseteq {NoPool} /\ Range(<<>>) = {}
      BY DEF NoMap, Range
    <2>2. \A q \in Procs :
            /\ Range(foundPools'[q]) \subseteq Range(foundPools[q])
            /\ k \in Range(existing'[q]) => k \in Range(existing[q])
      <3>1. ASSUME NEW q \in Procs
            PROVE  Range(foundPools'[q]) \subseteq Range(foundPools[q])
        <4>1. foundPools'[q] = <<>> \/ foundPools'[q] = foundPools[q]
          BY <1>1 DEF Typing, TypeOK
        <4> QED
          BY <2>1, <4>1
      <3> QED
        BY <1>6, <2>1, <3>1, PoolsAssumption
    <2> QED
      BY <1>1, <1>2, <1>9, <2>2 DEF Referenced
  <1> QED
    BY <1>1, <1>2, <1>3, <1>5, <1>8, <1>9 DEF AlignInv

LEMMA AlignStep == Typing /\ AlignInv /\ [Next]_vars => AlignInv'
  <1> SUFFICES ASSUME Typing, AlignInv, [Next]_vars PROVE AlignInv'
    OBVIOUS
  <1> DEFINE Same == UNCHANGED <<nodeWorkerArray, connectedNodes, nodeOf, foundPools, foundNodes,
                                 existing>>
  <1>1. ASSUME Same, UNCHANGED <<status, stopList>> PROVE AlignInv'
    BY <1>1, AlignedWhenUnchanged
  <1>2. ASSUME NEW p \in Procs, CallerCalls(p) \/ LoadLock(p) \/ StoreLock(p) \/ ListNodes(p)
                                 \/ CreateFails(p) \/ CheckEmpty(p) \/ MarkAvailable(p)
                                 \/ MarkNotAvailable(p) \/ StartRetry(p) \/ Unlock(p)
        PROVE  AlignInv'
    BY <1>1, <1>2 DEF CallerCalls, LoadLock, StoreLock, ListNodes, CreateFails, CheckEmpty,
      MarkAvailable, MarkNotAvailable, StartRetry, Unlock, tableVars, poolVars, localVars, stopVars
  <1>3. CASE RequestReceived
    BY <1>1, <1>3 DEF RequestReceived, tableVars, poolVars, localVars, stopVars
  <1>4. ASSUME NEW p \in Procs, VisitReplaces(p) PROVE AlignInv'
    <2>1. Same /\ UNCHANGED stopList
      BY <1>4 DEF VisitReplaces, tableVars, localVars, stopVars
    <2>2. \A k \in Pools : status'[k] = "none" => status[k] = "none"
      BY <1>4 DEF VisitReplaces, Terminate, Typing, TypeOK
    <2> QED
      BY <2>1, <2>2, AlignedWhenUnchanged
  <1>5. ASSUME NEW k \in Pools, PoolStep(k) PROVE AlignInv'
    <2>1. Same /\ UNCHANGED stopList
      BY <1>5 DEF PoolStep, PoolGoesDown, PoolGivesUp, PoolAsks, PoolSignals, PoolPanics,
        tableVars, poolVars, localVars, stopVars
    <2>2. status' = status \/ status' = [status EXCEPT ![k] = "down"]
      BY <1>5 DEF PoolStep, PoolGoesDown, PoolGivesUp, PoolAsks, PoolSignals, PoolPanics, poolVars
    <2>3. \A l \in Pools : status'[l] = "none" => status[l] = "none"
      BY <2>2 DEF Typing, TypeOK
    <2> QED
      BY <2>1, <2>3, AlignedWhenUnchanged
  <1>6. ASSUME NEW s \in Stoppers, StopLoads(s) \/ StopStores(s) \/ StopCloses(s) PROVE AlignInv'
    BY <1>1, <1>6 DEF StopLoads, StopStores, StopCloses, tableVars, poolVars, localVars
  <1>7. ASSUME NEW s \in Stoppers, StopCopies(s) PROVE AlignInv'
    <2>1. Same /\ UNCHANGED status /\ stopList' = [stopList EXCEPT ![s] = nodeWorkerArray]
      BY <1>7 DEF StopCopies, tableVars, poolVars, localVars
    <2>2. ASSUME NEW k \in Pools, Referenced(k)' PROVE Referenced(k)
      <3>1. \A t \in Stoppers : stopList'[t] = stopList[t] \/ stopList'[t] = nodeWorkerArray
        BY <2>1 DEF Typing, TypeOK
      <3> QED
        BY <2>1, <2>2, <3>1 DEF Referenced
    <2>3. Parallel(nodeWorkerArray, connectedNodes)'
      BY <2>1 DEF AlignInv, Parallel
    <2>4. \A p \in Procs : Parallel(foundPools[p], foundNodes[p])'
      BY <2>1 DEF AlignInv, Parallel
    <2> QED
      BY <2>1, <2>2, <2>3, <2>4 DEF AlignInv
  <1>8. ASSUME NEW s \in Stoppers, StopTerminates(s) PROVE AlignInv'
    <2>1. Same /\ stopList' = [stopList EXCEPT ![s] = Tail(@)] /\ stopList[s] # <<>>
      BY <1>8 DEF StopTerminates, tableVars, localVars
    <2>2. \A k \in Pools : status'[k] = "none" => status[k] = "none"
      BY <1>8 DEF StopTerminates, Terminate, Typing, TypeOK
    <2>3. ASSUME NEW t \in Stoppers PROVE Range(stopList'[t]) \subseteq Range(stopList[t])
      <3>1. stopList[t] \in Seq(Pools)
        BY DEF Typing, TypeOK
      <3>2. CASE t = s
        <4>1. stopList[t] # <<>> /\ stopList'[t] = Tail(stopList[t])
          BY <2>1, <3>2 DEF Typing, TypeOK
        <4>2. /\ Len(Tail(stopList[t])) = Len(stopList[t]) - 1 /\ Tail(stopList[t]) \in Seq(Pools)
              /\ \A i \in 1 .. Len(stopList[t]) - 1 :
                   Tail(stopList[t])[i] = stopList[t][i + 1] /\ i + 1 \in 1 .. Len(stopList[t])
          BY <3>1, <4>1
        <4> QED
          BY <3>1, <4>1, <4>2 DEF Range
      <3>3. CASE t # s
        <4>1. stopList'[t] = stopList[t]
          BY <2>1, <3>3 DEF Typing, TypeOK
        <4> QED
          BY <4>1
      <3> QED
        BY <3>2, <3>3
    <2> QED
      BY <2>1, <2>2, <2>3, AlignedWhenUnchanged
  <1>9. CASE UNCHANGED vars
    BY <1>1, <1>9 DEF vars, tableVars, poolVars, localVars, stopVars
  <1> HIDE DEF Same
  <1> QED
    BY <1>2, <1>3, <1>4, <1>5, <1>6, <1>7, <1>8, <1>9, AlignedAfterCreates, AlignedAfterSnapshot,
      AlignedAfterVisitKeeps, AlignedAfterPublish
    DEF Next, RebalanceStep, StopStep

-----------------------------------------------------------------------------
LEMMA Foundation == Spec => [](Typing /\ AlignInv)
  <1>1. Init => Typing /\ AlignInv
    BY TypingInit
  <1>2. Typing /\ AlignInv /\ [Next]_vars => (Typing /\ AlignInv)'
    BY TypingStep, AlignStep
  <1> QED
    BY <1>1, <1>2, PTL DEF Spec

(* The state of the client core keeps its types. *)
THEOREM RebalanceTypeCorrect == Spec => []TypeOK
  <1>1. Typing => TypeOK
    BY DEF Typing
  <1> QED
    BY <1>1, Foundation, PTL

(* For any nodes and goroutines, and however calls of Rebalance and of       *)
(* Shutdown overlap, the two arrays rebalance publishes have the same        *)
(* length, the pool at an index is that of the node at the same index, and   *)
(* both are in host order (zencached.go, rebalance).                         *)
THEOREM TablesStayAligned == Spec => []TablesAligned
  <1>1. Typing /\ AlignInv => TablesAligned
    BY DEF Typing, TypeOK, AlignInv, TablesAligned, Parallel
  <1> QED
    BY <1>1, Foundation, PTL

-----------------------------------------------------------------------------
(* The flag.  It can be compared with the table when one rebalance runs at a *)
(* time: nobody calls Rebalance but rebalanceWorker, and either no goroutine *)
(* is started to retry, or rebalanceWorker is asked for nothing.             *)
OneAtATime == Callers = {} /\ (Retries = {} \/ ~RebalanceOnDisconnection)

Agrees == notAvailable <=> nodeWorkerArray = <<>>
Busy(p) == pc[p] \notin {"idle", "unlock"}

FlagAt(p) ==
    /\ pc[p] = "load" => ~rebalanceLock \/ Agrees
    /\ pc[p] = "found" => nodeWorkerArray # <<>>
    /\ pc[p] = "empty" => nodeWorkerArray = <<>>
    /\ pc[p] = "wait" => Agrees

FlagInv ==
    /\ ~RebalanceOnDisconnection => rebal = 0 /\ \A k \in Pools : ~asking[k]
    /\ \A p, q \in Procs : Busy(p) /\ Busy(q) => p = q
    /\ (\A p \in Procs : ~Busy(p)) => Agrees
    /\ \A p \in Procs : FlagAt(p)

(* A step of the one process that is busy.                                   *)
LEMMA FlagAfterStep ==
    ASSUME Typing, FlagInv, NEW p \in Procs, Busy(p), NEW to \in Stages,
           pc' = [pc EXCEPT ![p] = to], UNCHANGED <<rebal, asking>>,
           FlagAt(p)', to = "unlock" \/ to = "idle" => Agrees'
    PROVE  FlagInv'
  <1>1. /\ \A q \in Procs \ {p} : pc'[q] = pc[q] /\ pc[q] \in {"idle", "unlock"}
        /\ pc'[p] = to
    BY DEF Typing, TypeOK, FlagInv, Busy
  <1>2. \A q \in Procs \ {p} : ~Busy(q)' /\ FlagAt(q)'
    BY <1>1 DEF Busy, FlagAt
  <1>3. (\A q \in Procs : ~Busy(q)') => Agrees'
    BY <1>1 DEF Busy
  <1> QED
    BY <1>2, <1>3 DEF FlagInv

LEMMA FlagStep ==
    ASSUME OneAtATime
    PROVE  Typing /\ AlignInv /\ FlagInv /\ [Next]_vars => FlagInv'
  <1> SUFFICES ASSUME Typing, AlignInv, FlagInv, [Next]_vars PROVE FlagInv'
    OBVIOUS
  <1>1. ASSUME NEW p \in Procs PROVE ~CallerCalls(p)
    BY DEF OneAtATime, CallerCalls
  <1>2. CASE RequestReceived
    <2>1. RebalanceOnDisconnection
      BY <1>2 DEF RequestReceived, FlagInv
    <2>2. Procs = {Worker}
      BY <2>1 DEF OneAtATime, Procs
    <2>3. pc[Worker] = "idle" /\ pc'[Worker] = "load"
      BY <1>2, <2>2 DEF RequestReceived, Goto, Typing, TypeOK
    <2>4. Agrees /\ UNCHANGED <<notAvailable, nodeWorkerArray>>
      BY <1>2, <2>2, <2>3 DEF RequestReceived, FlagInv, Busy, tableVars
    <2> QED
      BY <2>1, <2>2, <2>3, <2>4 DEF FlagInv, FlagAt, Agrees, Busy
  <1>3. ASSUME NEW p \in Procs, LoadLock(p) PROVE FlagInv'
    <2> DEFINE to == IF rebalanceLock THEN "idle" ELSE "store"
    <2>1. Busy(p) /\ pc' = [pc EXCEPT ![p] = to] /\ to \in Stages /\ pc'[p] = to
      BY <1>3 DEF LoadLock, Goto, Busy, Stages, Typing, TypeOK
    <2>2. to = "idle" => Agrees
      BY <1>3 DEF LoadLock, Goto, FlagInv, FlagAt
    <2>3. UNCHANGED <<notAvailable, nodeWorkerArray, rebal, asking>>
      BY <1>3 DEF LoadLock, tableVars, poolVars, chanVars
    <2>4. FlagAt(p)' /\ to # "unlock" /\ (to = "idle" => Agrees')
      BY <2>1, <2>2, <2>3 DEF FlagAt, Agrees
    <2> HIDE DEF to
    <2> QED
      BY <2>1, <2>3, <2>4, FlagAfterStep
  <1>4. ASSUME NEW p \in Procs, NEW to \in {"list", "snapshot", "visit", "create", "check"},
               Busy(p), pc' = [pc EXCEPT ![p] = to], UNCHANGED <<rebal, asking>>
        PROVE  FlagInv'
    <2>1. pc'[p] = to /\ to \in Stages /\ to \notin {"unlock", "idle"}
      BY <1>4 DEF Typing, TypeOK, Stages
    <2>2. FlagAt(p)'
      BY <2>1 DEF FlagAt
    <2> QED
      BY <1>4, <2>1, <2>2, FlagAfterStep
  <1>5. ASSUME NEW p \in Procs, StoreLock(p) \/ ListNodes(p) \/ Snapshot(p) \/ VisitReplaces(p)
                                 \/ Creates(p) \/ CreateFails(p) \/ Publish(p)
        PROVE  FlagInv'
    <2>1. Busy(p) /\ UNCHANGED <<rebal, asking>>
      BY <1>5 DEF StoreLock, ListNodes, Snapshot, VisitReplaces, Creates, CreateFails, Publish,
        Goto, Busy, poolVars, chanVars
    <2>2. \E to \in {"list", "snapshot", "visit", "create", "check"} : pc' = [pc EXCEPT ![p] = to]
      BY <1>5 DEF StoreLock, ListNodes, Snapshot, VisitReplaces, Creates, CreateFails, Publish, Goto
    <2> QED
      BY <1>4, <2>1, <2>2
  <1>6. ASSUME NEW p \in Procs, VisitKeeps(p) PROVE FlagInv'
    <2>1. /\ Busy(p) /\ pc[p] = "visit"
          /\ pc' = [pc EXCEPT ![p] = "visit"]
      BY <1>6 DEF VisitKeeps, Busy, Typing, TypeOK
    <2>2. UNCHANGED <<rebal, asking>>
      BY <1>6 DEF VisitKeeps, poolVars, chanVars
    <2> QED
      BY <1>4, <2>1, <2>2
  <1>7. ASSUME NEW p \in Procs, CheckEmpty(p) PROVE FlagInv'
    <2> DEFINE to == IF connectedNodes = <<>> THEN "empty" ELSE "found"
    <2>1. Busy(p) /\ pc' = [pc EXCEPT ![p] = to] /\ to \in Stages /\ pc'[p] = to
      BY <1>7 DEF CheckEmpty, Goto, Busy, Stages, Typing, TypeOK
    <2>2. connectedNodes = <<>> <=> nodeWorkerArray = <<>>
      BY DEF Typing, TypeOK, AlignInv, Parallel
    <2>3. UNCHANGED <<nodeWorkerArray, rebal, asking>>
      BY <1>7 DEF CheckEmpty, tableVars, poolVars, chanVars
    <2>4. FlagAt(p)' /\ to # "unlock" /\ to # "idle"
      BY <2>1, <2>2, <2>3 DEF FlagAt
    <2> HIDE DEF to
    <2> QED
      BY <2>1, <2>3, <2>4, FlagAfterStep
  <1>8. ASSUME NEW p \in Procs, MarkAvailable(p) PROVE FlagInv'
    <2>1. /\ Busy(p) /\ pc' = [pc EXCEPT ![p] = "unlock"] /\ pc'[p] = "unlock"
          /\ nodeWorkerArray # <<>>
      BY <1>8 DEF MarkAvailable, Goto, Busy, Typing, TypeOK, FlagInv, FlagAt
    <2>2. ~notAvailable' /\ UNCHANGED <<nodeWorkerArray, rebal, asking>>
      BY <1>8 DEF MarkAvailable, tableVars, poolVars, chanVars
    <2>3. FlagAt(p)' /\ Agrees' /\ "unlock" \in Stages
      BY <2>1, <2>2 DEF FlagAt, Agrees, Stages
    <2> QED
      BY <2>1, <2>2, <2>3, FlagAfterStep
  <1>9. ASSUME NEW p \in Procs, MarkNotAvailable(p) PROVE FlagInv'
    <2>1. /\ Busy(p) /\ pc' = [pc EXCEPT ![p] = "wait"] /\ pc'[p] = "wait"
          /\ nodeWorkerArray = <<>>
      BY <1>9 DEF MarkNotAvailable, Goto, Busy, Typing, TypeOK, FlagInv, FlagAt
    <2>2. notAvailable' /\ UNCHANGED <<nodeWorkerArray, rebal, asking>>
      BY <1>9 DEF MarkNotAvailable, tableVars, poolVars, chanVars
    <2>3. FlagAt(p)' /\ "wait" \in Stages
      BY <2>1, <2>2 DEF FlagAt, Agrees, Stages
    <2> QED
      BY <2>1, <2>2, <2>3, FlagAfterStep
  <1>10. ASSUME NEW p \in Procs, StartRetry(p) PROVE FlagInv'
    <2>1. PICK r \in Retries :
            pc[r] = "idle" /\ pc' = [pc EXCEPT ![p] = "unlock", ![r] = "load"]
      BY <1>10 DEF StartRetry
    <2>2. pc[p] = "wait" /\ UNCHANGED <<notAvailable, nodeWorkerArray, rebal, asking>>
      BY <1>10 DEF StartRetry, tableVars, poolVars, chanVars
    <2>3. /\ r \in Procs /\ r # p /\ pc'[r] = "load" /\ pc'[p] = "unlock"
          /\ \A q \in Procs \ {p, r} : pc'[q] = pc[q]
      BY <2>1, <2>2 DEF Procs, Typing, TypeOK
    <2>4. \A q \in Procs \ {p} : ~Busy(q)
      BY <2>2 DEF FlagInv, Busy
    <2>5. \A q \in Procs \ {r} : ~Busy(q)' /\ pc'[q] \in {"idle", "unlock"}
      BY <2>3, <2>4 DEF Busy
    <2>6. Agrees'
      BY <2>2 DEF FlagInv, FlagAt, Agrees
    <2>7. \A q \in Procs : FlagAt(q)'
      BY <2>3, <2>5, <2>6 DEF FlagAt
    <2> QED
      BY <2>2, <2>5, <2>6, <2>7 DEF FlagInv
  <1>11. ASSUME NEW p \in Procs, Unlock(p) PROVE FlagInv'
    <2>1. /\ pc[p] = "unlock" /\ pc'[p] = "idle" /\ \A q \in Procs \ {p} : pc'[q] = pc[q]
          /\ ~rebalanceLock'
      BY <1>11 DEF Unlock, Goto, Typing, TypeOK
    <2>2. UNCHANGED <<notAvailable, nodeWorkerArray, rebal, asking>>
      BY <1>11 DEF Unlock, tableVars, poolVars, chanVars
    <2>3. \A q \in Procs : Busy(q)' <=> Busy(q)
      BY <2>1 DEF Busy
    <2>4. \A q \in Procs : FlagAt(q)'
      BY <2>1, <2>2 DEF FlagInv, FlagAt, Agrees
    <2> QED
      BY <2>2, <2>3, <2>4 DEF FlagInv, Agrees
  <1>12. ASSUME UNCHANGED <<rebalanceLock, notAvailable, nodeWorkerArray, pc>>,
                ~RebalanceOnDisconnection => rebal' = 0 /\ \A k \in Pools : ~asking'[k]
         PROVE  FlagInv'
    <2>1. \A q \in Procs : (Busy(q)' <=> Busy(q)) /\ FlagAt(q)'
      BY <1>12 DEF FlagInv, FlagAt, Agrees, Busy
    <2> QED
      BY <1>12, <2>1 DEF FlagInv, Agrees
  <1>13. ASSUME NEW k \in Pools, PoolStep(k) PROVE FlagInv'
    <2>1. UNCHANGED <<rebalanceLock, notAvailable, nodeWorkerArray, pc>>
      BY <1>13 DEF PoolStep, PoolGoesDown, PoolGivesUp, PoolAsks, PoolSignals, PoolPanics, tableVars
    <2>2. ASSUME ~RebalanceOnDisconnection
          PROVE  rebal' = 0 /\ \A l \in Pools : ~asking'[l]
      <3>1. rebal = 0 /\ \A l \in Pools : ~asking[l]
        BY <2>2 DEF FlagInv
      <3>2. rebal' = rebal /\ (asking' = asking \/ asking' = [asking EXCEPT ![k] = FALSE])
        BY <1>13, <2>2, <3>1, SwitchAssumption
        DEF PoolStep, PoolGoesDown, PoolGivesUp, PoolAsks, PoolSignals, PoolPanics, poolVars, chanVars
      <3> QED
        BY <3>1, <3>2 DEF Typing, TypeOK
    <2> QED
      BY <1>12, <2>1, <2>2
  <1>14. ASSUME NEW s \in Stoppers, StopStep(s) PROVE FlagInv'
    <2>1. UNCHANGED <<rebalanceLock, notAvailable, nodeWorkerArray, pc, rebal, asking>>
      BY <1>14 DEF StopStep, StopLoads, StopStores, StopCopies, StopTerminates, StopCloses,
        tableVars, poolVars, chanVars
    <2> QED
      BY <1>12, <2>1 DEF FlagInv
  <1>15. CASE UNCHANGED vars
    BY <1>12, <1>15 DEF FlagInv, vars, tableVars, poolVars, chanVars
  <1> QED
    BY <1>1, <1>2, <1>3, <1>5, <1>6, <1>7, <1>8, <1>9, <1>10, <1>11, <1>13, <1>14, <1>15
    DEF Next, RebalanceStep

LEMMA FlagInit == Init => FlagInv
  <1> SUFFICES ASSUME Init PROVE FlagInv
    OBVIOUS
  <1>1. \A p \in Procs : pc[p] = IF p = Worker THEN "load" ELSE "idle"
    BY DEF Init
  <1>2. Worker \in Procs /\ Busy(Worker)
    BY <1>1 DEF Procs, Busy
  <1> QED
    BY <1>1, <1>2 DEF Init, FlagInv, FlagAt, Busy

LEMMA OneIsBusy ==
    ASSUME OneAtATime
    PROVE  Spec => [](Typing /\ AlignInv /\ FlagInv)
  <1>1. Init => FlagInv
    BY FlagInit
  <1>2. Typing /\ AlignInv /\ FlagInv /\ [Next]_vars => FlagInv'
    BY FlagStep
  <1> QED
    BY <1>1, <1>2, Foundation, PTL DEF Spec

(* When one rebalance runs at a time, and nobody is in one, the flag that    *)
(* makes every command answer ErrNoAvailableNodes is set exactly if the      *)
(* table is empty: for any nodes, whatever connections fail and while        *)
(* Shutdown runs (zencached.go, rebalance).                                  *)
THEOREM FlagAgrees ==
    ASSUME OneAtATime
    PROVE  Spec => []FlagAgreesAtRest
  <1>1. FlagInv => FlagAgreesAtRest
    BY DEF FlagInv, Busy, Agrees, FlagAgreesAtRest
  <1> QED
    BY <1>1, OneIsBusy, PTL

-----------------------------------------------------------------------------
(* The pools.  A client whose node lists name no node twice, of which one    *)
(* rebalance runs at a time, before Shutdown.                                *)
Steady ==
    /\ OneAtATime
    /\ Stoppers = {}
    /\ \A list \in Discoverable \cup {Nodes} : IsInjective(list)

(* Nothing but the configuration says what the nodes are.  The pool of a     *)
(* node that is discovered no more is neither kept nor terminated.           *)
FixedNodes == Discoverable = {}

LivePools == {k \in Pools : Alive(k)}
Accounts(pools) == pools \subseteq LivePools /\ (FixedNodes => pools = LivePools)
Visits(p) == pc[p] \in {"visit", "create"}

(* The nodes a rebalance has still to take a pool for, and the pools the     *)
(* table gave it for them.                                                   *)
Pending(p) == IF pc[p] = "create" THEN Range(Tail(todo[p])) ELSE Range(todo[p])
Kept(p) == {existing[p][n] : n \in Pending(p)} \ {NoPool}

Visiting(p) ==
    /\ IsInjective(foundNodes[p]) /\ IsInjective(todo[p])
    /\ Range(foundNodes[p]) \cap Range(todo[p]) = {}
    /\ Accounts(Range(foundPools[p]) \cup Kept(p))

ExactAt(p) ==
    /\ Visits(p) => Visiting(p)
    /\ ~Visits(p) => foundPools[p] = <<>> /\ foundNodes[p] = <<>>
    /\ pc[p] = "snapshot" => IsInjective(todo[p]) /\ (FixedNodes => todo[p] = Nodes)

ExactInv ==
    /\ IsInjective(connectedNodes)
    /\ ~rebalClosed /\ ~panicked
    /\ \A p \in Procs : ExactAt(p)
    /\ (\A p \in Procs : ~Visits(p)) => Accounts(Range(nodeWorkerArray))

(* The first element and the rest of a sequence.                             *)
LEMMA HeadAndTail ==
    ASSUME NEW S, NEW s \in Seq(S), s # <<>>
    PROVE  /\ Head(s) \in S /\ Tail(s) \in Seq(S)
           /\ Range(s) = {Head(s)} \cup Range(Tail(s))
           /\ IsInjective(s) => IsInjective(Tail(s)) /\ Head(s) \notin Range(Tail(s))
  <1>1. /\ Tail(s) \in Seq(S) /\ Head(s) = s[1] /\ Head(s) \in S
        /\ Len(s) \in Nat /\ Len(s) >= 1 /\ Len(Tail(s)) = Len(s) - 1
        /\ \A i \in 1 .. Len(s) - 1 : Tail(s)[i] = s[i + 1]
    OBVIOUS
  <1>2. DOMAIN s = 1 .. Len(s) /\ DOMAIN Tail(s) = 1 .. Len(s) - 1
    BY <1>1
  <1>3. ASSUME NEW i \in 1 .. Len(s), i # 1
        PROVE  i - 1 \in 1 .. Len(s) - 1 /\ s[i] = Tail(s)[i - 1]
    <2>1. i - 1 \in 1 .. Len(s) - 1 /\ (i - 1) + 1 = i
      BY <1>1, <1>3
    <2> QED
      BY <1>1, <2>1
  <1>4. \A i \in 1 .. Len(s) - 1 : i + 1 \in 1 .. Len(s) /\ i + 1 # 1 /\ s[i + 1] = Tail(s)[i]
    BY <1>1
  <1>5. Range(s) = {Head(s)} \cup Range(Tail(s))
    <2>1. ASSUME NEW i \in 1 .. Len(s) PROVE s[i] \in {Head(s)} \cup Range(Tail(s))
      <3>1. CASE i = 1
        BY <1>1, <3>1
      <3>2. CASE i # 1
        BY <1>2, <1>3, <3>2 DEF Range
      <3> QED
        BY <3>1, <3>2
    <2>2. {Head(s)} \cup Range(Tail(s)) \subseteq Range(s)
      BY <1>1, <1>2, <1>4 DEF Range
    <2>3. Range(s) \subseteq {Head(s)} \cup Range(Tail(s))
      BY <1>2, <2>1 DEF Range
    <2> QED
      BY <2>2, <2>3
  <1>6. ASSUME IsInjective(s) PROVE IsInjective(Tail(s)) /\ Head(s) \notin Range(Tail(s))
    <2>1. \A i, j \in 1 .. Len(s) : s[i] = s[j] => i = j
      BY <1>2, <1>6 DEF IsInjective
    <2>2. \A i, j \in 1 .. Len(s) - 1 : Tail(s)[i] = Tail(s)[j] => i = j
      BY <1>1, <1>4, <2>1
    <2>3. \A i \in 1 .. Len(s) - 1 : Tail(s)[i] # Head(s)
      BY <1>1, <1>4, <2>1
    <2> QED
      BY <1>2, <2>2, <2>3 DEF IsInjective, Range
  <1> QED
    BY <1>1, <1>5, <1>6

(* One element more.                                                         *)
LEMMA OneMore ==
    ASSUME NEW S, NEW s \in Seq(S), NEW x \in S
    PROVE  /\ Range(Append(s, x)) = Range(s) \cup {x}
           /\ IsInjective(s) /\ x \notin Range(s) => IsInjective(Append(s, x))
  <1>1. /\ DOMAIN s = 1 .. Len(s) /\ DOMAIN Append(s, x) = 1 .. Len(s) + 1 /\ Len(s) \in Nat
        /\ \A i \in 1 .. Len(s) : i \in 1 .. Len(s) + 1 /\ Append(s, x)[i] = s[i]
        /\ Append(s, x)[Len(s) + 1] = x
        /\ \A i \in 1 .. Len(s) + 1 : i = Len(s) + 1 \/ i \in 1 .. Len(s)
    OBVIOUS
  <1>2. Range(Append(s, x)) = Range(s) \cup {x}
    BY <1>1 DEF Range
  <1>3. ASSUME IsInjective(s), x \notin Range(s) PROVE IsInjective(Append(s, x))
    <2>1. \A i \in 1 .. Len(s) : s[i] # x
      BY <1>1, <1>3 DEF Range
    <2> QED
      BY <1>1, <1>3, <2>1 DEF IsInjective
  <1> QED
    BY <1>2, <1>3

(* A step that does not touch what a rebalance collects.                     *)
LEMMA ExactWhenUnchanged ==
    ASSUME ExactInv,
           UNCHANGED <<nodeWorkerArray, connectedNodes, existing, todo, foundPools, foundNodes,
                       rebalClosed, panicked>>,
           LivePools' = LivePools,
           \A q \in Procs : /\ Visits(q)' <=> Visits(q)
                            /\ pc'[q] = "create" <=> pc[q] = "create"
                            /\ pc'[q] = "snapshot" => pc[q] = "snapshot"
    PROVE  ExactInv'
  <1>1. ASSUME NEW q \in Procs PROVE ExactAt(q)'
    <2>1. Pending(q)' = Pending(q)
      BY DEF Pending
    <2>2. Kept(q)' = Kept(q)
      BY <2>1 DEF Kept
    <2>3. Visiting(q)' <=> Visiting(q)
      BY <2>2 DEF Visiting, Accounts
    <2> QED
      BY <2>3 DEF ExactInv, ExactAt
  <1>2. Accounts(Range(nodeWorkerArray))' <=> Accounts(Range(nodeWorkerArray))
    BY DEF Accounts
  <1> QED
    BY <1>1, <1>2 DEF ExactInv

(* A step of the one process that is in rebalance.                           *)
LEMMA ExactAfterStep ==
    ASSUME Typing, FlagInv, ExactInv, NEW p \in Procs, Busy(p),
           NEW to \in Stages, pc' = [pc EXCEPT ![p] = to],
           \A q \in Procs \ {p} : foundPools'[q] = foundPools[q] /\ foundNodes'[q] = foundNodes[q],
           UNCHANGED <<rebalClosed, panicked>>,
           IsInjective(connectedNodes)',
           ExactAt(p)',
           ~Visits(p)' => Accounts(Range(nodeWorkerArray))'
    PROVE  ExactInv'
  <1>1. \A q \in Procs \ {p} : pc[q] \in {"idle", "unlock"} /\ pc'[q] = pc[q]
    BY DEF FlagInv, Busy, Typing, TypeOK
  <1>2. \A q \in Procs \ {p} : ExactAt(q)'
    BY <1>1 DEF ExactInv, ExactAt, Visits
  <1> QED
    BY <1>2 DEF ExactInv

LEMMA ExactAfterSnapshot ==
    ASSUME Steady, Typing, AlignInv, FlagInv, ExactInv, NEW p \in Procs, Snapshot(p)
    PROVE  ExactInv'
  <1>1. /\ pc[p] = "snapshot" /\ pc' = [pc EXCEPT ![p] = "visit"] /\ pc'[p] = "visit"
        /\ existing' = [existing EXCEPT ![p] = PoolByNode] /\ existing'[p] = PoolByNode
        /\ UNCHANGED <<nodeWorkerArray, connectedNodes, todo, foundPools, foundNodes, status,
                       rebalClosed, panicked>>
    BY DEF Snapshot, Goto, Typing, TypeOK, tableVars, poolVars, chanVars
  <1>2. Busy(p) /\ ~Visits(p) /\ "visit" \in Stages
    BY <1>1 DEF Busy, Visits, Stages
  <1>3. /\ IsInjective(todo[p]) /\ foundPools[p] = <<>> /\ foundNodes[p] = <<>>
        /\ FixedNodes => todo[p] = Nodes
    BY <1>1, <1>2 DEF ExactInv, ExactAt
  <1>4. LivePools' = LivePools
    BY <1>1 DEF LivePools, Alive
  <1>5. Accounts(Range(nodeWorkerArray))
    BY <1>1, <1>2 DEF ExactInv, FlagInv, Busy, Visits
  <1>6. Range(todo[p]) \subseteq Listed /\ (FixedNodes => Range(todo[p]) = Listed)
    <2>1. Range(todo[p]) \subseteq Listed
      BY RangeOfSeq DEF Typing, TypeOK
    <2> QED
      BY <1>3, <2>1 DEF FixedNodes, Listed
  <1>7. Kept(p)' = {PoolByNode[n] : n \in Range(todo[p])} \ {NoPool}
    <2>1. Pending(p)' = Range(todo[p])
      BY <1>1 DEF Pending
    <2> QED
      BY <1>1, <2>1 DEF Kept
  <1>8. {PoolByNode[n] : n \in Listed} \ {NoPool} \subseteq Range(nodeWorkerArray)
    BY PoolsByNode
  <1>9. ASSUME NEW k \in Range(nodeWorkerArray)
        PROVE  k \in {PoolByNode[n] : n \in Listed} \ {NoPool}
    <2>1. /\ nodeWorkerArray \in Seq(Pools) /\ connectedNodes \in Seq(Listed)
          /\ Len(nodeWorkerArray) = Len(connectedNodes)
          /\ \A i, j \in 1 .. Len(connectedNodes) : connectedNodes[i] = connectedNodes[j] => i = j
      <3>1. nodeWorkerArray \in Seq(Pools) /\ connectedNodes \in Seq(Listed)
        BY DEF Typing, TypeOK
      <3>2. DOMAIN connectedNodes = 1 .. Len(connectedNodes)
        BY <3>1
      <3>3. IsInjective(connectedNodes) /\ Len(nodeWorkerArray) = Len(connectedNodes)
        BY DEF AlignInv, Parallel, ExactInv
      <3> QED
        BY <3>1, <3>2, <3>3 DEF IsInjective
    <2>2. PICK i \in 1 .. Len(nodeWorkerArray) : k = nodeWorkerArray[i]
      BY <2>1 DEF Range
    <2>3. i \in 1 .. Len(connectedNodes) /\ connectedNodes[i] \in Listed /\ k \in Pools
      BY <2>1, <2>2
    <2>4. PoolByNode[connectedNodes[i]] \in {nodeWorkerArray[j] :
            j \in {l \in 1 .. Len(connectedNodes) : connectedNodes[l] = connectedNodes[i]}}
      BY <2>3, PoolsByNode
    <2>5. PoolByNode[connectedNodes[i]] = k
      BY <2>1, <2>2, <2>3, <2>4
    <2> QED
      BY <2>3, <2>5, PoolsAssumption
  <1>10. IsInjective(<<>>) /\ Range(<<>>) = {}
    BY DEF IsInjective, Range
  <1>11. Accounts(Range(foundPools[p]) \cup Kept(p))'
    <2>1. Kept(p)' \subseteq Range(nodeWorkerArray)
      BY <1>6, <1>7, <1>8
    <2>2. ASSUME FixedNodes PROVE Kept(p)' = Range(nodeWorkerArray)
      BY <1>6, <1>7, <1>8, <1>9, <2>2
    <2>3. Range(foundPools'[p]) \cup Kept(p)' = Kept(p)'
      BY <1>1, <1>3, <1>10
    <2> QED
      BY <1>4, <1>5, <2>1, <2>2, <2>3 DEF Accounts
  <1>12. Visiting(p)'
    BY <1>1, <1>3, <1>10, <1>11 DEF Visiting
  <1>13. ExactAt(p)' /\ Visits(p)'
    BY <1>1, <1>12 DEF ExactAt, Visits
  <1> QED
    BY <1>1, <1>2, <1>13, ExactAfterStep DEF ExactInv

LEMMA ExactAfterVisitKeeps ==
    ASSUME Typing, AlignInv, FlagInv, ExactInv, NEW p \in Procs, VisitKeeps(p)
    PROVE  ExactInv'
  <1> DEFINE n == Head(todo[p])
             k == existing[p][n]
  <1>1. /\ pc[p] = "visit" /\ pc' = pc /\ todo[p] # <<>> /\ k # NoPool
        /\ foundPools' = [foundPools EXCEPT ![p] = Append(@, k)]
        /\ foundNodes' = [foundNodes EXCEPT ![p] = Append(@, n)]
        /\ todo' = [todo EXCEPT ![p] = Tail(@)]
        /\ UNCHANGED <<nodeWorkerArray, connectedNodes, existing, status, rebalClosed, panicked>>
    BY DEF VisitKeeps, tableVars, poolVars, chanVars
  <1>2. /\ Busy(p) /\ Visits(p) /\ Visits(p)' /\ "visit" \in Stages
        /\ pc' = [pc EXCEPT ![p] = "visit"]
    BY <1>1 DEF Busy, Visits, Stages, Typing, TypeOK
  <1>3. /\ todo[p] \in Seq(Listed) /\ foundNodes[p] \in Seq(Listed) /\ foundPools[p] \in Seq(Pools)
        /\ existing[p] \in [Listed -> Pools \cup {NoPool}]
    BY DEF Typing, TypeOK
  <1>4. /\ n \in Listed /\ Range(todo[p]) = {n} \cup Range(Tail(todo[p]))
        /\ IsInjective(todo[p]) => IsInjective(Tail(todo[p])) /\ n \notin Range(Tail(todo[p]))
    BY <1>1, <1>3, HeadAndTail
  <1>5. k \in Pools
    BY <1>1, <1>3, <1>4
  <1> HIDE DEF k
  <1>6. Visiting(p)
    BY <1>2 DEF ExactInv, ExactAt
  <1>7. /\ foundPools'[p] = Append(foundPools[p], k) /\ foundNodes'[p] = Append(foundNodes[p], n)
        /\ todo'[p] = Tail(todo[p])
    BY <1>1 DEF Typing, TypeOK
  <1>8. /\ Range(foundPools'[p]) = Range(foundPools[p]) \cup {k}
        /\ Range(foundNodes'[p]) = Range(foundNodes[p]) \cup {n}
        /\ IsInjective(foundNodes[p]) /\ n \notin Range(foundNodes[p]) => IsInjective(foundNodes'[p])
    BY <1>3, <1>4, <1>5, <1>7, OneMore
  <1>9. LivePools' = LivePools
    BY <1>1 DEF LivePools, Alive
  <1>10. {k} \cup Kept(p)' = Kept(p)
    <2>1. Pending(p) = {n} \cup Pending(p)'
      BY <1>1, <1>4, <1>7 DEF Pending
    <2>2. k # NoPool
      BY <1>5, PoolsAssumption
    <2> QED
      BY <1>1, <2>1, <2>2 DEF Kept, k
  <1>11. Accounts(Range(foundPools[p]) \cup Kept(p))'
    BY <1>6, <1>8, <1>9, <1>10 DEF Visiting, Accounts
  <1>12. Visiting(p)'
    BY <1>4, <1>6, <1>7, <1>8, <1>11 DEF Visiting
  <1>13. ExactAt(p)'
    BY <1>1, <1>2, <1>12 DEF ExactAt
  <1>14. \A q \in Procs \ {p} : foundPools'[q] = foundPools[q] /\ foundNodes'[q] = foundNodes[q]
    BY <1>1 DEF Typing, TypeOK
  <1> QED
    BY <1>1, <1>2, <1>13, <1>14, ExactAfterStep DEF ExactInv

(* The pool a rebalance terminates is down, and nobody's any more.           *)
LEMMA ExactAfterVisitReplaces ==
    ASSUME Typing, AlignInv, FlagInv, ExactInv, NEW p \in Procs, VisitReplaces(p)
    PROVE  ExactInv'
  <1> DEFINE n == Head(todo[p])
             k == existing[p][n]
  <1>1. /\ pc[p] = "visit" /\ pc' = [pc EXCEPT ![p] = "create"] /\ pc'[p] = "create"
        /\ todo[p] # <<>>
        /\ IF k = NoPool THEN UNCHANGED <<status, panicked>>
           ELSE status[k] # "up" /\ Terminate(k)
        /\ UNCHANGED <<nodeWorkerArray, connectedNodes, todo, existing, foundPools, foundNodes,
                       rebalClosed>>
    BY DEF VisitReplaces, Goto, tableVars, chanVars, localVars, Typing, TypeOK
  <1>2. Busy(p) /\ Visits(p) /\ Visits(p)' /\ "create" \in Stages
    BY <1>1 DEF Busy, Visits, Stages
  <1>3. /\ todo[p] \in Seq(Listed) /\ foundNodes[p] \in Seq(Listed) /\ foundPools[p] \in Seq(Pools)
        /\ existing[p] \in [Listed -> Pools \cup {NoPool}]
    BY DEF Typing, TypeOK
  <1>4. Visiting(p)
    BY <1>2 DEF ExactInv, ExactAt
  <1>5. /\ n \in Listed /\ Range(todo[p]) = {n} \cup Range(Tail(todo[p]))
        /\ n \notin Range(Tail(todo[p])) /\ n \notin Range(foundNodes[p])
        /\ Range(Tail(todo[p])) \subseteq Listed
    <2>1. n \in Listed /\ Tail(todo[p]) \in Seq(Listed)
          /\ Range(todo[p]) = {n} \cup Range(Tail(todo[p])) /\ n \notin Range(Tail(todo[p]))
      BY <1>1, <1>3, <1>4, HeadAndTail DEF Visiting
    <2>2. Range(Tail(todo[p])) \subseteq Listed
      BY <2>1, RangeOfSeq
    <2> QED
      BY <1>4, <2>1, <2>2 DEF Visiting
  <1>6. Pending(p) = {n} \cup Range(Tail(todo[p])) /\ Pending(p)' = Range(Tail(todo[p]))
    BY <1>1, <1>5 DEF Pending
  <1>7. k \in Pools \cup {NoPool}
    BY <1>3, <1>5
  <1> HIDE DEF n
  <1>8. CASE k = NoPool
    <2>1. Kept(p)' = Kept(p)
      BY <1>1, <1>6, <1>8 DEF Kept
    <2>2. LivePools' = LivePools /\ UNCHANGED panicked
      BY <1>1, <1>8 DEF LivePools, Alive
    <2>3. Visiting(p)'
      BY <1>1, <1>4, <2>1, <2>2 DEF Visiting, Accounts
    <2>4. ExactAt(p)'
      BY <1>1, <1>2, <2>3 DEF ExactAt
    <2> QED
      BY <1>1, <1>2, <2>2, <2>4, ExactAfterStep DEF ExactInv
  <1>9. CASE k # NoPool
    <2>1. k \in Pools /\ nodeOf[k] = n /\ k \in Kept(p)
      BY <1>5, <1>6, <1>7, <1>9 DEF AlignInv, Kept
    <2>2. status[k] = "down"
      BY <1>1, <1>4, <1>9, <2>1 DEF Visiting, Accounts, LivePools, Alive
    <2>3. status' = [status EXCEPT ![k] = "terminated"] /\ UNCHANGED panicked
      BY <1>1, <1>9, <2>2 DEF Terminate
    <2>4. LivePools' = LivePools \ {k}
      BY <2>1, <2>3 DEF LivePools, Alive, Typing, TypeOK
    <2>5. k \notin Range(foundPools[p])
      <3>1. SUFFICES ASSUME NEW i \in 1 .. Len(foundPools[p]), foundPools[p][i] = k PROVE FALSE
        BY <1>3 DEF Range
      <3>2. foundNodes[p][i] = n /\ i \in DOMAIN foundNodes[p]
        BY <1>3, <2>1, <3>1 DEF AlignInv, Parallel
      <3> QED
        BY <1>5, <3>2 DEF Range
    <2>6. Kept(p)' = Kept(p) \ {k}
      <3>1. \A m \in Range(Tail(todo[p])) : existing[p][m] # k
        BY <1>5, <1>9, <2>1 DEF AlignInv
      <3> QED
        BY <1>1, <1>6, <3>1 DEF Kept
    <2>7. Visiting(p)'
      BY <1>1, <1>4, <2>4, <2>5, <2>6 DEF Visiting, Accounts
    <2>8. ExactAt(p)'
      BY <1>1, <1>2, <2>7 DEF ExactAt
    <2> QED
      BY <1>1, <1>2, <2>3, <2>8, ExactAfterStep DEF ExactInv
  <1> QED
    BY <1>8, <1>9

LEMMA ExactAfterCreates ==
    ASSUME Typing, AlignInv, FlagInv, ExactInv, NEW p \in Procs, Creates(p)
    PROVE  ExactInv'
  <1>1. PICK k \in Pools :
          /\ Free(k) /\ ~Referenced(k)
          /\ status' = [status EXCEPT ![k] = "up"]
          /\ foundPools' = [foundPools EXCEPT ![p] = Append(@, k)]
          /\ foundNodes' = [foundNodes EXCEPT ![p] = Append(@, Head(todo[p]))]
          /\ existing' = [existing EXCEPT ![p][Head(todo[p])] = k]
    BY CreatesAFreePool
  <1> DEFINE n == Head(todo[p])
  <1>2. /\ pc[p] = "create" /\ pc' = [pc EXCEPT ![p] = "visit"] /\ pc'[p] = "visit"
        /\ todo' = [todo EXCEPT ![p] = Tail(@)] /\ todo[p] # <<>>
        /\ UNCHANGED <<nodeWorkerArray, connectedNodes, rebalClosed, panicked>>
    BY DEF Creates, Goto, tableVars, chanVars, Typing, TypeOK
  <1>3. Busy(p) /\ Visits(p) /\ Visits(p)' /\ "visit" \in Stages
    BY <1>2 DEF Busy, Visits, Stages
  <1>4. /\ todo[p] \in Seq(Listed) /\ foundNodes[p] \in Seq(Listed) /\ foundPools[p] \in Seq(Pools)
        /\ existing[p] \in [Listed -> Pools \cup {NoPool}]
    BY DEF Typing, TypeOK
  <1>5. Visiting(p)
    BY <1>3 DEF ExactInv, ExactAt
  <1>6. /\ n \in Listed /\ Range(todo[p]) = {n} \cup Range(Tail(todo[p]))
        /\ IsInjective(Tail(todo[p])) /\ n \notin Range(Tail(todo[p]))
    BY <1>2, <1>4, <1>5, HeadAndTail DEF Visiting
  <1>7. /\ foundPools'[p] = Append(foundPools[p], k) /\ foundNodes'[p] = Append(foundNodes[p], n)
        /\ todo'[p] = Tail(todo[p])
        /\ existing'[p] = [existing[p] EXCEPT ![n] = k]
    BY <1>1, <1>2 DEF Typing, TypeOK
  <1> HIDE DEF n
  <1>8. /\ Range(foundPools'[p]) = Range(foundPools[p]) \cup {k}
        /\ Range(foundNodes'[p]) = Range(foundNodes[p]) \cup {n}
        /\ IsInjective(foundNodes[p]) /\ n \notin Range(foundNodes[p]) => IsInjective(foundNodes'[p])
    BY <1>4, <1>6, <1>7, OneMore
  <1>9. LivePools' = LivePools \cup {k}
    BY <1>1 DEF LivePools, Alive, Typing, TypeOK
  <1>10. Kept(p)' = Kept(p)
    <2>1. Pending(p)' = Range(Tail(todo[p])) /\ Pending(p) = Range(Tail(todo[p]))
      BY <1>2, <1>7 DEF Pending
    <2>2. \A m \in Range(Tail(todo[p])) : existing'[p][m] = existing[p][m]
      BY <1>4, <1>6, <1>7
    <2> QED
      BY <2>1, <2>2 DEF Kept
  <1>11. Visiting(p)'
    BY <1>5, <1>6, <1>7, <1>8, <1>9, <1>10 DEF Visiting, Accounts
  <1>12. ExactAt(p)'
    BY <1>2, <1>3, <1>11 DEF ExactAt
  <1>13. \A q \in Procs \ {p} : foundPools'[q] = foundPools[q] /\ foundNodes'[q] = foundNodes[q]
    BY <1>1 DEF Typing, TypeOK
  <1> QED
    BY <1>2, <1>3, <1>12, <1>13, ExactAfterStep DEF ExactInv

LEMMA ExactAfterCreateFails ==
    ASSUME Typing, FlagInv, ExactInv, NEW p \in Procs, CreateFails(p)
    PROVE  ExactInv'
  <1>1. /\ pc[p] = "create" /\ pc' = [pc EXCEPT ![p] = "visit"] /\ pc'[p] = "visit"
        /\ todo'[p] = Tail(todo[p]) /\ todo[p] # <<>> /\ todo[p] \in Seq(Listed)
        /\ UNCHANGED <<nodeWorkerArray, connectedNodes, existing, foundPools, foundNodes, status,
                       rebalClosed, panicked>>
    BY DEF CreateFails, Goto, tableVars, poolVars, chanVars, Typing, TypeOK
  <1>2. Busy(p) /\ Visits(p) /\ Visits(p)' /\ "visit" \in Stages
    BY <1>1 DEF Busy, Visits, Stages
  <1>3. Visiting(p)
    BY <1>2 DEF ExactInv, ExactAt
  <1>4. /\ Range(Tail(todo[p])) \subseteq Range(todo[p])
        /\ IsInjective(Tail(todo[p]))
    BY <1>1, <1>3, HeadAndTail DEF Visiting
  <1>5. Pending(p)' = Pending(p)
    BY <1>1 DEF Pending
  <1>6. Kept(p)' = Kept(p) /\ LivePools' = LivePools
    BY <1>1, <1>5 DEF Kept, LivePools, Alive
  <1>7. Visiting(p)'
    BY <1>1, <1>3, <1>4, <1>6 DEF Visiting, Accounts
  <1>8. ExactAt(p)'
    BY <1>1, <1>2, <1>7 DEF ExactAt
  <1> QED
    BY <1>1, <1>2, <1>8, ExactAfterStep DEF ExactInv

(* What is published is what is alive.                                       *)
LEMMA PublishesTheLive ==
    ASSUME Typing, AlignInv, ExactInv, NEW p \in Procs, Publish(p)
    PROVE  /\ Accounts(Range(nodeWorkerArray'))
           /\ IsInjective(connectedNodes')
  <1>1. /\ pc[p] = "visit" /\ todo[p] = <<>>
        /\ nodeWorkerArray' = SortByHost(foundPools[p], PoolHost)
        /\ connectedNodes' = SortByHost(foundNodes[p], NodeHost)
    BY DEF Publish, Goto
  <1>2. Visiting(p)
    BY <1>1 DEF ExactInv, ExactAt, Visits
  <1>3. Kept(p) = {}
    BY <1>1 DEF Kept, Pending, Range
  <1> QED
    BY <1>1, <1>2, <1>3, SortedTables DEF Visiting

LEMMA ExactAfterPublish ==
    ASSUME Typing, AlignInv, FlagInv, ExactInv, NEW p \in Procs, Publish(p)
    PROVE  ExactInv'
  <1>1. /\ pc[p] = "visit" /\ pc' = [pc EXCEPT ![p] = "check"] /\ pc'[p] = "check"
        /\ foundPools' = [foundPools EXCEPT ![p] = <<>>]
        /\ foundNodes' = [foundNodes EXCEPT ![p] = <<>>]
        /\ UNCHANGED <<status, rebalClosed, panicked>>
    BY DEF Publish, ForgetLocals, Goto, poolVars, chanVars, Typing, TypeOK
  <1>2. Busy(p) /\ ~Visits(p)' /\ "check" \in Stages
    BY <1>1 DEF Busy, Visits, Stages
  <1>3. LivePools' = LivePools
    BY <1>1 DEF LivePools, Alive
  <1>4. Accounts(Range(nodeWorkerArray))' /\ IsInjective(connectedNodes)'
    BY <1>3, PublishesTheLive DEF Accounts
  <1>5. ExactAt(p)'
    BY <1>1, <1>2 DEF ExactAt, Typing, TypeOK
  <1>6. \A q \in Procs \ {p} : foundPools'[q] = foundPools[q] /\ foundNodes'[q] = foundNodes[q]
    BY <1>1 DEF Typing, TypeOK
  <1> QED
    BY <1>1, <1>2, <1>4, <1>5, <1>6, ExactAfterStep

LEMMA ExactStep ==
    ASSUME Steady
    PROVE  Typing /\ AlignInv /\ FlagInv /\ ExactInv /\ [Next]_vars => ExactInv'
  <1> SUFFICES ASSUME Typing, AlignInv, FlagInv, ExactInv, [Next]_vars PROVE ExactInv'
    OBVIOUS
  <1> DEFINE Same == UNCHANGED <<nodeWorkerArray, connectedNodes, existing, todo, foundPools,
                                 foundNodes, rebalClosed, panicked>>
  <1>1. ASSUME NEW p \in Procs, Same, UNCHANGED status, ~Visits(p),
               NEW to \in Stages \ {"visit", "create", "snapshot"}, pc' = [pc EXCEPT ![p] = to]
        PROVE  ExactInv'
    <2>1. LivePools' = LivePools
      BY <1>1 DEF LivePools, Alive
    <2>2. \A q \in Procs : /\ Visits(q)' <=> Visits(q)
                           /\ pc'[q] = "create" <=> pc[q] = "create"
                           /\ pc'[q] = "snapshot" => pc[q] = "snapshot"
      BY <1>1 DEF Visits, Typing, TypeOK
    <2> QED
      BY <1>1, <2>1, <2>2, ExactWhenUnchanged
  <1>2. ASSUME NEW p \in Procs PROVE ~CallerCalls(p)
    BY DEF Steady, OneAtATime, CallerCalls
  <1>3. CASE RequestReceived
    <2>1. /\ pc[Worker] = "idle" /\ pc' = [pc EXCEPT ![Worker] = "load"] /\ Worker \in Procs
          /\ Same /\ UNCHANGED status
      BY <1>3 DEF RequestReceived, Goto, Procs, tableVars, poolVars, localVars
    <2>2. ~Visits(Worker) /\ "load" \in Stages \ {"visit", "create", "snapshot"}
      BY <2>1 DEF Visits, Stages
    <2> HIDE DEF Same
    <2> QED
      BY <1>1, <2>1, <2>2
  <1>4. ASSUME NEW p \in Procs, LoadLock(p) \/ StoreLock(p) \/ CheckEmpty(p) \/ MarkAvailable(p)
                                 \/ MarkNotAvailable(p) \/ Unlock(p)
        PROVE  ExactInv'
    <2>1. Same /\ UNCHANGED status /\ ~Visits(p)
      BY <1>4 DEF LoadLock, StoreLock, CheckEmpty, MarkAvailable, MarkNotAvailable, Unlock, Goto,
        Visits, tableVars, poolVars, chanVars, localVars
    <2>2. \E to \in Stages \ {"visit", "create", "snapshot"} : pc' = [pc EXCEPT ![p] = to]
      BY <1>4 DEF LoadLock, StoreLock, CheckEmpty, MarkAvailable, MarkNotAvailable, Unlock, Goto,
        Stages
    <2> HIDE DEF Same
    <2> QED
      BY <1>1, <2>1, <2>2
  <1>5. ASSUME NEW p \in Procs, ListNodes(p) PROVE ExactInv'
    <2>1. /\ pc[p] = "list" /\ pc' = [pc EXCEPT ![p] = "snapshot"] /\ pc'[p] = "snapshot"
          /\ IsInjective(todo'[p]) /\ (FixedNodes => todo'[p] = Nodes)
          /\ UNCHANGED <<nodeWorkerArray, connectedNodes, foundPools, foundNodes, status,
                         rebalClosed, panicked>>
      BY <1>5 DEF ListNodes, Goto, Steady, FixedNodes, tableVars, poolVars, chanVars, Typing, TypeOK
    <2>2. Busy(p) /\ ~Visits(p) /\ ~Visits(p)' /\ "snapshot" \in Stages
      BY <2>1 DEF Busy, Visits, Stages
    <2>3. ExactAt(p)'
      BY <2>1, <2>2 DEF ExactInv, ExactAt
    <2>4. Accounts(Range(nodeWorkerArray))
      BY <2>2 DEF ExactInv, FlagInv, Busy, Visits
    <2>5. Accounts(Range(nodeWorkerArray))'
      BY <2>1, <2>4 DEF Accounts, LivePools, Alive
    <2> QED
      BY <2>1, <2>2, <2>3, <2>5, ExactAfterStep DEF ExactInv
  <1>6. ASSUME NEW p \in Procs, StartRetry(p) PROVE ExactInv'
    <2>1. PICK r \in Retries :
            pc[r] = "idle" /\ pc' = [pc EXCEPT ![p] = "unlock", ![r] = "load"]
      BY <1>6 DEF StartRetry
    <2>2. pc[p] = "wait" /\ Same /\ UNCHANGED status /\ r \in Procs
      BY <1>6 DEF StartRetry, Procs, tableVars, poolVars, chanVars, localVars
    <2>3. \A q \in Procs : /\ Visits(q)' <=> Visits(q)
                           /\ pc'[q] = "create" <=> pc[q] = "create"
                           /\ pc'[q] = "snapshot" => pc[q] = "snapshot"
      BY <2>1, <2>2 DEF Visits, Typing, TypeOK
    <2>4. LivePools' = LivePools
      BY <2>2 DEF LivePools, Alive
    <2> QED
      BY <2>2, <2>3, <2>4, ExactWhenUnchanged
  <1>7. ASSUME NEW k \in Pools, PoolStep(k) PROVE ExactInv'
    <2>1. ~PoolPanics(k)
      BY DEF PoolPanics, ExactInv
    <2>2. Same /\ UNCHANGED pc
      BY <1>7, <2>1 DEF PoolStep, PoolGoesDown, PoolGivesUp, PoolAsks, PoolSignals,
        tableVars, localVars, chanVars
    <2>3. status' = status \/ (status[k] = "up" /\ status' = [status EXCEPT ![k] = "down"])
      BY <1>7, <2>1 DEF PoolStep, PoolGoesDown, PoolGivesUp, PoolAsks, PoolSignals,
        poolVars
    <2>4. LivePools' = LivePools
      BY <2>3 DEF LivePools, Alive, Typing, TypeOK
    <2>5. \A q \in Procs : /\ Visits(q)' <=> Visits(q)
                           /\ pc'[q] = "create" <=> pc[q] = "create"
                           /\ pc'[q] = "snapshot" => pc[q] = "snapshot"
      BY <2>2 DEF Visits
    <2> QED
      BY <2>2, <2>4, <2>5, ExactWhenUnchanged
  <1>8. ASSUME NEW s \in Stoppers PROVE FALSE
    BY <1>8 DEF Steady
  <1>9. CASE UNCHANGED vars
    <2>1. Same /\ UNCHANGED <<pc, status>>
      BY <1>9 DEF vars, tableVars, poolVars, chanVars, localVars
    <2>2. LivePools' = LivePools
      BY <2>1 DEF LivePools, Alive
    <2>3. \A q \in Procs : /\ Visits(q)' <=> Visits(q)
                           /\ pc'[q] = "create" <=> pc[q] = "create"
                           /\ pc'[q] = "snapshot" => pc[q] = "snapshot"
      BY <2>1 DEF Visits
    <2> QED
      BY <2>1, <2>2, <2>3, ExactWhenUnchanged
  <1> HIDE DEF Same
  <1> QED
    BY <1>2, <1>3, <1>4, <1>5, <1>6, <1>7, <1>8, <1>9, ExactAfterSnapshot, ExactAfterVisitKeeps,
      ExactAfterVisitReplaces, ExactAfterCreates, ExactAfterCreateFails, ExactAfterPublish
    DEF Next, RebalanceStep

LEMMA ExactInit == Init => ExactInv
  <1> SUFFICES ASSUME Init PROVE ExactInv
    OBVIOUS
  <1>1. IsInjective(<<>>) /\ Range(<<>>) = {}
    BY DEF IsInjective, Range
  <1>2. LivePools = {}
    BY DEF Init, LivePools, Alive
  <1>3. \A p \in Procs : ~Visits(p) /\ ExactAt(p)
    BY DEF Init, Visits, ExactAt
  <1> QED
    BY <1>1, <1>2, <1>3 DEF Init, ExactInv, Accounts

LEMMA PoolsAccountedFor ==
    ASSUME Steady
    PROVE  Spec => [](Typing /\ AlignInv /\ FlagInv /\ ExactInv)
  <1>1. Init => ExactInv
    BY ExactInit
  <1>2. Typing /\ AlignInv /\ FlagInv /\ ExactInv /\ [Next]_vars => ExactInv'
    BY ExactStep
  <1>3. Spec => [](Typing /\ AlignInv /\ FlagInv)
    BY OneIsBusy DEF Steady
  <1> QED
    BY <1>1, <1>2, <1>3, PTL DEF Spec

(* Whatever lists are discovered and connections fail, no pool of such a     *)
(* client is terminated twice, which would close its channels again and      *)
(* panic (zencached.go, rebalance; zencached_worker.go, terminate).          *)
THEOREM NoPoolTerminatedTwice ==
    ASSUME Steady
    PROVE  Spec => []NoDoubleTermination
  <1>1. ExactInv => NoDoubleTermination
    BY DEF ExactInv, NoDoubleTermination
  <1> QED
    BY <1>1, PoolsAccountedFor, PTL

(* Between two rebalances of such a client, whose nodes are those of the     *)
(* configuration, the table holds every pool that was created and not        *)
(* terminated, and no other: no pool of connections is lost and none that is *)
(* closed is routed to (zencached.go, rebalance).                            *)
THEOREM TableIsExact ==
    ASSUME Steady, FixedNodes
    PROVE  Spec => []TableIsExactAtRest
  <1>1. ExactInv => TableIsExactAtRest
    BY DEF ExactInv, Visits, Accounts, TableIsExactAtRest, AtRest, Inside, LivePools
  <1> QED
    BY <1>1, PoolsAccountedFor, PTL

(* No rebalance of such a client takes a pool whose connections work out of  *)
(* the table: the commands routed to it find it there (zencached.go,         *)
(* rebalance).                                                               *)
THEOREM HealthyPoolsStay ==
    ASSUME Steady, FixedNodes
    PROVE  Spec => HealthyPoolsKept
  <1> DEFINE Kept1 == \A k \in Range(nodeWorkerArray) :
                        status[k] = "up" => k \in Range(nodeWorkerArray')
  <1>1. ASSUME Typing, AlignInv, FlagInv, ExactInv, Next PROVE Kept1
    <2>1. ASSUME NEW p \in Procs, Publish(p) PROVE Kept1
      <3>1. Range(nodeWorkerArray') = LivePools
        BY <1>1, <2>1, PublishesTheLive DEF Accounts
      <3>2. Range(nodeWorkerArray) \subseteq Pools
        BY <1>1, RangeOfSeq DEF Typing, TypeOK
      <3> QED
        BY <3>1, <3>2 DEF LivePools, Alive
    <2>2. ASSUME UNCHANGED nodeWorkerArray PROVE Kept1
      BY <2>2
    <2>3. ASSUME NEW p \in Procs, CallerCalls(p) \/ (RebalanceStep(p) /\ ~Publish(p)) PROVE Kept1
      <3>1. UNCHANGED nodeWorkerArray
        BY <2>3 DEF CallerCalls, RebalanceStep, LoadLock, StoreLock, ListNodes, Snapshot,
          VisitKeeps, VisitReplaces, Creates, CreateFails, CheckEmpty, MarkAvailable,
          MarkNotAvailable, StartRetry, Unlock, tableVars
      <3> QED
        BY <2>2, <3>1
    <2>4. ASSUME NEW k \in Pools, PoolStep(k) PROVE Kept1
      <3>1. UNCHANGED nodeWorkerArray
        BY <2>4 DEF PoolStep, PoolGoesDown, PoolGivesUp, PoolAsks, PoolSignals, PoolPanics, tableVars
      <3> QED
        BY <2>2, <3>1
    <2>5. ASSUME NEW s \in Stoppers PROVE FALSE
      BY <2>5 DEF Steady
    <2>6. CASE RequestReceived
      <3>1. UNCHANGED nodeWorkerArray
        BY <2>6 DEF RequestReceived, tableVars
      <3> QED
        BY <2>2, <3>1
    <2> HIDE DEF Kept1
    <2> QED
      BY <1>1, <2>1, <2>3, <2>4, <2>5, <2>6 DEF Next
  <1>2. Typing /\ AlignInv /\ FlagInv /\ ExactInv /\ [Next]_vars => [Kept1]_vars
    <2> HIDE DEF Kept1
    <2> QED
      BY <1>1
  <1> QED
    BY <1>2, PoolsAccountedFor, PTL DEF Spec, HealthyPoolsKept
=============================================================================
