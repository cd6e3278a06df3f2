----------------------------- MODULE Operations -----------------------------
(***************************************************************************)
(* The operations an application calls (zencached_ops.go and               *)
(* zencached_cluster.go), from the validation of the key to the results,   *)
(* over a node table that rebalances replace meanwhile.                    *)
(*                                                                         *)
(* A pool is the node it belongs to, and whether it is connected.  A job   *)
(* given to it is executed by the server and answered, or fails, before or *)
(* after it was executed (modules NodeWorkers and Commands).               *)
(*                                                                         *)
(* Keys and router hashes are sequences of bytes, numbers here.  Data is   *)
(* what some caller stored, under the layers of encoding it has got since. *)
(***************************************************************************)
EXTENDS Memcached, HostOrder, SequencesExt

CONSTANTS
    Callers,          \* goroutines of the application
    Requests,         \* the calls they may make
    Lists,            \* what a rebalance may find connected, in any order
    Blank,            \* the byte of a space or a line break
    MaxKeyLength,     \* maxAcceptedKeyLength
    Shared,           \* paths with room behind them in their arrays
    CompressionType,
    Legacy,           \* data found in the servers at the beginning
    Empty,            \* data of no byte
    Nothing,          \* a nil result
    MaxCalls,         \* bounds on the calls and on the
    MaxPublished      \*   tables published of a behaviour

Nodes == UNION {Range(list) : list \in Lists}
Host == [n \in Nodes |-> n]    \* a node is its host, hosts are ordered by number
Composite(r) == r.path \o r.key
Keys == {Composite(r) : r \in Requests}
Names == {"set", "add", "get", "delete", "version"}
IsStore(r) == r.name \in {"set", "add"}
Raw(v) == [value |-> v, layers |-> <<>>]

ASSUME ListsAssumption ==
    \A list \in Lists : list \in Seq(Nat) /\ IsInjective(list)
ASSUME RequestsAssumption ==
    Requests # {} /\ \A r \in Requests :
        /\ r.name \in Names
        /\ r.cluster \in BOOLEAN
        /\ r.name = "version" => ~r.cluster /\ r.path = <<>> /\ r.key = <<>>
        /\ {r.hash, r.path, r.key} \subseteq Seq(Nat)
ASSUME ValuesAssumption ==
    \A v \in Legacy \cup {r.value : r \in {q \in Requests : IsStore(q)}} :
        v = Empty \/ v = Raw(v.value)
ASSUME BoundsAssumption == {MaxKeyLength, MaxCalls, MaxPublished} \subseteq Nat
ASSUME CompressionAssumption == CompressionType \in {"none", "base64", "zstandard"}

VARIABLES
    table,         \* the nodes of nodeWorkerArray
    down,          \* nodes whose pool is not connected
    notAvailable,
    publishing,    \* rebalance has published a table and not yet set notAvailable
    published,     \* number of tables
    store,         \* what each server has for each key
    behind,        \* of each shared path: the bytes behind it in its array
    calls,         \* number of calls
    pc,            \* where each caller is in its operation
    request,       \* what it called
    numNodes,      \* positions of its results
    answers,       \* result and error of the positions done
    target,        \* the pool it gave its job to
    reply,         \* what the server answered
    undisturbed,   \* numNodes was read, and no table was published since
    seen,          \* the nodes of the table it was routed by
    acknowledged,  \* stores that returned ResultTypeStored, and where they went
    panicked

tableVars == <<table, down, notAvailable, publishing, published>>
jobVars == <<target, reply, seen>>
callVars == <<calls, request, numNodes, undisturbed, behind>>
vars == <<tableVars, jobVars, callVars, store, pc, answers, acknowledged, panicked>>

-----------------------------------------------------------------------------
(* Compression.  The codecs refuse what they have not encoded themselves.   *)
Layers ==
    CASE CompressionType = "base64" -> <<"base64">>
      [] CompressionType = "zstandard" -> <<"base64", "zstandard">>
      [] CompressionType = "none" -> <<>>

Compress(data) ==
    IF data = Empty THEN Empty ELSE [data EXCEPT !.layers = @ \o Layers]

Decompress(data) ==
    [data EXCEPT !.layers = SubSeq(@, 1, Len(@) - Len(Layers))]

(* Mutant of Decompresses: the layers come off in the order they were put on. *)
DecompressesInOrder(data) == IsSuffix(Reverse(Layers), data.layers)

Decompresses(data) == IsSuffix(Layers, data.layers)

-----------------------------------------------------------------------------
Result(type, data, node) == [type |-> type, data |-> data, node |-> node]
Returned(result, error) == [result |-> result, error |-> error]
Failure(error) == Returned(Nothing, error)

(* What baseStore, baseGet, baseDelete and baseVersion make of an answer. *)
AnswerTo(r, a, node) ==
    IF r.name # "get" \/ a.type # "Found" THEN Returned(Result(a.type, a.data, node), "none")
    ELSE IF a.data = Empty THEN Returned(Result("NotFound", Absent, node), "none")
    ELSE IF Decompresses(a.data)
         THEN Returned(Result("Found", Decompress(a.data), node), "none")
         ELSE Returned(Result("DecompressionError", a.data, node), "decompression")

(* And of an error of the job. *)
FailureOf(r, node) ==
    IF r.name \in {"delete", "version"} THEN Failure("job")
    ELSE Returned(Result("Error", Absent, node), "job")

(* The command of baseStore carries the compressed value. *)
Rendered(r) == [name |-> r.name, value |-> IF IsStore(r) THEN Compress(r.value) ELSE r.value]

ServerReply(r, s) == IF r.name = "version" THEN Plain("Found") ELSE ReplyTo(Rendered(r), s)
ServerStore(r, s) == StoreAfter(Rendered(r), s)

-----------------------------------------------------------------------------
Init ==
    /\ table \in {SortByHost(list, Host) : list \in Lists}
    /\ down = {}
    /\ notAvailable = (table = <<>>)
    /\ publishing = FALSE
    /\ published = 0
    /\ \E data \in Legacy \cup {Absent} : store = [n \in Nodes |-> [k \in Keys |-> data]]
    /\ behind = [path \in Shared |-> <<>>]
    /\ calls = 0
    /\ pc = [c \in Callers |-> "idle"]
    /\ request = [c \in Callers |-> CHOOSE r \in Requests : TRUE]
    /\ numNodes = [c \in Callers |-> 0]
    /\ answers = [c \in Callers |-> <<>>]
    /\ target = [c \in Callers |-> Nothing]
    /\ reply = [c \in Callers |-> Nothing]
    /\ undisturbed = [c \in Callers |-> FALSE]
    /\ seen = [c \in Callers |-> {}]
    /\ acknowledged = {}
    /\ panicked = FALSE

-----------------------------------------------------------------------------
(* The rest of the client.  rebalance publishes a sorted table whose pools   *)
(* are connected, and sets notAvailable a little later.                     *)
(* Mutant of Publishes: the new table is not sorted. *)
PublishesUnsorted ==
    /\ ~publishing
    /\ published < MaxPublished
    /\ \E list \in Lists : table' = list
    /\ down' = down \ Range(table')
    /\ publishing' = TRUE
    /\ published' = published + 1
    /\ undisturbed' = [c \in Callers |-> FALSE]
    /\ UNCHANGED <<notAvailable, jobVars, calls, request, numNodes, behind, store, pc, answers,
                   acknowledged, panicked>>

Publishes ==
    /\ ~publishing
    /\ published < MaxPublished
    /\ \E list \in Lists : table' = SortByHost(list, Host)
    /\ down' = down \ Range(table')
    /\ publishing' = TRUE
    /\ published' = published + 1
    /\ undisturbed' = [c \in Callers |-> FALSE]
    /\ UNCHANGED <<notAvailable, jobVars, calls, request, numNodes, behind, store, pc, answers,
                   acknowledged, panicked>>

SetsFlag ==
    /\ publishing
    /\ publishing' = FALSE
    /\ notAvailable' = (table = <<>>)
    /\ UNCHANGED <<table, down, published, jobVars, callVars, store, pc, answers, acknowledged,
                   panicked>>

PoolGoesDown(n) ==
    /\ n \in Range(table) \ down
    /\ down' = down \cup {n}
    /\ UNCHANGED <<table, notAvailable, publishing, published, jobVars, callVars, store, pc,
                   answers, acknowledged, panicked>>

-----------------------------------------------------------------------------
(* ValidateKey appends the key to the path, in the array of the path if     *)
(* there is room, and then looks at what is there.                          *)
Begins(c) ==
    /\ pc[c] = "idle"
    /\ calls < MaxCalls
    /\ calls' = calls + 1
    /\ \E r \in Requests :
         /\ request' = [request EXCEPT ![c] = r]
         /\ numNodes' = [numNodes EXCEPT ![c] = IF r.cluster THEN Len(table) ELSE 1]
         /\ behind' = IF r.path \in Shared
                      THEN [behind EXCEPT ![r.path] =
                                r.key \o SubSeq(@, Len(r.key) + 1, Len(@))]
                      ELSE behind
    /\ undisturbed' = [undisturbed EXCEPT ![c] = TRUE]
    /\ answers' = [answers EXCEPT ![c] = <<>>]
    /\ pc' = [pc EXCEPT ![c] = "validate"]
    /\ UNCHANGED <<tableVars, jobVars, store, acknowledged, panicked>>

KeyComposite(r) ==
    IF r.path \in Shared THEN r.path \o SubSeq(behind[r.path], 1, Len(r.key)) ELSE Composite(r)

(* Mutant of IsValid: only the key is looked at. *)
IsValidKey(r) ==
    r.name = "version" \/ (Len(r.key) \in 1 .. MaxKeyLength /\ Blank \notin Range(r.key))

IsValid(r) ==
    \/ r.name = "version"
    \/ Len(Composite(r)) \in 1 .. MaxKeyLength /\ Blank \notin Range(KeyComposite(r))

(* An operation that is over, with the answer of its last position, or one  *)
(* for each.                                                                *)
Returns(c, as) ==
    /\ answers' = [answers EXCEPT ![c] = as]
    /\ pc' = [pc EXCEPT ![c] = "idle"]
    /\ UNCHANGED <<tableVars, jobVars, callVars, store, acknowledged, panicked>>

Rejects(c) ==
    /\ pc[c] = "validate"
    /\ ~IsValid(request[c])
    /\ Returns(c, [i \in 1 .. numNodes[c] |-> Failure("ErrInvalidKeyFormat")])

(* store, but not clusterStore, refuses an empty value. *)
StoresNothing(c) ==
    IsStore(request[c]) /\ ~request[c].cluster /\ request[c].value = Empty

Refuses(c) ==
    /\ pc[c] = "validate"
    /\ IsValid(request[c])
    /\ StoresNothing(c)
    /\ Returns(c, <<Returned(Result("NotStored", Absent, Nothing), "none")>>)

(* GetConnectedNodeWorkers begins with a look at the flag. *)
FindsNone(c) ==
    /\ pc[c] = "validate"
    /\ IsValid(request[c])
    /\ ~StoresNothing(c)
    /\ ~request[c].cluster
    /\ notAvailable
    /\ Returns(c, <<Failure("ErrNoAvailableNodes")>>)

Accepts(c) ==
    /\ pc[c] = "validate"
    /\ IsValid(request[c])
    /\ ~StoresNothing(c)
    /\ ~request[c].cluster => ~notAvailable
    /\ pc' = [pc EXCEPT ![c] = IF request[c].cluster THEN "loop" ELSE "route"]
    /\ UNCHANGED <<tableVars, jobVars, callVars, store, answers, acknowledged, panicked>>

(* The byte a table is indexed with: the last of the hash, of the key, or   *)
(* of the path, or any (rand.Intn).                                         *)
Routers(r) ==
    CASE r.hash # <<>> -> {Last(r.hash)}
      [] r.hash = <<>> /\ r.key # <<>> -> {Last(r.key)}
      [] r.hash = <<>> /\ r.key = <<>> /\ r.path # <<>> -> {Last(r.path)}
      [] OTHER -> 0 .. Len(table) - 1

(* Mutant of GivesJob: the error is not looked at. *)
GivesJobAnyway(c, i) ==
    /\ target' = [target EXCEPT ![c] = IF table[i] \in down THEN Nothing ELSE table[i]]
    /\ seen' = [seen EXCEPT ![c] = Range(table)]
    /\ pc' = [pc EXCEPT ![c] = "job"]
    /\ UNCHANGED answers

(* Gives the job to the pool at i, if it is connected. *)
GivesJob(c, i) ==
    IF table[i] \in down
    THEN /\ answers' = [answers EXCEPT ![c] = Append(@, Failure("ErrTelnetConnectionIsClosed"))]
         /\ pc' = [pc EXCEPT ![c] = IF request[c].cluster THEN "loop" ELSE "idle"]
         /\ UNCHANGED <<target, seen>>
    ELSE /\ target' = [target EXCEPT ![c] = table[i]]
         /\ seen' = [seen EXCEPT ![c] = Range(table)]
         /\ pc' = [pc EXCEPT ![c] = "job"]
         /\ UNCHANGED answers

Panics ==
    /\ panicked' = TRUE
    /\ UNCHANGED <<pc, answers, target, seen>>

(* Mutant of Routes: the table is taken to be as full as the flag says. *)
RoutesUnchecked(c) ==
    /\ pc[c] = "route"
    /\ IF table = <<>> THEN Panics
       ELSE /\ \E byte \in Routers(request[c]) : GivesJob(c, (byte % Len(table)) + 1)
            /\ UNCHANGED panicked
    /\ UNCHANGED <<tableVars, reply, callVars, store, acknowledged>>

(* The rest of GetConnectedNodeWorkers, under nodeWorkersMu. *)
Routes(c) ==
    /\ pc[c] = "route"
    /\ IF table = <<>>
       THEN /\ answers' = [answers EXCEPT ![c] = <<Failure("ErrNoAvailableNodes")>>]
            /\ pc' = [pc EXCEPT ![c] = "idle"]
            /\ UNCHANGED <<target, seen>>
       ELSE \E byte \in Routers(request[c]) : GivesJob(c, (byte % Len(table)) + 1)
    /\ UNCHANGED <<tableVars, reply, callVars, store, acknowledged, panicked>>

(* Mutant of Visits: an error ends the loop. *)
VisitsUntilError(c) ==
    /\ pc[c] = "loop"
    /\ LET i == Len(answers[c]) + 1
       IN  IF i > numNodes[c] \/ (i > 1 /\ answers[c][i - 1].error # "none")
           THEN pc' = [pc EXCEPT ![c] = "idle"] /\ UNCHANGED <<answers, target, seen, panicked>>
           ELSE IF i > Len(table) THEN Panics
           ELSE GivesJob(c, i) /\ UNCHANGED panicked
    /\ UNCHANGED <<tableVars, reply, callVars, store, acknowledged>>

(* One turn of the loop of a cluster operation.  A table that has become    *)
(* shorter is indexed past its end.                                         *)
Visits(c) ==
    /\ pc[c] = "loop"
    /\ LET i == Len(answers[c]) + 1
       IN  IF i > numNodes[c]
           THEN pc' = [pc EXCEPT ![c] = "idle"] /\ UNCHANGED <<answers, target, seen, panicked>>
           ELSE IF i > Len(table) THEN Panics
           ELSE GivesJob(c, i) /\ UNCHANGED panicked
    /\ UNCHANGED <<tableVars, reply, callVars, store, acknowledged>>

(* The server executes the job. *)
Executes(c) ==
    /\ pc[c] = "job"
    /\ LET r == request[c]
           k == Composite(r)
           n == target[c]
       IN  /\ reply' = [reply EXCEPT ![c] = ServerReply(r, store[n][k])]
           /\ store' = [store EXCEPT ![n][k] = ServerStore(r, @)]
    /\ pc' = [pc EXCEPT ![c] = "executed"]
    /\ UNCHANGED <<tableVars, target, seen, callVars, answers, acknowledged, panicked>>

Answers(c, answer) ==
    /\ answers' = [answers EXCEPT ![c] = Append(@, answer)]
    /\ pc' = [pc EXCEPT ![c] = IF request[c].cluster THEN "loop" ELSE "idle"]
    /\ target' = [target EXCEPT ![c] = Nothing]
    /\ reply' = [reply EXCEPT ![c] = Nothing]
    /\ seen' = [seen EXCEPT ![c] = {}]
    /\ UNCHANGED <<tableVars, callVars, store, panicked>>

Acknowledgement(c) ==
    [key |-> Composite(request[c]), hash |-> request[c].hash, nodes |-> seen[c],
     node |-> target[c]]

Succeeds(c) ==
    /\ pc[c] = "executed"
    /\ Answers(c, AnswerTo(request[c], reply[c], target[c]))
    /\ acknowledged' = IF reply[c].type = "Stored" /\ ~request[c].cluster
                       THEN acknowledged \cup {Acknowledgement(c)}
                       ELSE acknowledged

(* The job comes back with an error or, at the end of the connection, with   *)
(* part of an answer.                                                       *)
Fails(c) ==
    /\ pc[c] \in {"job", "executed"}
    /\ \/ Answers(c, FailureOf(request[c], target[c]))
       \/ Answers(c, Returned(Result("None", Absent, target[c]), "none"))
    /\ UNCHANGED acknowledged

CallerStep(c) ==
    \/ Begins(c) \/ Rejects(c) \/ Refuses(c) \/ FindsNone(c) \/ Accepts(c) \/ Routes(c)
    \/ Visits(c) \/ Executes(c) \/ Succeeds(c) \/ Fails(c)

Next ==
    /\ ~panicked
    /\ \/ Publishes
       \/ SetsFlag
       \/ \E n \in Nodes : PoolGoesDown(n)
       \/ \E c \in Callers : CallerStep(c)

Spec == Init /\ [][Next]_vars

-----------------------------------------------------------------------------
Data == Legacy \cup {Absent} \cup UNION {{r.value, Rendered(r).value} : r \in Requests}
Types == {"Stored", "NotStored", "Found", "NotFound", "Deleted", "Error", "None",
          "DecompressionError"}
ServerAnswers == [type : Types, data : Data]
Results == [type : Types, data : Data, node : Nodes \cup {Nothing}]
ASSUME NothingAssumption == Nothing \notin Results
Errors == {"none", "job", "decompression", "ErrInvalidKeyFormat", "ErrNoAvailableNodes",
           "ErrTelnetConnectionIsClosed"}

TypeOK ==
    /\ table \in Seq(Nodes)
    /\ down \subseteq Nodes
    /\ notAvailable \in BOOLEAN
    /\ publishing \in BOOLEAN
    /\ published \in 0 .. MaxPublished
    /\ store \in [Nodes -> [Keys -> Data]]
    /\ behind \in [Shared -> Seq(Nat)]
    /\ calls \in 0 .. MaxCalls
    /\ pc \in [Callers -> {"idle", "validate", "route", "loop", "job", "executed"}]
    /\ request \in [Callers -> Requests]
    /\ numNodes \in [Callers -> Nat]
    /\ answers \in [Callers -> Seq([result : Results \cup {Nothing}, error : Errors])]
    /\ target \in [Callers -> Nodes \cup {Nothing}]
    /\ \A c \in Callers : pc[c] \in {"job", "executed"} => target[c] \in Nodes
    /\ reply \in [Callers -> ServerAnswers \cup {Nothing}]
    /\ undisturbed \in [Callers -> BOOLEAN]
    /\ seen \in [Callers -> SUBSET Nodes]
    /\ acknowledged \subseteq [key : Keys, hash : Seq(Nat), nodes : SUBSET Nodes, node : Nodes]
    /\ panicked \in BOOLEAN

(* No command is rendered with a key that is empty, too long or broken by a *)
(* space or a line break, wherever path and key are divided, provided that   *)
(* goroutines do not share a path with room behind it for a key that is bad. *)
KeysAreLegal ==
    \A c \in Callers :
        pc[c] \in {"route", "loop", "job", "executed"} /\ request[c].name # "version" =>
            LET k == Composite(request[c])
            IN  Len(k) \in 1 .. MaxKeyLength /\ Blank \notin Range(k)

(* A key is looked for where it was stored, however the caller divides it    *)
(* into path and key and whatever tables were published since: whenever the  *)
(* same nodes are connected the same node is chosen.                        *)
RoutingIsStable ==
    \A c \in Callers :
        pc[c] = "job" /\ ~request[c].cluster /\ request[c].name # "version" =>
            \A a \in acknowledged :
                /\ a.key = Composite(request[c])
                /\ a.hash = request[c].hash
                /\ a.nodes = seen[c]
                => a.node = target[c]

(* A cluster operation returns a result or an error for every node, those   *)
(* after a failed one included, and in the order of the table if no other    *)
(* was published in the meantime.                                           *)
ClusterAnswersForEachNode ==
    \A c \in Callers :
        pc[c] = "idle" =>
            /\ request[c].cluster => Len(answers[c]) = numNodes[c]
            /\ request[c].cluster /\ undisturbed[c] =>
                 /\ numNodes[c] = Len(table)
                 /\ \A i \in DOMAIN answers[c] :
                      answers[c][i].result # Nothing => answers[c][i].result.node = table[i]
            /\ \A i \in DOMAIN answers[c] :
                 answers[c][i].result # Nothing \/ answers[c][i].error # "none"

(* Get returns the bytes somebody gave to Set or Add, encoded and decoded in *)
(* between, and fails to decode only what was not encoded by this client.    *)
DataIsTrue ==
    \A c \in Callers : \A i \in DOMAIN answers[c] :
        LET r == answers[c][i].result
        IN  r # Nothing /\ request[c].name = "get" =>
                /\ r.type = "Found" => r.data \in {q.value : q \in Requests}
                                                   \cup {d \in Legacy : CompressionType = "none"}
                /\ r.type = "DecompressionError" => r.data \in Legacy

(* A table that is emptied under the feet of a single-node operation gives   *)
(* an error; only the loop of a cluster operation can index past its end.   *)
OnlyClusterCallsPanic ==
    panicked => \E c \in Callers :
                    pc[c] = "loop" /\ request[c].cluster /\ Len(table) < numNodes[c]
=============================================================================
