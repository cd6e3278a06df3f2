-------------------------- MODULE OperationsProofs --------------------------
(***************************************************************************)
(* Theorems about Operations, for all callers, requests, lists of nodes,   *)
(* data, kinds of compression and bounds.                                  *)
(***************************************************************************)
EXTENDS Operations, HostOrderProofs

-----------------------------------------------------------------------------
(* Compression and decompression are each other's inverse ...               *)
LEMMA LayersComeOff ==
           /\ IsSuffix(Layers, <<>> \o Layers)
           /\ SubSeq(<<>> \o Layers, 1, Len(<<>> \o Layers) - Len(Layers)) = <<>>
           /\ IsSuffix(Layers, <<>>) => Layers = <<>>
  <1>1. CASE CompressionType = "none"
    <2>1. Layers = <<>>
      BY <1>1 DEF Layers
    <2> QED
      BY <2>1 DEF IsSuffix, IsPrefix, Reverse
  <1>2. CASE CompressionType = "base64"
    <2>1. Layers = <<"base64">>
      BY <1>2 DEF Layers
    <2> QED
      BY <2>1 DEF IsSuffix, IsPrefix, Reverse
  <1>3. CASE CompressionType = "zstandard"
    <2>1. Layers = <<"base64", "zstandard">>
      BY <1>3 DEF Layers
    <2> QED
      BY <2>1 DEF IsSuffix, IsPrefix, Reverse
  <1> QED
    BY <1>1, <1>2, <1>3, CompressionAssumption

LEMMA RawIsDecoded ==
    ASSUME NEW v, Raw(v) # Empty
    PROVE  /\ Decompresses(Compress(Raw(v)))
           /\ Decompress(Compress(Raw(v))) = Raw(v)
           /\ Decompresses(Raw(v)) => Layers = <<>> /\ Decompress(Raw(v)) = Raw(v)
  <1>1. Compress(Raw(v)) = [value |-> v, layers |-> <<>> \o Layers]
    BY DEF Compress, Raw
  <1>2. Decompresses(Compress(Raw(v))) /\ Decompress(Compress(Raw(v))) = Raw(v)
    BY <1>1, LayersComeOff DEF Decompresses, Decompress, Raw
  <1>3. ASSUME Decompresses(Raw(v)) PROVE Layers = <<>> /\ Decompress(Raw(v)) = Raw(v)
    <2>1. Layers = <<>>
      BY <1>3, LayersComeOff DEF Decompresses, Raw
    <2> QED
      BY <2>1 DEF Decompress, Raw
  <1> QED
    BY <1>2, <1>3

(* What a server may hold: nothing, what it held at the beginning, or what   *)
(* a store has compressed.                                                   *)
Stores == {r \in Requests : IsStore(r)}
Given == {r.value : r \in Requests}
Cells == Legacy \cup {Absent} \cup {Compress(r.value) : r \in Stores}

LEMMA CellsAreData == Cells \subseteq Data
  BY DEF Cells, Data, Stores, Rendered

(* What is read from it is decoded to what was given to the store, unless    *)
(* it was there before.                                                      *)
LEMMA CellsAreDecoded ==
    ASSUME NEW data \in Cells, data # Absent, data # Empty
    PROVE  /\ Decompresses(data) =>
                Decompress(data) \in Given \cup {d \in Legacy : CompressionType = "none"}
           /\ ~Decompresses(data) => data \in Legacy
  <1>1. CASE data \in Legacy
    <2>1. data = Raw(data.value)
      BY <1>1, ValuesAssumption
    <2>2. Decompresses(data) => Layers = <<>> /\ Decompress(data) = data
      BY <2>1, RawIsDecoded
    <2>3. Layers = <<>> => CompressionType = "none"
      BY CompressionAssumption DEF Layers
    <2> QED
      BY <1>1, <2>2, <2>3
  <1>2. ASSUME NEW r \in Stores, data = Compress(r.value)
        PROVE  Decompresses(data) /\ Decompress(data) \in Given
    <2>1. r.value # Empty
      BY <1>2 DEF Compress
    <2>2. r.value = Raw(r.value.value)
      BY <2>1, ValuesAssumption DEF Stores
    <2>3. Decompresses(data) /\ Decompress(data) = r.value
      BY <1>2, <2>1, <2>2, RawIsDecoded
    <2> QED
      BY <2>3 DEF Stores, Given
  <1> QED
    BY <1>1, <1>2 DEF Cells

-----------------------------------------------------------------------------
(* What a server answers and keeps.                                          *)
Truthful(a) ==
    a.type = "NotFound" \/ (a.type = "Found" /\ a.data \in Cells \ {Absent})

LEMMA ServerActs ==
    ASSUME NEW r \in Requests, NEW s \in Cells
    PROVE  /\ ServerReply(r, s) \in ServerAnswers
           /\ r.name = "get" => Truthful(ServerReply(r, s))
           /\ ServerReply(r, s).type = "Stored" => IsStore(r)
           /\ ServerStore(r, s) \in Cells
  <1>1. r.name \in Names /\ s \in Data /\ Absent \in Data /\ Absent \in Cells
    BY RequestsAssumption, CellsAreData DEF Data, Cells
  <1>2. Rendered(r).name = r.name
    BY DEF Rendered
  <1>3. IsStore(r) => Rendered(r).value \in Cells
    BY DEF Rendered, Cells, Stores
  <1>4. \A t : Plain(t) = [type |-> t, data |-> Absent]
    BY DEF Plain
  <1>5. CASE r.name = "version"
    <2>1. ServerReply(r, s) = [type |-> "Found", data |-> Absent]
      BY <1>4, <1>5 DEF ServerReply
    <2>2. ServerStore(r, s) = s
      BY <1>2, <1>5 DEF ServerStore, StoreAfter
    <2> QED
      BY <1>1, <1>5, <2>1, <2>2 DEF ServerAnswers, Types
  <1>6. CASE r.name = "set"
    <2>1. ServerReply(r, s) = [type |-> "Stored", data |-> Absent]
      BY <1>2, <1>4, <1>6 DEF ServerReply, ReplyTo
    <2>2. ServerStore(r, s) = Rendered(r).value
      BY <1>2, <1>6 DEF ServerStore, StoreAfter
    <2> QED
      BY <1>1, <1>3, <1>6, <2>1, <2>2 DEF ServerAnswers, Types, IsStore
  <1>7. CASE r.name = "add"
    <2>1. ServerReply(r, s) = [type |-> IF s = Absent THEN "Stored" ELSE "NotStored",
                               data |-> Absent]
      BY <1>2, <1>4, <1>7 DEF ServerReply, ReplyTo
    <2>2. ServerStore(r, s) = IF s = Absent THEN Rendered(r).value ELSE s
      BY <1>2, <1>7 DEF ServerStore, StoreAfter
    <2> QED
      BY <1>1, <1>3, <1>7, <2>1, <2>2 DEF ServerAnswers, Types, IsStore
  <1>8. CASE r.name = "delete"
    <2>1. ServerReply(r, s) = [type |-> IF s = Absent THEN "NotFound" ELSE "Deleted",
                               data |-> Absent]
      BY <1>2, <1>4, <1>8 DEF ServerReply, ReplyTo
    <2>2. ServerStore(r, s) = Absent
      BY <1>2, <1>8 DEF ServerStore, StoreAfter
    <2> QED
      BY <1>1, <1>8, <2>1, <2>2 DEF ServerAnswers, Types
  <1>9. CASE r.name = "get"
    <2>1. ServerReply(r, s) = IF s = Absent THEN [type |-> "NotFound", data |-> Absent]
                              ELSE [type |-> "Found", data |-> s]
      BY <1>2, <1>4, <1>9 DEF ServerReply, ReplyTo
    <2>2. ServerStore(r, s) = s
      BY <1>2, <1>9 DEF ServerStore, StoreAfter
    <2> QED
      BY <1>1, <1>9, <2>1, <2>2 DEF ServerAnswers, Types, Truthful
  <1> QED
    BY <1>1, <1>5, <1>6, <1>7, <1>8, <1>9 DEF Names

(* What an operation may return, for a position, when it says so truly.      *)
Outcomes == [result : Results \cup {Nothing}, error : Errors]
IsTrue(r, a) ==
    a.result # Nothing /\ r.name = "get" =>
        /\ a.result.type = "Found" =>
             a.result.data \in Given \cup {d \in Legacy : CompressionType = "none"}
        /\ a.result.type = "DecompressionError" => a.result.data \in Legacy
From(a, node) == a.result # Nothing => a.result.node = node
Says(a) == a.result # Nothing \/ a.error # "none"

LEMMA OutcomeOf ==
    ASSUME NEW type \in Types, NEW data \in Data, NEW node \in Nodes \cup {Nothing},
           NEW error \in Errors
    PROVE  /\ Returned(Result(type, data, node), error) \in Outcomes
           /\ Returned(Result(type, data, node), error).result = Result(type, data, node)
           /\ Result(type, data, node).type = type
           /\ Result(type, data, node).data = data
           /\ Result(type, data, node).node = node
           /\ Says(Returned(Result(type, data, node), error))
           /\ From(Returned(Result(type, data, node), error), node)
  <1>1. Result(type, data, node) \in Results
    BY DEF Result, Results
  <1> QED
    BY <1>1, NothingAssumption DEF Returned, Result, Outcomes, Says, From

LEMMA FailureOutcome ==
    ASSUME NEW error \in Errors \ {"none"}
    PROVE  /\ Failure(error) \in Outcomes
           /\ Failure(error).result = Nothing
           /\ Says(Failure(error))
  BY DEF Failure, Returned, Outcomes, Says

LEMMA AnswersAreTrue ==
    ASSUME NEW r \in Requests, NEW a \in ServerAnswers, NEW node \in Nodes,
           r.name = "get" => Truthful(a)
    PROVE  /\ AnswerTo(r, a, node) \in Outcomes
           /\ IsTrue(r, AnswerTo(r, a, node))
           /\ From(AnswerTo(r, a, node), node)
           /\ Says(AnswerTo(r, a, node))
  <1>1. /\ a.type \in Types /\ a.data \in Data /\ Absent \in Data
        /\ "none" \in Errors /\ "decompression" \in Errors
        /\ {"Found", "NotFound", "DecompressionError"} \subseteq Types
    BY DEF ServerAnswers, Data, Errors, Types
  <1>2. CASE r.name # "get"
    <2>1. AnswerTo(r, a, node) = Returned(Result(a.type, a.data, node), "none")
      BY <1>2 DEF AnswerTo
    <2> QED
      BY <1>1, <1>2, <2>1, OutcomeOf DEF IsTrue
  <1>3. CASE r.name = "get" /\ a.type # "Found"
    <2>1. AnswerTo(r, a, node) = Returned(Result(a.type, a.data, node), "none")
      BY <1>3 DEF AnswerTo
    <2>2. a.type = "NotFound"
      BY <1>3 DEF Truthful
    <2> QED
      BY <1>1, <1>3, <2>1, <2>2, OutcomeOf DEF IsTrue
  <1>4. CASE r.name = "get" /\ a.type = "Found" /\ a.data = Empty
    <2>1. AnswerTo(r, a, node) = Returned(Result("NotFound", Absent, node), "none")
      BY <1>4 DEF AnswerTo
    <2> QED
      BY <1>1, <2>1, OutcomeOf DEF IsTrue
  <1>5. CASE r.name = "get" /\ a.type = "Found" /\ a.data # Empty /\ Decompresses(a.data)
    <2>1. AnswerTo(r, a, node) = Returned(Result("Found", Decompress(a.data), node), "none")
      BY <1>5 DEF AnswerTo
    <2>2. Decompress(a.data) \in Given \cup {d \in Legacy : CompressionType = "none"}
      BY <1>5, CellsAreDecoded DEF Truthful
    <2>3. Decompress(a.data) \in Data
      BY <2>2 DEF Data, Given
    <2> QED
      BY <1>1, <2>1, <2>2, <2>3, OutcomeOf DEF IsTrue
  <1>6. CASE r.name = "get" /\ a.type = "Found" /\ a.data # Empty /\ ~Decompresses(a.data)
    <2>1. AnswerTo(r, a, node) = Returned(Result("DecompressionError", a.data, node),
                                          "decompression")
      BY <1>6 DEF AnswerTo
    <2>2. a.data \in Legacy
      BY <1>6, CellsAreDecoded DEF Truthful
    <2> QED
      BY <1>1, <2>1, <2>2, OutcomeOf DEF IsTrue
  <1> QED
    BY <1>2, <1>3, <1>4, <1>5, <1>6

LEMMA FailuresAreTrue ==
    ASSUME NEW r \in Requests, NEW node \in Nodes
    PROVE  \A a \in {FailureOf(r, node), Returned(Result("None", Absent, node), "none")} :
             a \in Outcomes /\ IsTrue(r, a) /\ From(a, node) /\ Says(a)
  <1>1. /\ {"None", "Error"} \subseteq Types /\ Absent \in Data
        /\ {"none", "job"} \subseteq Errors
    BY DEF Types, Data, Errors
  <1>2. \/ FailureOf(r, node) = Failure("job")
        \/ FailureOf(r, node) = Returned(Result("Error", Absent, node), "job")
    BY DEF FailureOf
  <1>3. /\ Failure("job") \in Outcomes
        /\ Says(Failure("job"))
        /\ IsTrue(r, Failure("job")) /\ From(Failure("job"), node)
    BY <1>1, FailureOutcome DEF IsTrue, From
  <1>4. ASSUME NEW type \in {"None", "Error"}, NEW error \in {"none", "job"}
        PROVE  LET a == Returned(Result(type, Absent, node), error)
               IN  a \in Outcomes /\ IsTrue(r, a) /\ From(a, node) /\ Says(a)
    BY <1>1, OutcomeOf DEF IsTrue
  <1> QED
    BY <1>2, <1>3, <1>4

-----------------------------------------------------------------------------
(* Types.                                                                    *)
LEMMA ConstantsTyped ==
    /\ Nodes \subseteq Nat
    /\ Host \in [Nodes -> Nat]
    /\ \A list \in Lists : list \in Seq(Nodes) /\ IsInjective(list)
    /\ \A r \in Requests : {r.hash, r.path, r.key} \subseteq Seq(Nat) /\ Composite(r) \in Keys
  <1>1. \A list \in Lists : Range(list) \subseteq Nat /\ list \in Seq(Range(list))
    BY ListsAssumption, RangeOfSeq, SeqOfRange
  <1>2. \A list \in Lists : Range(list) \subseteq Nodes
    BY DEF Nodes
  <1>3. Nodes \subseteq Nat
    BY <1>1 DEF Nodes
  <1>4. \A list \in Lists : list \in Seq(Nodes)
    BY <1>1, <1>2, SeqMonotonic
  <1> QED
    BY <1>3, <1>4, ListsAssumption, RequestsAssumption DEF Host, Keys

LEMMA TablesTyped ==
    \A list \in Lists : SortByHost(list, Host) \in Seq(Nodes)
  <1> TAKE list \in Lists
  <1>1. list \in Seq(Nodes) /\ Host \in [Nodes -> Nat]
    BY ConstantsTyped
  <1>2. \A i \in 1 .. Len(list) : Host[list[i]] \in Nat
    BY <1>1
  <1> QED
    BY <1>1, <1>2, SortPermutes

(* The byte a table is indexed with. *)
LEMMA RoutersAreBytes ==
    ASSUME TypeOK, NEW r \in Requests, table # <<>>, NEW byte \in Routers(r)
    PROVE  byte \in Nat /\ (byte % Len(table)) + 1 \in 1 .. Len(table)
  <1>1. Len(table) \in Nat \ {0}
    BY DEF TypeOK
  <1>2. r.hash \in Seq(Nat) /\ r.path \in Seq(Nat) /\ r.key \in Seq(Nat)
    BY ConstantsTyped
  <1>3. byte \in Nat
    <2>1. CASE r.hash # <<>>
      BY <1>2, <2>1 DEF Routers, Last
    <2>2. CASE r.hash = <<>> /\ r.key # <<>>
      BY <1>2, <2>2 DEF Routers, Last
    <2>3. CASE r.hash = <<>> /\ r.key = <<>> /\ r.path # <<>>
      BY <1>2, <2>3 DEF Routers, Last
    <2>4. CASE r.hash = <<>> /\ r.key = <<>> /\ r.path = <<>>
      <3>1. Routers(r) = 0 .. Len(table) - 1
        BY <2>4 DEF Routers
      <3> QED
        BY <1>1, <3>1
    <2> QED
      BY <2>1, <2>2, <2>3, <2>4
  <1> QED
    BY <1>1, <1>3

-----------------------------------------------------------------------------
(* What the servers hold, what they answer, and what is made of it.          *)
DataInv ==
    /\ \A n \in Nodes : \A k \in Keys : store[n][k] \in Cells
    /\ \A c \in Callers :
         pc[c] = "executed" =>
             /\ reply[c] \in ServerAnswers
             /\ request[c].name = "get" => Truthful(reply[c])
             /\ reply[c].type = "Stored" => IsStore(request[c])
    /\ \A c \in Callers : \A i \in DOMAIN answers[c] : IsTrue(request[c], answers[c][i])

(* An operation that adds an outcome to its answers. *)
LEMMA AnswersTyped ==
    ASSUME TypeOK, NEW c \in Callers, NEW a \in Outcomes
    PROVE  /\ answers \in [Callers -> Seq(Outcomes)]
           /\ [answers EXCEPT ![c] = Append(@, a)] \in [Callers -> Seq(Outcomes)]
  <1>1. answers \in [Callers -> Seq(Outcomes)]
    BY DEF TypeOK, Outcomes
  <1>2. Append(answers[c], a) \in Seq(Outcomes)
    BY <1>1
  <1> QED
    BY <1>1, <1>2

LEMMA GivesJobTyped ==
    ASSUME TypeOK, NEW c \in Callers, NEW i \in 1 .. Len(table), GivesJob(c, i),
           pc[c] \in {"route", "loop"}
    PROVE  /\ answers' \in [Callers -> Seq(Outcomes)]
           /\ pc' \in [Callers -> {"idle", "validate", "route", "loop", "job", "executed"}]
           /\ target' \in [Callers -> Nodes \cup {Nothing}]
           /\ \A d \in Callers : pc'[d] \in {"job", "executed"} => target'[d] \in Nodes
           /\ seen' \in [Callers -> SUBSET Nodes]
  <1>1. table[i] \in Nodes /\ Range(table) \subseteq Nodes
    BY RangeOfSeq DEF TypeOK
  <1>2. CASE table[i] \in down
    <2>1. Failure("ErrTelnetConnectionIsClosed") \in Outcomes
      BY FailureOutcome DEF Errors
    <2>2. answers' = [answers EXCEPT ![c] = Append(@, Failure("ErrTelnetConnectionIsClosed"))]
      BY <1>2 DEF GivesJob
    <2>3. answers' \in [Callers -> Seq(Outcomes)]
      BY <2>1, <2>2, AnswersTyped
    <2> QED
      BY <1>2, <2>3 DEF GivesJob, TypeOK
  <1>3. CASE table[i] \notin down
    <2>1. answers' \in [Callers -> Seq(Outcomes)]
      BY <1>3 DEF GivesJob, TypeOK, Outcomes
    <2>2. seen' \in [Callers -> SUBSET Nodes]
      BY <1>1, <1>3 DEF GivesJob, TypeOK
    <2>3. target' = [target EXCEPT ![c] = table[i]] /\ pc' = [pc EXCEPT ![c] = "job"]
      BY <1>3 DEF GivesJob
    <2>4. \A d \in Callers : pc'[d] \in {"job", "executed"} => target'[d] \in Nodes
      BY <1>1, <2>3 DEF TypeOK
    <2> QED
      BY <1>1, <2>1, <2>2, <2>3, <2>4 DEF TypeOK
  <1> QED
    BY <1>2, <1>3

LEMMA ReturnsTyped ==
    ASSUME TypeOK, NEW c \in Callers, NEW as \in Seq(Outcomes), Returns(c, as)
    PROVE  TypeOK'
  BY DEF TypeOK, Returns, tableVars, jobVars, callVars, Outcomes

LEMMA AnswersStepTyped ==
    ASSUME TypeOK, NEW c \in Callers, NEW a \in Outcomes, Answers(c, a),
           acknowledged' \subseteq [key : Keys, hash : Seq(Nat), nodes : SUBSET Nodes, node : Nodes]
    PROVE  TypeOK'
  <1>1. answers' \in [Callers -> Seq(Outcomes)]
    BY AnswersTyped DEF Answers
  <1>2. /\ pc' \in [Callers -> {"idle", "validate", "route", "loop", "job", "executed"}]
        /\ target' \in [Callers -> Nodes \cup {Nothing}]
        /\ \A d \in Callers : pc'[d] \in {"job", "executed"} => target'[d] \in Nodes
    BY DEF Answers, TypeOK
  <1>3. reply' \in [Callers -> ServerAnswers \cup {Nothing}] /\ seen' \in [Callers -> SUBSET Nodes]
    BY DEF Answers, TypeOK
  <1> QED
    BY <1>1, <1>2, <1>3 DEF Answers, TypeOK, tableVars, callVars, Outcomes

(* Type correctness is preserved by every step. *)
LEMMA TypingStep == TypeOK /\ DataInv /\ [Next]_vars => TypeOK'
  <1> SUFFICES ASSUME TypeOK, DataInv, [Next]_vars PROVE TypeOK'
    OBVIOUS
  <1> USE DEF tableVars, jobVars, callVars
  <1>1. CASE Publishes
    <2>1. table' \in Seq(Nodes)
      BY <1>1, TablesTyped DEF Publishes
    <2>2. published' \in 0 .. MaxPublished
      BY <1>1, BoundsAssumption DEF Publishes, TypeOK
    <2> QED
      BY <1>1, <2>1, <2>2 DEF Publishes, TypeOK
  <1>2. CASE SetsFlag
    BY <1>2 DEF SetsFlag, TypeOK
  <1>3. ASSUME NEW n \in Nodes, PoolGoesDown(n) PROVE TypeOK'
    BY <1>3 DEF PoolGoesDown, TypeOK
  <1>4. ASSUME NEW c \in Callers, Begins(c) PROVE TypeOK'
    <2>1. PICK r \in Requests :
            /\ request' = [request EXCEPT ![c] = r]
            /\ numNodes' = [numNodes EXCEPT ![c] = IF r.cluster THEN Len(table) ELSE 1]
            /\ behind' = IF r.path \in Shared
                         THEN [behind EXCEPT ![r.path] =
                                   r.key \o SubSeq(@, Len(r.key) + 1, Len(@))]
                         ELSE behind
      BY <1>4 DEF Begins
    <2>2. r.key \in Seq(Nat)
      BY ConstantsTyped
    <2>3. behind' \in [Shared -> Seq(Nat)]
      <3>1. CASE r.path \in Shared
        <4>1. behind[r.path] \in Seq(Nat)
          BY <3>1 DEF TypeOK
        <4>2. r.key \o SubSeq(behind[r.path], Len(r.key) + 1, Len(behind[r.path])) \in Seq(Nat)
          BY <2>2, <4>1
        <4> QED
          BY <2>1, <3>1, <4>2 DEF TypeOK
      <3>2. CASE r.path \notin Shared
        BY <2>1, <3>2 DEF TypeOK
      <3> QED
        BY <3>1, <3>2
    <2>4. calls' \in 0 .. MaxCalls
      BY <1>4, BoundsAssumption DEF Begins, TypeOK
    <2>5. numNodes' \in [Callers -> Nat]
      BY <2>1 DEF TypeOK
    <2>6. answers' \in [Callers -> Seq(Outcomes)]
      <3>1. answers \in [Callers -> Seq(Outcomes)]
        BY DEF TypeOK, Outcomes
      <3> QED
        BY <1>4, <3>1 DEF Begins
    <2>7. /\ request' \in [Callers -> Requests]
          /\ pc' \in [Callers -> {"idle", "validate", "route", "loop", "job", "executed"}]
          /\ undisturbed' \in [Callers -> BOOLEAN]
          /\ \A d \in Callers : pc'[d] \in {"job", "executed"} => target'[d] \in Nodes
      BY <1>4, <2>1 DEF Begins, TypeOK
    <2> QED
      BY <1>4, <2>3, <2>4, <2>5, <2>6, <2>7 DEF Begins, TypeOK, Outcomes
  <1>5. ASSUME NEW c \in Callers, Rejects(c) PROVE TypeOK'
    <2>1. Failure("ErrInvalidKeyFormat") \in Outcomes
      BY FailureOutcome DEF Errors
    <2>2. numNodes[c] \in Nat
      BY DEF TypeOK
    <2>3. [i \in 1 .. numNodes[c] |-> Failure("ErrInvalidKeyFormat")] \in Seq(Outcomes)
      BY <2>1, <2>2
    <2> QED
      BY <1>5, <2>3, ReturnsTyped DEF Rejects
  <1>6. ASSUME NEW c \in Callers, Refuses(c) PROVE TypeOK'
    <2>1. Returned(Result("NotStored", Absent, Nothing), "none") \in Outcomes
      BY OutcomeOf DEF Types, Data, Errors
    <2>2. <<Returned(Result("NotStored", Absent, Nothing), "none")>> \in Seq(Outcomes)
      BY <2>1
    <2> QED
      BY <1>6, <2>2, ReturnsTyped DEF Refuses
  <1>7. ASSUME NEW c \in Callers, FindsNone(c) PROVE TypeOK'
    <2>1. Failure("ErrNoAvailableNodes") \in Outcomes
      BY FailureOutcome DEF Errors
    <2>2. <<Failure("ErrNoAvailableNodes")>> \in Seq(Outcomes)
      BY <2>1
    <2> QED
      BY <1>7, <2>2, ReturnsTyped DEF FindsNone
  <1>8. ASSUME NEW c \in Callers, Accepts(c) PROVE TypeOK'
    BY <1>8 DEF Accepts, TypeOK
  <1>9. ASSUME NEW c \in Callers, Routes(c) PROVE TypeOK'
    <2>1. CASE table = <<>>
      <3>1. <<Failure("ErrNoAvailableNodes")>> \in Seq(Outcomes)
        BY FailureOutcome DEF Errors
      <3>2. answers' \in [Callers -> Seq(Outcomes)]
        BY <1>9, <2>1, <3>1 DEF Routes, TypeOK, Outcomes
      <3> QED
        BY <1>9, <2>1, <3>2 DEF Routes, TypeOK, Outcomes
    <2>2. CASE table # <<>>
      <3>1. PICK byte \in Routers(request[c]) : GivesJob(c, (byte % Len(table)) + 1)
        BY <1>9, <2>2 DEF Routes
      <3>2. (byte % Len(table)) + 1 \in 1 .. Len(table)
        BY <2>2, RoutersAreBytes DEF TypeOK
      <3> QED
        BY <1>9, <3>1, <3>2, GivesJobTyped DEF Routes, TypeOK, Outcomes
    <2> QED
      BY <2>1, <2>2
  <1>10. ASSUME NEW c \in Callers, Visits(c) PROVE TypeOK'
    <2> DEFINE i == Len(answers[c]) + 1
    <2>1. i \in Nat \ {0} /\ Len(table) \in Nat
      BY DEF TypeOK
    <2>2. CASE i > numNodes[c]
      BY <1>10, <2>2 DEF Visits, TypeOK
    <2>3. CASE ~(i > numNodes[c]) /\ i > Len(table)
      BY <1>10, <2>3 DEF Visits, Panics, TypeOK
    <2>4. CASE ~(i > numNodes[c]) /\ ~(i > Len(table))
      <3>1. GivesJob(c, i) /\ i \in 1 .. Len(table)
        BY <1>10, <2>1, <2>4 DEF Visits
      <3> QED
        BY <1>10, <2>4, <3>1, GivesJobTyped DEF Visits, TypeOK, Outcomes
    <2> QED
      BY <2>2, <2>3, <2>4
  <1>11. ASSUME NEW c \in Callers, Executes(c) PROVE TypeOK'
    <2> DEFINE r == request[c]
               k == Composite(r)
               n == target[c]
    <2>1. r \in Requests /\ k \in Keys /\ n \in Nodes
      BY <1>11, ConstantsTyped DEF Executes, TypeOK
    <2>2. store[n][k] \in Cells
      BY <2>1 DEF DataInv
    <2>3. ServerReply(r, store[n][k]) \in ServerAnswers /\ ServerStore(r, store[n][k]) \in Data
      BY <2>1, <2>2, ServerActs, CellsAreData
    <2>4. reply' \in [Callers -> ServerAnswers \cup {Nothing}]
      BY <1>11, <2>3 DEF Executes, TypeOK
    <2>5. store' \in [Nodes -> [Keys -> Data]]
      BY <1>11, <2>1, <2>3 DEF Executes, TypeOK
    <2> QED
      BY <1>11, <2>4, <2>5 DEF Executes, TypeOK
  <1>12. ASSUME NEW c \in Callers, Succeeds(c) PROVE TypeOK'
    <2>1. request[c] \in Requests /\ target[c] \in Nodes /\ seen[c] \in SUBSET Nodes
      BY <1>12 DEF Succeeds, TypeOK
    <2>2. AnswerTo(request[c], reply[c], target[c]) \in Outcomes
      BY <1>12, <2>1, AnswersAreTrue DEF Succeeds, DataInv
    <2>3. Acknowledgement(c) \in [key : Keys, hash : Seq(Nat), nodes : SUBSET Nodes, node : Nodes]
      BY <2>1, ConstantsTyped DEF Acknowledgement
    <2>4. acknowledged' \subseteq [key : Keys, hash : Seq(Nat), nodes : SUBSET Nodes, node : Nodes]
      BY <1>12, <2>3 DEF Succeeds, TypeOK
    <2> QED
      BY <1>12, <2>2, <2>4, AnswersStepTyped DEF Succeeds
  <1>13. ASSUME NEW c \in Callers, Fails(c) PROVE TypeOK'
    <2>1. request[c] \in Requests /\ target[c] \in Nodes
      BY <1>13 DEF Fails, TypeOK
    <2>2. PICK a \in {FailureOf(request[c], target[c]),
                      Returned(Result("None", Absent, target[c]), "none")} : Answers(c, a)
      BY <1>13 DEF Fails
    <2>3. a \in Outcomes
      BY <2>1, <2>2, FailuresAreTrue
    <2> QED
      BY <1>13, <2>2, <2>3, AnswersStepTyped DEF Fails, TypeOK
  <1>14. CASE UNCHANGED vars
    BY <1>14 DEF vars, TypeOK
  <1> QED
    BY <1>1, <1>2, <1>3, <1>4, <1>5, <1>6, <1>7, <1>8, <1>9, <1>10, <1>11, <1>12, <1>13, <1>14
    DEF Next, CallerStep

LEMMA TypingInit == Init => TypeOK
  <1> SUFFICES ASSUME Init PROVE TypeOK
    OBVIOUS
  <1>1. table \in Seq(Nodes)
    BY TablesTyped DEF Init
  <1>2. store \in [Nodes -> [Keys -> Data]]
    BY DEF Init, Data
  <1>3. request \in [Callers -> Requests]
    <2>1. (CHOOSE r \in Requests : TRUE) \in Requests
      BY RequestsAssumption
    <2> QED
      BY <2>1 DEF Init
  <1>4. published \in 0 .. MaxPublished /\ calls \in 0 .. MaxCalls
    BY BoundsAssumption DEF Init
  <1>5. /\ behind \in [Shared -> Seq(Nat)]
        /\ answers \in [Callers -> Seq([result : Results \cup {Nothing}, error : Errors])]
    BY DEF Init
  <1>6. /\ seen \in [Callers -> SUBSET Nodes]
        /\ pc \in [Callers -> {"idle", "validate", "route", "loop", "job", "executed"}]
        /\ \A c \in Callers : pc[c] \notin {"job", "executed"}
    BY DEF Init
  <1>7. notAvailable \in BOOLEAN
    BY DEF Init
  <1> QED
    BY <1>1, <1>2, <1>3, <1>4, <1>5, <1>6, <1>7 DEF Init, TypeOK

LEMMA DataInit == Init => DataInv
  <1> SUFFICES ASSUME Init PROVE DataInv
    OBVIOUS
  <1>1. \A n \in Nodes : \A k \in Keys : store[n][k] \in Cells
    BY DEF Init, Cells
  <1>2. \A c \in Callers : pc[c] = "idle" /\ answers[c] = <<>>
    BY DEF Init
  <1> QED
    BY <1>1, <1>2 DEF DataInv

(* A step of c that adds a true answer or none, or begins anew.              *)
LEMMA AnswersStayTrue ==
    ASSUME TypeOK, DataInv, NEW c \in Callers, NEW a, IsTrue(request[c], a),
           UNCHANGED request,
           \/ answers' = [answers EXCEPT ![c] = Append(@, a)]
           \/ answers' = answers
    PROVE  \A d \in Callers : \A i \in DOMAIN answers'[d] : IsTrue(request'[d], answers'[d][i])
  <1>1. answers[c] \in Seq(Outcomes) /\ answers \in [Callers -> Seq(Outcomes)]
    BY DEF TypeOK, Outcomes
  <1>2. ASSUME NEW i \in DOMAIN answers'[c] PROVE IsTrue(request'[c], answers'[c][i])
    <2>1. CASE answers' = answers
      BY <2>1, <1>2 DEF DataInv
    <2>2. CASE answers' = [answers EXCEPT ![c] = Append(@, a)]
      <3>1. answers'[c] = Append(answers[c], a)
        BY <1>1, <2>2
      <3>2. i \in DOMAIN answers[c] \/ answers'[c][i] = a
        BY <1>1, <1>2, <3>1
      <3>3. i \in DOMAIN answers[c] => answers'[c][i] = answers[c][i]
        BY <1>1, <3>1
      <3> QED
        BY <3>2, <3>3 DEF DataInv
    <2> QED
      BY <2>1, <2>2
  <1>3. \A d \in Callers \ {c} : answers'[d] = answers[d] /\ request'[d] = request[d]
    BY <1>1
  <1> QED
    BY <1>2, <1>3 DEF DataInv

LEMMA FailuresSayNothing ==
    ASSUME NEW r, NEW error \in Errors \ {"none"}
    PROVE  IsTrue(r, Failure(error))
  BY FailureOutcome DEF IsTrue

LEMMA GivesJobTruly ==
    ASSUME TypeOK, DataInv, NEW c \in Callers, NEW i, GivesJob(c, i),
           UNCHANGED <<store, request, reply>>
    PROVE  DataInv'
  <1>1. IsTrue(request[c], Failure("ErrTelnetConnectionIsClosed"))
    BY FailuresSayNothing DEF Errors
  <1>2. \/ answers' = [answers EXCEPT ![c] = Append(@, Failure("ErrTelnetConnectionIsClosed"))]
        \/ answers' = answers
    BY DEF GivesJob
  <1>3. \A d \in Callers : pc'[d] = "executed" => pc[d] = "executed"
    BY DEF GivesJob, TypeOK
  <1> QED
    BY <1>1, <1>2, <1>3, AnswersStayTrue DEF DataInv

LEMMA ReturnsTruly ==
    ASSUME TypeOK, DataInv, NEW c \in Callers, NEW as, Returns(c, as),
           \A i \in DOMAIN as : IsTrue(request[c], as[i])
    PROVE  DataInv'
  <1>1. UNCHANGED <<store, request, reply>>
    BY DEF Returns, jobVars, callVars
  <1>2. \A d \in Callers : pc'[d] = "executed" => pc[d] = "executed"
    BY DEF Returns, TypeOK
  <1>3. \A d \in Callers : answers'[d] = IF d = c THEN as ELSE answers[d]
    BY DEF Returns, TypeOK
  <1> QED
    BY <1>1, <1>2, <1>3 DEF DataInv

LEMMA AnswersTruly ==
    ASSUME TypeOK, DataInv, NEW c \in Callers, NEW a, Answers(c, a), IsTrue(request[c], a)
    PROVE  DataInv'
  <1>1. UNCHANGED <<store, request>>
    BY DEF Answers, callVars
  <1>2. \A d \in Callers : pc'[d] = "executed" => pc[d] = "executed" /\ reply'[d] = reply[d]
    BY DEF Answers, TypeOK
  <1>3. answers' = [answers EXCEPT ![c] = Append(@, a)]
    BY DEF Answers
  <1> QED
    BY <1>1, <1>2, <1>3, AnswersStayTrue DEF DataInv

LEMMA DataStep == TypeOK /\ DataInv /\ [Next]_vars => DataInv'
  <1> SUFFICES ASSUME TypeOK, DataInv, [Next]_vars PROVE DataInv'
    OBVIOUS
  <1> USE DEF tableVars, jobVars, callVars
  <1>1. CASE Publishes \/ SetsFlag \/ (\E n \in Nodes : PoolGoesDown(n)) \/ UNCHANGED vars
    <2>1. UNCHANGED <<store, pc, request, reply, answers>>
      BY <1>1 DEF Publishes, SetsFlag, PoolGoesDown, vars
    <2> QED
      BY <2>1 DEF DataInv
  <1>2. ASSUME NEW c \in Callers, Begins(c) PROVE DataInv'
    <2>1. \A d \in Callers : pc'[d] = "executed" => pc[d] = "executed" /\ d # c
      BY <1>2 DEF Begins, TypeOK
    <2>2. \A d \in Callers \ {c} : request'[d] = request[d] /\ answers'[d] = answers[d]
      BY <1>2 DEF Begins, TypeOK
    <2>3. answers'[c] = <<>>
      BY <1>2 DEF Begins, TypeOK
    <2>4. UNCHANGED <<store, reply>>
      BY <1>2 DEF Begins
    <2> QED
      BY <2>1, <2>2, <2>3, <2>4 DEF DataInv
  <1>3. ASSUME NEW c \in Callers, Rejects(c) PROVE DataInv'
    BY <1>3, ReturnsTruly, FailuresSayNothing DEF Rejects, Errors
  <1>4. ASSUME NEW c \in Callers, Refuses(c) PROVE DataInv'
    <2>1. request[c].name # "get"
      BY <1>4 DEF Refuses, StoresNothing, IsStore
    <2>2. \A a : IsTrue(request[c], a)
      BY <2>1 DEF IsTrue
    <2> QED
      BY <1>4, <2>2, ReturnsTruly DEF Refuses
  <1>5. ASSUME NEW c \in Callers, FindsNone(c) PROVE DataInv'
    BY <1>5, ReturnsTruly, FailuresSayNothing DEF FindsNone, Errors
  <1>6. ASSUME NEW c \in Callers, Accepts(c) PROVE DataInv'
    <2>1. UNCHANGED <<store, request, reply, answers>>
      BY <1>6 DEF Accepts
    <2>2. \A d \in Callers : pc'[d] = "executed" => pc[d] = "executed"
      BY <1>6 DEF Accepts, TypeOK
    <2> QED
      BY <2>1, <2>2 DEF DataInv
  <1>7. ASSUME NEW c \in Callers, Routes(c) PROVE DataInv'
    <2>1. UNCHANGED <<store, request, reply>>
      BY <1>7 DEF Routes
    <2>2. CASE table = <<>>
      <3>1. /\ answers' = [answers EXCEPT ![c] = <<Failure("ErrNoAvailableNodes")>>]
            /\ pc' = [pc EXCEPT ![c] = "idle"]
        BY <1>7, <2>2 DEF Routes
      <3>2. \A d \in Callers : answers'[d] = IF d = c THEN <<Failure("ErrNoAvailableNodes")>>
                                             ELSE answers[d]
        BY <3>1 DEF TypeOK
      <3>3. \A d \in Callers : pc'[d] = "executed" => pc[d] = "executed"
        BY <3>1 DEF TypeOK
      <3>4. IsTrue(request[c], Failure("ErrNoAvailableNodes"))
        BY FailuresSayNothing DEF Errors
      <3> QED
        BY <2>1, <3>2, <3>3, <3>4 DEF DataInv
    <2>3. CASE table # <<>>
      <3>1. PICK i : GivesJob(c, i)
        BY <1>7, <2>3 DEF Routes
      <3> QED
        BY <2>1, <3>1, GivesJobTruly
    <2> QED
      BY <2>2, <2>3
  <1>8. ASSUME NEW c \in Callers, Visits(c) PROVE DataInv'
    <2>1. UNCHANGED <<store, request, reply>>
      BY <1>8 DEF Visits
    <2>2. \/ GivesJob(c, Len(answers[c]) + 1)
          \/ UNCHANGED answers /\ pc' \in {pc, [pc EXCEPT ![c] = "idle"]}
      BY <1>8 DEF Visits, Panics
    <2>3. CASE UNCHANGED answers /\ pc' \in {pc, [pc EXCEPT ![c] = "idle"]}
      <3>1. \A d \in Callers : pc'[d] = "executed" => pc[d] = "executed"
        BY <2>3 DEF TypeOK
      <3> QED
        BY <2>1, <2>3, <3>1 DEF DataInv
    <2> QED
      BY <2>1, <2>2, <2>3, GivesJobTruly
  <1>9. ASSUME NEW c \in Callers, Executes(c) PROVE DataInv'
    <2> DEFINE r == request[c]
               k == Composite(r)
               n == target[c]
    <2>1. r \in Requests /\ k \in Keys /\ n \in Nodes
      BY <1>9, ConstantsTyped DEF Executes, TypeOK
    <2>2. store[n][k] \in Cells
      BY <2>1 DEF DataInv
    <2>3. /\ ServerReply(r, store[n][k]) \in ServerAnswers
          /\ r.name = "get" => Truthful(ServerReply(r, store[n][k]))
          /\ ServerReply(r, store[n][k]).type = "Stored" => IsStore(r)
          /\ ServerStore(r, store[n][k]) \in Cells
      BY <2>1, <2>2, ServerActs
    <2>4. reply'[c] = ServerReply(r, store[n][k])
      BY <1>9 DEF Executes, TypeOK
    <2>5. \A m \in Nodes : \A l \in Keys : store'[m][l] \in Cells
      BY <1>9, <2>1, <2>3 DEF Executes, TypeOK, DataInv
    <2>6. \A d \in Callers \ {c} : reply'[d] = reply[d] /\ pc'[d] = pc[d]
      BY <1>9 DEF Executes, TypeOK
    <2>7. UNCHANGED <<request, answers>>
      BY <1>9 DEF Executes
    <2> HIDE DEF r, k, n
    <2>8. \A d \in Callers : \A i \in DOMAIN answers'[d] : IsTrue(request'[d], answers'[d][i])
      BY <2>7 DEF DataInv
    <2>9. \A d \in Callers : pc'[d] = "executed" =>
             /\ reply'[d] \in ServerAnswers
             /\ request'[d].name = "get" => Truthful(reply'[d])
             /\ reply'[d].type = "Stored" => IsStore(request'[d])
      BY <2>3, <2>4, <2>6, <2>7 DEF DataInv, r
    <2> QED
      BY <2>5, <2>8, <2>9 DEF DataInv
  <1>10. ASSUME NEW c \in Callers, Succeeds(c) PROVE DataInv'
    <2>1. request[c] \in Requests /\ target[c] \in Nodes
      BY <1>10 DEF Succeeds, TypeOK
    <2>2. IsTrue(request[c], AnswerTo(request[c], reply[c], target[c]))
      BY <1>10, <2>1, AnswersAreTrue DEF Succeeds, DataInv
    <2> QED
      BY <1>10, <2>2, AnswersTruly DEF Succeeds
  <1>11. ASSUME NEW c \in Callers, Fails(c) PROVE DataInv'
    <2>1. request[c] \in Requests /\ target[c] \in Nodes
      BY <1>11 DEF Fails, TypeOK
    <2> QED
      BY <1>11, <2>1, FailuresAreTrue, AnswersTruly DEF Fails
  <1> QED
    BY <1>1, <1>2, <1>3, <1>4, <1>5, <1>6, <1>7, <1>8, <1>9, <1>10, <1>11 DEF Next, CallerStep

LEMMA TypeAndData == Spec => [](TypeOK /\ DataInv)
  BY TypingInit, DataInit, TypingStep, DataStep, PTL DEF Spec

(* Every variable keeps its type.                                            *)
THEOREM OperationsTypeCorrect == Spec => []TypeOK
  BY TypeAndData, PTL

(* What Get returns was given to a store, encoded and decoded in between.    *)
THEOREM DataTrue == Spec => []DataIsTrue
  <1>1. DataInv => DataIsTrue
    BY DEF DataInv, DataIsTrue, IsTrue, Given
  <1> QED
    BY <1>1, TypeAndData, PTL

-----------------------------------------------------------------------------
(* Cluster operations.  Where a call is in its loop, and which positions are *)
(* answered, by whom if the table is still the one that was counted.         *)
Undisturbed(c) ==
    /\ numNodes[c] = Len(table)
    /\ \A i \in DOMAIN answers[c] : From(answers[c][i], table[i])
    /\ pc[c] \in {"job", "executed"} => target[c] = table[Len(answers[c]) + 1]

Progresses(c) ==
    /\ \A i \in DOMAIN answers[c] : Says(answers[c][i])
    /\ pc[c] = "validate" => answers[c] = <<>>
    /\ pc[c] = "route" => ~request[c].cluster
    /\ pc[c] = "loop" => request[c].cluster
    /\ request[c].cluster =>
         /\ pc[c] = "idle" => Len(answers[c]) = numNodes[c]
         /\ pc[c] = "loop" => Len(answers[c]) <= numNodes[c]
         /\ pc[c] \in {"job", "executed"} => Len(answers[c]) < numNodes[c]
         /\ undisturbed[c] => Undisturbed(c)

ClusterInv == \A c \in Callers : Progresses(c)

(* A call that is over, or one of other goroutines.                          *)
LEMMA OthersProgress ==
    ASSUME ClusterInv, NEW c \in Callers, UNCHANGED <<table, undisturbed>>,
           \A d \in Callers \ {c} :
             UNCHANGED <<pc[d], answers[d], request[d], numNodes[d], target[d]>>,
           Progresses(c)'
    PROVE  ClusterInv'
  BY DEF ClusterInv, Progresses, Undisturbed

LEMMA ReturnsProgress ==
    ASSUME TypeOK, ClusterInv, NEW c \in Callers, NEW as \in Seq(Outcomes), Returns(c, as),
           \A i \in DOMAIN as : Says(as[i]) /\ \A node : From(as[i], node),
           request[c].cluster => Len(as) = numNodes[c]
    PROVE  ClusterInv'
  <1>1. UNCHANGED <<table, undisturbed, request, numNodes, target>>
    BY DEF Returns, tableVars, jobVars, callVars
  <1>2. answers'[c] = as /\ pc'[c] = "idle"
    BY DEF Returns, TypeOK
  <1>3. \A d \in Callers \ {c} : UNCHANGED <<pc[d], answers[d]>>
    BY DEF Returns, TypeOK
  <1>4. request[c].cluster /\ undisturbed[c] => numNodes[c] = Len(table)
    BY DEF ClusterInv, Progresses, Undisturbed
  <1>5. Progresses(c)'
    BY <1>1, <1>2, <1>4 DEF Progresses, Undisturbed
  <1> QED
    BY <1>1, <1>3, <1>5, OthersProgress

(* The answers of a position, which is the next one.                         *)
LEMMA AppendProgresses ==
    ASSUME TypeOK, ClusterInv, NEW c \in Callers, NEW a \in Outcomes,
           Says(a), UNCHANGED <<table, undisturbed, request, numNodes>>,
           answers' = [answers EXCEPT ![c] = Append(@, a)],
           pc' = [pc EXCEPT ![c] = IF request[c].cluster THEN "loop" ELSE "idle"],
           \A d \in Callers \ {c} : UNCHANGED target[d],
           request[c].cluster =>
             /\ Len(answers[c]) < numNodes[c]
             /\ undisturbed[c] => From(a, table[Len(answers[c]) + 1])
    PROVE  ClusterInv'
  <1>1. answers[c] \in Seq(Outcomes) /\ answers \in [Callers -> Seq(Outcomes)]
    BY DEF TypeOK, Outcomes
  <1>2. /\ DOMAIN answers'[c] = 1 .. Len(answers[c]) + 1
        /\ Len(answers'[c]) = Len(answers[c]) + 1
        /\ answers'[c][Len(answers[c]) + 1] = a
        /\ \A i \in DOMAIN answers[c] : answers'[c][i] = answers[c][i]
        /\ DOMAIN answers[c] = 1 .. Len(answers[c])
    BY <1>1
  <1>3. pc'[c] = IF request[c].cluster THEN "loop" ELSE "idle"
    BY DEF TypeOK
  <1>4. \A d \in Callers \ {c} : UNCHANGED <<pc[d], answers[d]>>
    BY <1>1 DEF TypeOK
  <1>5. \A i \in DOMAIN answers'[c] : Says(answers'[c][i])
    BY <1>2 DEF ClusterInv, Progresses
  <1>6. numNodes[c] \in Nat /\ Len(answers[c]) \in Nat
    BY <1>1 DEF TypeOK
  <1>7. request[c].cluster /\ undisturbed[c] =>
          /\ numNodes[c] = Len(table)
          /\ \A i \in DOMAIN answers'[c] : From(answers'[c][i], table[i])
    BY <1>2 DEF ClusterInv, Progresses, Undisturbed
  <1>8. Progresses(c)'
    BY <1>2, <1>3, <1>5, <1>6, <1>7 DEF Progresses, Undisturbed
  <1> QED
    BY <1>4, <1>8, OthersProgress

LEMMA GivesJobProgresses ==
    ASSUME TypeOK, ClusterInv, NEW c \in Callers, NEW i \in 1 .. Len(table), GivesJob(c, i),
           pc[c] \in {"route", "loop"},
           UNCHANGED <<table, undisturbed, request, numNodes>>,
           request[c].cluster => i = Len(answers[c]) + 1 /\ i <= numNodes[c]
    PROVE  ClusterInv'
  <1>1. answers[c] \in Seq(Outcomes) /\ numNodes[c] \in Nat
    BY DEF TypeOK, Outcomes
  <1>2. CASE table[i] \in down
    <2> DEFINE a == Failure("ErrTelnetConnectionIsClosed")
    <2>1. a \in Outcomes /\ Says(a) /\ \A node : From(a, node)
      BY FailureOutcome DEF Errors, From
    <2> HIDE DEF a
    <2>2. /\ answers' = [answers EXCEPT ![c] = Append(@, a)]
          /\ pc' = [pc EXCEPT ![c] = IF request[c].cluster THEN "loop" ELSE "idle"]
          /\ UNCHANGED target
      BY <1>2 DEF GivesJob, a
    <2>3. request[c].cluster => Len(answers[c]) < numNodes[c]
      BY <1>1
    <2>4. UNCHANGED table /\ UNCHANGED undisturbed /\ UNCHANGED request /\ UNCHANGED numNodes
      OBVIOUS
    <2>5. From(a, table[Len(answers[c]) + 1]) /\ \A d \in Callers \ {c} : UNCHANGED target[d]
      BY <2>1, <2>2
    <2> QED
      BY <2>1, <2>2, <2>3, <2>4, <2>5, AppendProgresses
  <1>3. CASE table[i] \notin down
    <2>1. /\ target'[c] = table[i]
          /\ pc'[c] = "job"
          /\ UNCHANGED answers
          /\ \A d \in Callers \ {c} : UNCHANGED <<pc[d], target[d]>>
      BY <1>3 DEF GivesJob, TypeOK
    <2>2. Progresses(c)'
      BY <1>1, <2>1 DEF ClusterInv, Progresses, Undisturbed
    <2> QED
      BY <2>1, <2>2, OthersProgress
  <1> QED
    BY <1>2, <1>3

LEMMA ClusterStep == TypeOK /\ DataInv /\ ClusterInv /\ [Next]_vars => ClusterInv'
  <1> SUFFICES ASSUME TypeOK, DataInv, ClusterInv, [Next]_vars PROVE ClusterInv'
    OBVIOUS
  <1> USE DEF tableVars, jobVars, callVars
  <1>1. CASE Publishes
    <2>1. \A c \in Callers : ~undisturbed'[c]
      BY <1>1 DEF Publishes
    <2>2. UNCHANGED <<pc, answers, request, numNodes>>
      BY <1>1 DEF Publishes
    <2> QED
      BY <2>1, <2>2 DEF ClusterInv, Progresses
  <1>2. CASE SetsFlag \/ (\E n \in Nodes : PoolGoesDown(n)) \/ UNCHANGED vars
    <2>1. UNCHANGED <<table, pc, answers, request, numNodes, target, undisturbed>>
      BY <1>2 DEF SetsFlag, PoolGoesDown, vars
    <2> QED
      BY <2>1 DEF ClusterInv, Progresses, Undisturbed
  <1>3. ASSUME NEW c \in Callers, Begins(c) PROVE ClusterInv'
    <2>1. /\ answers'[c] = <<>> /\ pc'[c] = "validate"
          /\ request'[c].cluster => numNodes'[c] = Len(table)
      BY <1>3 DEF Begins, TypeOK
    <2>2. /\ UNCHANGED <<table, target>>
          /\ \A d \in Callers \ {c} :
               UNCHANGED <<pc[d], answers[d], request[d], numNodes[d], undisturbed[d]>>
      BY <1>3 DEF Begins, TypeOK
    <2>3. Progresses(c)'
      BY <2>1, <2>2 DEF Progresses, Undisturbed
    <2> QED
      BY <2>2, <2>3 DEF ClusterInv, Progresses, Undisturbed
  <1>4. ASSUME NEW c \in Callers, Rejects(c) PROVE ClusterInv'
    <2> DEFINE a == Failure("ErrInvalidKeyFormat")
    <2>1. a \in Outcomes /\ Says(a) /\ \A node : From(a, node)
      BY FailureOutcome DEF Errors, From
    <2> HIDE DEF a
    <2>2. numNodes[c] \in Nat
      BY DEF TypeOK
    <2>3. [i \in 1 .. numNodes[c] |-> a] \in Seq(Outcomes)
          /\ Len([i \in 1 .. numNodes[c] |-> a]) = numNodes[c]
      BY <2>1, <2>2
    <2>4. Returns(c, [i \in 1 .. numNodes[c] |-> a])
      BY <1>4 DEF Rejects, a
    <2> QED
      BY <2>1, <2>3, <2>4, ReturnsProgress
  <1>5. ASSUME NEW c \in Callers, Refuses(c) PROVE ClusterInv'
    <2> DEFINE a == Returned(Result("NotStored", Absent, Nothing), "none")
    <2>1. a \in Outcomes /\ Says(a)
      BY OutcomeOf DEF Types, Data, Errors
    <2>2. ~request[c].cluster
      BY <1>5 DEF Refuses, StoresNothing
    <2> HIDE DEF a
    <2>3. Returns(c, <<a>>)
      BY <1>5 DEF Refuses, a
    <2>4. answers'[c] = <<a>> /\ pc'[c] = "idle"
      BY <2>3 DEF Returns, TypeOK
    <2>5. UNCHANGED <<table, undisturbed, request, numNodes, target>>
      BY <2>3 DEF Returns
    <2>6. \A d \in Callers \ {c} : UNCHANGED <<pc[d], answers[d]>>
      BY <2>3 DEF Returns, TypeOK
    <2>7. Progresses(c)'
      BY <2>1, <2>2, <2>4, <2>5 DEF Progresses
    <2> QED
      BY <2>5, <2>6, <2>7, OthersProgress
  <1>6. ASSUME NEW c \in Callers, FindsNone(c) PROVE ClusterInv'
    <2> DEFINE a == Failure("ErrNoAvailableNodes")
    <2>1. a \in Outcomes /\ Says(a) /\ \A node : From(a, node)
      BY FailureOutcome DEF Errors, From
    <2> HIDE DEF a
    <2>2. Returns(c, <<a>>) /\ ~request[c].cluster
      BY <1>6 DEF FindsNone, a
    <2>3. <<a>> \in Seq(Outcomes) /\ \A i \in DOMAIN <<a>> : <<a>>[i] = a
      BY <2>1
    <2>4. \A i \in DOMAIN <<a>> : Says(<<a>>[i]) /\ \A node : From(<<a>>[i], node)
      BY <2>1, <2>3
    <2> QED
      BY <2>2, <2>3, <2>4, ReturnsProgress
  <1>7. ASSUME NEW c \in Callers, Accepts(c) PROVE ClusterInv'
    <2>1. /\ pc[c] = "validate"
          /\ pc'[c] = IF request[c].cluster THEN "loop" ELSE "route"
          /\ UNCHANGED <<table, answers, request, numNodes, target, undisturbed>>
          /\ \A d \in Callers \ {c} : UNCHANGED pc[d]
      BY <1>7 DEF Accepts, TypeOK
    <2>2. answers[c] = <<>> /\ numNodes[c] \in Nat
      BY <2>1 DEF ClusterInv, Progresses, TypeOK
    <2>3. Progresses(c)'
      BY <2>1, <2>2 DEF ClusterInv, Progresses, Undisturbed
    <2> QED
      BY <2>1, <2>3, OthersProgress
  <1>8. ASSUME NEW c \in Callers, Routes(c) PROVE ClusterInv'
    <2>1. UNCHANGED <<table, undisturbed, request, numNodes>> /\ pc[c] = "route"
      BY <1>8 DEF Routes
    <2>2. ~request[c].cluster
      BY <2>1 DEF ClusterInv, Progresses
    <2>3. CASE table = <<>>
      <3> DEFINE a == Failure("ErrNoAvailableNodes")
      <3>1. Says(a)
        BY FailureOutcome DEF Errors
      <3> HIDE DEF a
      <3>2. answers'[c] = <<a>> /\ pc'[c] = "idle" /\ UNCHANGED target
        BY <1>8, <2>3 DEF Routes, TypeOK, a
      <3>3. \A d \in Callers \ {c} : UNCHANGED <<pc[d], answers[d]>>
        BY <1>8, <2>3 DEF Routes, TypeOK
      <3>4. Progresses(c)'
        BY <2>1, <2>2, <3>1, <3>2 DEF Progresses
      <3> QED
        BY <2>1, <3>2, <3>3, <3>4, OthersProgress
    <2>4. CASE table # <<>>
      <3>1. PICK byte \in Routers(request[c]) : GivesJob(c, (byte % Len(table)) + 1)
        BY <1>8, <2>4 DEF Routes
      <3>2. (byte % Len(table)) + 1 \in 1 .. Len(table)
        BY <2>4, RoutersAreBytes DEF TypeOK
      <3> QED
        BY <2>1, <2>2, <3>1, <3>2, GivesJobProgresses
    <2> QED
      BY <2>3, <2>4
  <1>9. ASSUME NEW c \in Callers, Visits(c) PROVE ClusterInv'
    <2> DEFINE i == Len(answers[c]) + 1
    <2>1. i \in Nat \ {0} /\ Len(table) \in Nat /\ numNodes[c] \in Nat
      BY DEF TypeOK
    <2>2. UNCHANGED <<table, undisturbed, request, numNodes>> /\ pc[c] = "loop"
      BY <1>9 DEF Visits
    <2>3. request[c].cluster /\ Len(answers[c]) <= numNodes[c]
      BY <2>2 DEF ClusterInv, Progresses
    <2>4. CASE i > numNodes[c]
      <3>1. UNCHANGED <<answers, target>> /\ pc'[c] = "idle"
        BY <1>9, <2>4 DEF Visits, TypeOK
      <3>2. \A d \in Callers \ {c} : UNCHANGED pc[d]
        BY <1>9, <2>4 DEF Visits, TypeOK
      <3>3. Len(answers[c]) = numNodes[c]
        BY <2>1, <2>3, <2>4
      <3>4. Progresses(c)'
        BY <2>2, <3>1, <3>3 DEF ClusterInv, Progresses, Undisturbed
      <3> QED
        BY <2>2, <3>1, <3>2, <3>4, OthersProgress
    <2>5. CASE ~(i > numNodes[c]) /\ i > Len(table)
      <3>1. UNCHANGED <<answers, target, pc>>
        BY <1>9, <2>5 DEF Visits, Panics
      <3> QED
        BY <2>2, <3>1 DEF ClusterInv, Progresses, Undisturbed
    <2>6. CASE ~(i > numNodes[c]) /\ ~(i > Len(table))
      <3>1. GivesJob(c, i) /\ i \in 1 .. Len(table) /\ i <= numNodes[c]
        BY <1>9, <2>1, <2>6 DEF Visits
      <3> QED
        BY <2>2, <3>1, GivesJobProgresses
    <2> QED
      BY <2>4, <2>5, <2>6
  <1>10. ASSUME NEW c \in Callers, Executes(c) PROVE ClusterInv'
    <2>1. UNCHANGED <<table, answers, request, numNodes, target, undisturbed>>
      BY <1>10 DEF Executes
    <2>2. pc[c] = "job" /\ pc'[c] = "executed" /\ \A d \in Callers \ {c} : UNCHANGED pc[d]
      BY <1>10 DEF Executes, TypeOK
    <2>3. Progresses(c)'
      BY <2>1, <2>2 DEF ClusterInv, Progresses, Undisturbed
    <2> QED
      BY <2>1, <2>2, <2>3, OthersProgress
  <1>11. ASSUME NEW c \in Callers, NEW a \in Outcomes, Answers(c, a), Says(a),
                From(a, target[c]), pc[c] \in {"job", "executed"}
         PROVE  ClusterInv'
    <2>1. /\ UNCHANGED <<table, undisturbed, request, numNodes>>
          /\ answers' = [answers EXCEPT ![c] = Append(@, a)]
          /\ pc' = [pc EXCEPT ![c] = IF request[c].cluster THEN "loop" ELSE "idle"]
          /\ \A d \in Callers \ {c} : UNCHANGED target[d]
      BY <1>11 DEF Answers, TypeOK
    <2>2. request[c].cluster =>
            /\ Len(answers[c]) < numNodes[c]
            /\ undisturbed[c] => From(a, table[Len(answers[c]) + 1])
      BY <1>11 DEF ClusterInv, Progresses, Undisturbed
    <2> QED
      BY <1>11, <2>1, <2>2, AppendProgresses
  <1>12. ASSUME NEW c \in Callers, Succeeds(c) PROVE ClusterInv'
    <2>1. request[c] \in Requests /\ target[c] \in Nodes /\ pc[c] = "executed"
      BY <1>12 DEF Succeeds, TypeOK
    <2> DEFINE a == AnswerTo(request[c], reply[c], target[c])
    <2>2. a \in Outcomes /\ Says(a) /\ From(a, target[c])
      BY <2>1, AnswersAreTrue DEF DataInv
    <2>3. Answers(c, a)
      BY <1>12 DEF Succeeds
    <2> HIDE DEF a
    <2> QED
      BY <1>11, <2>1, <2>2, <2>3
  <1>13. ASSUME NEW c \in Callers, Fails(c) PROVE ClusterInv'
    <2>1. request[c] \in Requests /\ target[c] \in Nodes /\ pc[c] \in {"job", "executed"}
      BY <1>13 DEF Fails, TypeOK
    <2>2. PICK a \in {FailureOf(request[c], target[c]),
                      Returned(Result("None", Absent, target[c]), "none")} : Answers(c, a)
      BY <1>13 DEF Fails
    <2>3. a \in Outcomes /\ Says(a) /\ From(a, target[c])
      BY <2>1, <2>2, FailuresAreTrue
    <2> QED
      BY <1>11, <2>1, <2>2, <2>3
  <1> QED
    BY <1>1, <1>2, <1>3, <1>4, <1>5, <1>6, <1>7, <1>8, <1>9, <1>10, <1>12, <1>13
    DEF Next, CallerStep

LEMMA ClusterInvHolds == Spec => []ClusterInv
  <1>1. Init => ClusterInv
    <2> SUFFICES ASSUME Init PROVE ClusterInv
      OBVIOUS
    <2>1. \A c \in Callers : pc[c] = "idle" /\ answers[c] = <<>> /\ numNodes[c] = 0
                             /\ ~undisturbed[c]
      BY DEF Init
    <2> QED
      BY <2>1 DEF ClusterInv, Progresses
  <1> QED
    BY <1>1, ClusterStep, TypeAndData, PTL DEF Spec

(* A cluster operation that returns has an answer for each node it counted,  *)
(* in the order of the table if that was not replaced.                       *)
THEOREM ClusterAnswersComplete == Spec => []ClusterAnswersForEachNode
  <1>1. ClusterInv => ClusterAnswersForEachNode
    BY DEF ClusterInv, Progresses, Undisturbed, From, Says, ClusterAnswersForEachNode
  <1> QED
    BY <1>1, ClusterInvHolds, PTL

-----------------------------------------------------------------------------
(* The loop of a cluster operation is the only place where a table is        *)
(* indexed past its end.                                                     *)
THEOREM PanicsInClusterLoops == Spec => []OnlyClusterCallsPanic
  <1>1. Init => OnlyClusterCallsPanic
    BY DEF Init, OnlyClusterCallsPanic
  <1>2. TypeOK /\ ClusterInv /\ OnlyClusterCallsPanic /\ [Next]_vars => OnlyClusterCallsPanic'
    <2> SUFFICES ASSUME TypeOK, ClusterInv, OnlyClusterCallsPanic, [Next]_vars, panicked'
                 PROVE  OnlyClusterCallsPanic'
      BY DEF OnlyClusterCallsPanic
    <2>1. CASE UNCHANGED vars
      BY <2>1 DEF vars, tableVars, callVars, OnlyClusterCallsPanic
    <2>2. CASE Next
      <3>1. ~panicked
        BY <2>2 DEF Next
      <3>2. PICK c \in Callers : Visits(c)
        BY <2>2, <3>1 DEF Next, CallerStep, Publishes, SetsFlag, PoolGoesDown, Begins, Rejects,
          Refuses, FindsNone, Accepts, Returns, Routes, Executes, Succeeds, Fails, Answers
      <3> DEFINE i == Len(answers[c]) + 1
      <3>3. pc[c] = "loop" /\ request[c].cluster /\ UNCHANGED <<table, request, numNodes>>
        BY <3>2 DEF Visits, tableVars, callVars, ClusterInv, Progresses
      <3>4. ~(i > numNodes[c]) /\ i > Len(table) /\ UNCHANGED pc
        BY <3>1, <3>2 DEF Visits, Panics
      <3>5. i \in Nat /\ numNodes[c] \in Nat /\ Len(table) \in Nat
        BY DEF TypeOK
      <3> QED
        BY <3>3, <3>4, <3>5 DEF OnlyClusterCallsPanic
    <2> QED
      BY <2>1, <2>2
  <1>3. Spec => []ClusterInv
    BY ClusterInvHolds
  <1> QED
    BY <1>1, <1>2, <1>3, TypeAndData, PTL DEF Spec

-----------------------------------------------------------------------------
(* Keys.  An append to a path writes behind it, in an array that calls share *)
(* only if there is room.  What is validated is the key of the call when no  *)
(* other goroutine can have appended to its path, or when nothing it could   *)
(* have written hides a key that is bad.                                     *)
NoBadSharing ==
    \/ \A c, d \in Callers : c = d
    \/ \A r \in Requests : r.path \in Shared => Blank \notin Range(Composite(r))

Past == {"route", "loop", "job", "executed"}

KeysInv == \A c \in Callers :
    /\ pc[c] \in Past /\ request[c].name # "version" =>
         /\ Len(Composite(request[c])) \in 1 .. MaxKeyLength
         /\ NoBadSharing => Blank \notin Range(Composite(request[c]))
    /\ pc[c] = "validate" /\ NoBadSharing =>
         \/ KeyComposite(request[c]) = Composite(request[c])
         \/ Blank \notin Range(Composite(request[c]))

(* A call is validated once, before anything else is done for it. *)
LEMMA ValidatedOnce ==
    ASSUME TypeOK, [Next]_vars
    PROVE  \/ \E c \in Callers : Begins(c) \/ Accepts(c)
           \/ /\ UNCHANGED <<request, behind>>
              /\ \A d \in Callers : /\ pc'[d] \in Past => pc[d] \in Past
                                    /\ pc'[d] = "validate" => pc[d] = "validate"
  <1> USE DEF Past, tableVars, jobVars, callVars
  <1>1. CASE Publishes \/ SetsFlag \/ (\E n \in Nodes : PoolGoesDown(n)) \/ UNCHANGED vars
    BY <1>1 DEF Publishes, SetsFlag, PoolGoesDown, vars
  <1>2. ASSUME NEW c \in Callers, UNCHANGED <<request, behind>>,
               NEW place \in Past \cup {"idle"}, pc' = [pc EXCEPT ![c] = place],
               pc[c] \in Past \/ place = "idle"
        PROVE  /\ UNCHANGED <<request, behind>>
               /\ \A d \in Callers : /\ pc'[d] \in Past => pc[d] \in Past
                                     /\ pc'[d] = "validate" => pc[d] = "validate"
    BY <1>2 DEF TypeOK
  <1>3. ASSUME NEW c \in Callers, Rejects(c) \/ Refuses(c) \/ FindsNone(c)
        PROVE  UNCHANGED <<request, behind>> /\ pc' = [pc EXCEPT ![c] = "idle"]
    BY <1>3 DEF Rejects, Refuses, FindsNone, Returns
  <1>4. ASSUME NEW c \in Callers, Routes(c)
        PROVE  /\ UNCHANGED <<request, behind>> /\ pc[c] \in Past
               /\ \E place \in Past \cup {"idle"} : pc' = [pc EXCEPT ![c] = place]
    BY <1>4 DEF Routes, GivesJob
  <1>5. ASSUME NEW c \in Callers, Visits(c)
        PROVE  /\ UNCHANGED <<request, behind>> /\ pc[c] \in Past
               /\ \E place \in Past \cup {"idle"} : pc' = [pc EXCEPT ![c] = place]
    <2>1. pc = [pc EXCEPT ![c] = "loop"]
      BY <1>5 DEF Visits, TypeOK
    <2> QED
      BY <1>5, <2>1 DEF Visits, GivesJob, Panics
  <1>6. ASSUME NEW c \in Callers, Executes(c) \/ Succeeds(c) \/ Fails(c)
        PROVE  /\ UNCHANGED <<request, behind>> /\ pc[c] \in Past
               /\ \E place \in Past \cup {"idle"} : pc' = [pc EXCEPT ![c] = place]
    BY <1>6 DEF Executes, Succeeds, Fails, Answers
  <1> QED
    BY <1>1, <1>2, <1>3, <1>4, <1>5, <1>6 DEF Next, CallerStep

LEMMA KeysStep == TypeOK /\ KeysInv /\ [Next]_vars => KeysInv'
  <1> SUFFICES ASSUME TypeOK, KeysInv, [Next]_vars PROVE KeysInv'
    OBVIOUS
  <1>1. ASSUME NEW c \in Callers, Begins(c) PROVE KeysInv'
    <2>1. PICK r \in Requests :
            /\ request' = [request EXCEPT ![c] = r]
            /\ behind' = IF r.path \in Shared
                         THEN [behind EXCEPT ![r.path] =
                                   r.key \o SubSeq(@, Len(r.key) + 1, Len(@))]
                         ELSE behind
      BY <1>1 DEF Begins
    <2>2. /\ request'[c] = r /\ pc'[c] = "validate"
          /\ \A d \in Callers \ {c} : request'[d] = request[d] /\ pc'[d] = pc[d]
      BY <1>1, <2>1 DEF Begins, TypeOK
    <2>3. \A q \in Requests : q.path \notin Shared => KeyComposite(q)' = Composite(q)
      BY DEF KeyComposite
    <2>4. KeyComposite(r)' = Composite(r)
      <3>1. CASE r.path \in Shared
        <4> DEFINE rest == SubSeq(behind[r.path], Len(r.key) + 1, Len(behind[r.path]))
        <4>1. r.key \in Seq(Nat) /\ behind[r.path] \in Seq(Nat)
          BY <3>1, ConstantsTyped DEF TypeOK
        <4>2. rest \in Seq(Nat)
          BY <4>1
        <4>3. behind'[r.path] = r.key \o rest
          BY <2>1, <3>1 DEF TypeOK
        <4> HIDE DEF rest
        <4>4. SubSeq(r.key \o rest, 1, Len(r.key)) = r.key
          BY <4>1, <4>2
        <4> QED
          BY <3>1, <4>3, <4>4 DEF KeyComposite, Composite
      <3>2. CASE r.path \notin Shared
        BY <2>3, <3>2
      <3> QED
        BY <3>1, <3>2
    <2>5. ASSUME NEW d \in Callers \ {c}, pc[d] = "validate", NoBadSharing
          PROVE  \/ KeyComposite(request[d])' = Composite(request[d])'
                 \/ Blank \notin Range(Composite(request[d]))'
      <3>1. request[d] \in Requests /\ request'[d] = request[d]
        BY <2>2 DEF TypeOK
      <3>2. request[d].path \in Shared => Blank \notin Range(Composite(request[d]))
        BY <2>5, <3>1 DEF NoBadSharing
      <3> QED
        BY <3>1, <3>2 DEF KeyComposite, Composite
    <2>6. ASSUME NEW d \in Callers, pc'[d] = "validate", NoBadSharing
          PROVE  \/ KeyComposite(request[d])' = Composite(request[d])'
                 \/ Blank \notin Range(Composite(request[d]))'
      <3>1. CASE d = c
        BY <2>2, <2>4, <3>1 DEF KeyComposite, Composite
      <3>2. CASE d # c
        BY <2>2, <2>5, <2>6, <3>2
      <3> QED
        BY <3>1, <3>2
    <2>7. \A d \in Callers : pc'[d] \in Past => pc[d] \in Past /\ request'[d] = request[d]
      BY <2>2 DEF Past
    <2> QED
      BY <2>6, <2>7 DEF KeysInv, Composite
  <1>2. ASSUME NEW c \in Callers, Accepts(c) PROVE KeysInv'
    <2>1. /\ pc[c] = "validate" /\ IsValid(request[c]) /\ pc'[c] \in Past
          /\ UNCHANGED <<request, behind>>
          /\ \A d \in Callers \ {c} : pc'[d] = pc[d]
      BY <1>2 DEF Accepts, TypeOK, callVars, Past
    <2>2. request[c].name # "version" =>
            /\ Len(Composite(request[c])) \in 1 .. MaxKeyLength
            /\ NoBadSharing => Blank \notin Range(Composite(request[c]))
      BY <2>1 DEF KeysInv, IsValid
    <2> QED
      BY <2>1, <2>2 DEF KeysInv, Past, KeyComposite, Composite
  <1>3. CASE /\ UNCHANGED <<request, behind>>
             /\ \A d \in Callers : /\ pc'[d] \in Past => pc[d] \in Past
                                   /\ pc'[d] = "validate" => pc[d] = "validate"
    BY <1>3 DEF KeysInv, KeyComposite, Composite
  <1> QED
    BY <1>1, <1>2, <1>3, ValidatedOnce

LEMMA KeysInvHolds == Spec => [](TypeOK /\ DataInv /\ KeysInv)
  <1>1. Init => KeysInv
    BY DEF Init, KeysInv, Past
  <1> QED
    BY <1>1, KeysStep, TypeAndData, PTL DEF Spec

(* No command is rendered with a key that breaks it, on paths that are not   *)
(* shared or for keys that are good.                                         *)
THEOREM KeysLegal == ASSUME NoBadSharing PROVE Spec => []KeysAreLegal
  <1>1. KeysInv => KeysAreLegal
    BY NoBadSharing DEF KeysInv, KeysAreLegal, Past
  <1> QED
    BY <1>1, KeysInvHolds, PTL

-----------------------------------------------------------------------------
(* Routing.  The node of a key is a function of the nodes connected: sorted,  *)
(* they make one table only, and a byte of the hash or the key indexes it.   *)
LastByte(hash, key) == IF hash # <<>> THEN Last(hash) ELSE Last(key)

RoutedBy(hash, key, nodes, node) ==
    \E list \in Seq(Nat) :
        /\ list # <<>> /\ Increasing(list) /\ Range(list) = nodes
        /\ node = list[(LastByte(hash, key) % Len(list)) + 1]

LEMMA RoutedAlike ==
    ASSUME NEW hash, NEW key, NEW nodes, NEW m, NEW n,
           RoutedBy(hash, key, nodes, m), RoutedBy(hash, key, nodes, n)
    PROVE  m = n
  BY IncreasingIsUnique DEF RoutedBy

RoutingInv ==
    /\ Increasing(table)
    /\ \A c \in Callers :
         pc[c] \in {"job", "executed"} /\ ~request[c].cluster /\ request[c].name # "version" =>
             RoutedBy(request[c].hash, Composite(request[c]), seen[c], target[c])
    /\ \A a \in acknowledged : RoutedBy(a.hash, a.key, a.nodes, a.node)

LEMMA TablesIncrease ==
    \A list \in Lists : Increasing(SortByHost(list, Host))
  <1> TAKE list \in Lists
  <1> DEFINE sorted == SortByHost(list, Host)
  <1>1. list \in Seq(Nodes) /\ Nodes \subseteq Nat /\ IsInjective(list)
        /\ \A n \in Nodes : Host[n] = n
    BY ConstantsTyped DEF Host
  <1>2. \A i \in 1 .. Len(list) : Host[list[i]] \in Nat
    <2>1. \A i \in 1 .. Len(list) : list[i] \in Nodes
      BY <1>1
    <2> QED
      BY <2>1, ConstantsTyped
  <1>3. /\ sorted \in Seq(Nodes)
        /\ Len(sorted) = Len(list)
        /\ \A i, j \in 1 .. Len(list) : i < j => Host[sorted[i]] <= Host[sorted[j]]
        /\ IsInjective(sorted)
    BY <1>1, <1>2, SortPermutes
  <1> HIDE DEF sorted
  <1>4. ASSUME NEW i \in 1 .. Len(sorted), NEW j \in 1 .. Len(sorted), i < j
        PROVE  sorted[i] < sorted[j]
    <2>1. sorted[i] \in Nodes /\ sorted[j] \in Nodes
      BY <1>3
    <2>2. sorted[i] <= sorted[j]
      BY <1>1, <1>3, <1>4, <2>1
    <2>3. sorted[i] # sorted[j]
      BY <1>3, <1>4 DEF IsInjective
    <2>4. sorted[i] \in Nat /\ sorted[j] \in Nat
      BY <1>1, <2>1
    <2> QED
      BY <2>2, <2>3, <2>4
  <1> QED
    BY <1>4 DEF Increasing, sorted

(* The three ways to choose the byte are one for a key that is not empty.    *)
LEMMA RoutersOfKey ==
    ASSUME NEW r \in Requests, Len(Composite(r)) # 0
    PROVE  Routers(r) = {LastByte(r.hash, Composite(r))}
  <1>1. r.hash \in Seq(Nat) /\ r.path \in Seq(Nat) /\ r.key \in Seq(Nat)
    BY ConstantsTyped
  <1>2. CASE r.hash # <<>>
    BY <1>2 DEF Routers, LastByte
  <1>3. CASE r.hash = <<>> /\ r.key # <<>>
    <2>1. Last(r.path \o r.key) = Last(r.key)
      <3> DEFINE m == Len(r.path)
                 n == Len(r.key)
      <3>1. m \in Nat /\ n \in Nat \ {0} /\ Len(r.path \o r.key) = m + n
        BY <1>1, <1>3
      <3> HIDE DEF m, n
      <3>2. \A i \in 1 .. m + n : (r.path \o r.key)[i] = IF i <= m THEN r.path[i] ELSE r.key[i - m]
        BY <1>1, ConcatProperties DEF m, n
      <3>3. m + n \in 1 .. m + n /\ ~(m + n <= m) /\ m + n - m = n
        BY <3>1
      <3> DEFINE j == m + n
      <3>4. j \in 1 .. m + n /\ ~(j <= m) /\ j - m = n
        BY <3>1
      <3> HIDE DEF j
      <3>5. (r.path \o r.key)[j] = r.key[n]
        BY <3>2, <3>4
      <3> QED
        BY <3>1, <3>5 DEF Last, n, j
    <2> QED
      BY <1>3, <2>1 DEF Routers, LastByte, Composite
  <1>4. CASE r.hash = <<>> /\ r.key = <<>>
    <2>1. r.path \o r.key = r.path /\ r.path # <<>>
      BY <1>1, <1>4 DEF Composite
    <2> QED
      BY <1>4, <2>1 DEF Routers, LastByte, Composite
  <1> QED
    BY <1>2, <1>3, <1>4

(* Steps that route no call, and let none go on but to the server. *)
LEMMA RoutingKept ==
    ASSUME TypeOK, RoutingInv, UNCHANGED <<table, acknowledged>>,
           \A d \in Callers :
             pc'[d] \in {"job", "executed"} =>
               /\ pc[d] \in {"job", "executed"}
               /\ UNCHANGED <<request[d], seen[d], target[d]>>
    PROVE  RoutingInv'
  BY DEF RoutingInv, Composite

LEMMA RoutingStep == TypeOK /\ DataInv /\ ClusterInv /\ KeysInv /\ RoutingInv /\ [Next]_vars
                     => RoutingInv'
  <1> SUFFICES ASSUME TypeOK, DataInv, ClusterInv, KeysInv, RoutingInv, [Next]_vars
               PROVE  RoutingInv'
    OBVIOUS
  <1> USE DEF tableVars, jobVars, callVars
  <1>1. CASE Publishes
    <2>1. Increasing(table)'
      BY <1>1, TablesIncrease DEF Publishes
    <2>2. UNCHANGED <<pc, request, seen, target, acknowledged>>
      BY <1>1 DEF Publishes
    <2> QED
      BY <2>1, <2>2 DEF RoutingInv, Composite
  <1>2. CASE SetsFlag \/ (\E n \in Nodes : PoolGoesDown(n)) \/ UNCHANGED vars
    <2>1. UNCHANGED <<table, pc, request, seen, target, acknowledged>>
      BY <1>2 DEF SetsFlag, PoolGoesDown, vars
    <2> QED
      BY <2>1, RoutingKept
  <1>3. ASSUME NEW c \in Callers, Begins(c) PROVE RoutingInv'
    <2>1. UNCHANGED <<table, seen, target, acknowledged>>
      BY <1>3 DEF Begins
    <2>2. \A d \in Callers : pc'[d] \in {"job", "executed"} =>
                               pc[d] = pc'[d] /\ UNCHANGED request[d]
      BY <1>3 DEF Begins, TypeOK
    <2> QED
      BY <2>1, <2>2, RoutingKept
  <1>4. ASSUME NEW c \in Callers, Rejects(c) \/ Refuses(c) \/ FindsNone(c) PROVE RoutingInv'
    <2>1. UNCHANGED <<table, request, seen, target, acknowledged>> /\ pc' = [pc EXCEPT ![c] = "idle"]
      BY <1>4 DEF Rejects, Refuses, FindsNone, Returns
    <2> QED
      BY <2>1, RoutingKept DEF TypeOK
  <1>5. ASSUME NEW c \in Callers, Accepts(c) PROVE RoutingInv'
    <2>1. /\ UNCHANGED <<table, request, seen, target, acknowledged>>
          /\ pc' = [pc EXCEPT ![c] = IF request[c].cluster THEN "loop" ELSE "route"]
      BY <1>5 DEF Accepts
    <2> QED
      BY <2>1, RoutingKept DEF TypeOK
  <1>6. ASSUME NEW c \in Callers, NEW i \in 1 .. Len(table), GivesJob(c, i),
               UNCHANGED <<table, request, acknowledged>>,
               \/ request[c].cluster
               \/ request[c].name = "version"
               \/ RoutedBy(request[c].hash, Composite(request[c]), Range(table), table[i])
        PROVE  RoutingInv'
    <2>1. CASE table[i] \in down
      <3>1. /\ UNCHANGED <<seen, target>>
            /\ pc' = [pc EXCEPT ![c] = IF request[c].cluster THEN "loop" ELSE "idle"]
        BY <1>6, <2>1 DEF GivesJob
      <3> QED
        BY <1>6, <3>1, RoutingKept DEF TypeOK
    <2>2. CASE table[i] \notin down
      <3>1. /\ seen'[c] = Range(table) /\ target'[c] = table[i]
            /\ \A d \in Callers \ {c} : UNCHANGED <<pc[d], seen[d], target[d]>>
        BY <1>6, <2>2 DEF GivesJob, TypeOK
      <3> QED
        BY <1>6, <3>1 DEF RoutingInv, Composite
    <2> QED
      BY <2>1, <2>2
  <1>7. ASSUME NEW c \in Callers, Routes(c) PROVE RoutingInv'
    <2>1. UNCHANGED <<table, request, acknowledged>> /\ pc[c] = "route" /\ request[c] \in Requests
      BY <1>7 DEF Routes, TypeOK
    <2>2. CASE table = <<>>
      <3>1. UNCHANGED <<seen, target>> /\ pc' = [pc EXCEPT ![c] = "idle"]
        BY <1>7, <2>2 DEF Routes
      <3> QED
        BY <2>1, <3>1, RoutingKept DEF TypeOK
    <2>3. CASE table # <<>>
      <3>1. PICK byte \in Routers(request[c]) : GivesJob(c, (byte % Len(table)) + 1)
        BY <1>7, <2>3 DEF Routes
      <3>2. (byte % Len(table)) + 1 \in 1 .. Len(table)
        BY <2>1, <2>3, RoutersAreBytes
      <3>3. ASSUME request[c].name # "version"
            PROVE  RoutedBy(request[c].hash, Composite(request[c]), Range(table),
                            table[(byte % Len(table)) + 1])
        <4>1. Len(Composite(request[c])) # 0
          BY <2>1, <3>3 DEF KeysInv, Past
        <4>2. byte = LastByte(request[c].hash, Composite(request[c]))
          BY <2>1, <4>1, RoutersOfKey
        <4>3. table \in Seq(Nat) /\ Increasing(table)
          BY ConstantsTyped, SeqMonotonic DEF TypeOK, RoutingInv
        <4> QED
          BY <2>3, <4>2, <4>3 DEF RoutedBy
      <3> QED
        BY <1>6, <2>1, <3>1, <3>2, <3>3
    <2> QED
      BY <2>2, <2>3
  <1>8. ASSUME NEW c \in Callers, Visits(c) PROVE RoutingInv'
    <2>1. UNCHANGED <<table, request, acknowledged>> /\ request[c].cluster /\ pc[c] = "loop"
      BY <1>8 DEF Visits, ClusterInv, Progresses
    <2>2. \/ UNCHANGED <<seen, target>> /\ pc' \in {pc, [pc EXCEPT ![c] = "idle"]}
          \/ \E i \in 1 .. Len(table) : GivesJob(c, i)
      <3>1. Len(answers[c]) + 1 \in Nat \ {0} /\ Len(table) \in Nat
        BY DEF TypeOK
      <3> QED
        BY <1>8, <3>1 DEF Visits, Panics
    <2>3. CASE UNCHANGED <<seen, target>> /\ pc' \in {pc, [pc EXCEPT ![c] = "idle"]}
      BY <2>1, <2>3, RoutingKept DEF TypeOK
    <2> QED
      BY <1>6, <2>1, <2>2, <2>3
  <1>9. ASSUME NEW c \in Callers, Executes(c) PROVE RoutingInv'
    <2>1. /\ UNCHANGED <<table, request, seen, target, acknowledged>>
          /\ pc[c] = "job" /\ \A d \in Callers \ {c} : UNCHANGED pc[d]
      BY <1>9 DEF Executes, TypeOK
    <2> QED
      BY <2>1, RoutingKept
  <1>10. ASSUME NEW c \in Callers, NEW a, Answers(c, a)
         PROVE  /\ UNCHANGED <<table, request>>
                /\ \A d \in Callers :
                     pc'[d] \in {"job", "executed"} =>
                       /\ pc[d] \in {"job", "executed"}
                       /\ UNCHANGED <<request[d], seen[d], target[d]>>
    <2>1. /\ UNCHANGED <<table, request>>
          /\ pc' = [pc EXCEPT ![c] = IF request[c].cluster THEN "loop" ELSE "idle"]
          /\ \A d \in Callers \ {c} : UNCHANGED <<seen[d], target[d]>>
      BY <1>10 DEF Answers, TypeOK
    <2> QED
      BY <2>1 DEF TypeOK
  <1>11. ASSUME NEW c \in Callers, Succeeds(c) PROVE RoutingInv'
    <2>1. pc[c] = "executed"
      BY <1>11 DEF Succeeds
    <2>2. \A a \in acknowledged' : a \in acknowledged \/
            (a = Acknowledgement(c) /\ ~request[c].cluster /\ IsStore(request[c]))
      BY <1>11, <2>1 DEF Succeeds, DataInv
    <2>3. \A a \in acknowledged' : RoutedBy(a.hash, a.key, a.nodes, a.node)
      BY <2>1, <2>2 DEF RoutingInv, Acknowledgement, IsStore
    <2>4. /\ UNCHANGED <<table, request>>
          /\ \A d \in Callers :
               pc'[d] \in {"job", "executed"} =>
                 /\ pc[d] \in {"job", "executed"}
                 /\ UNCHANGED <<request[d], seen[d], target[d]>>
      BY <1>10, <1>11 DEF Succeeds
    <2> QED
      BY <2>3, <2>4 DEF RoutingInv, Composite
  <1>12. ASSUME NEW c \in Callers, Fails(c) PROVE RoutingInv'
    BY <1>10, <1>12, RoutingKept DEF Fails
  <1> QED
    BY <1>1, <1>2, <1>3, <1>4, <1>5, <1>7, <1>8, <1>9, <1>11, <1>12 DEF Next, CallerStep

(* A key is looked for where it was stored whenever the same nodes are       *)
(* connected, whatever tables were published and however it is divided.      *)
THEOREM RoutingStable == Spec => []RoutingIsStable
  <1>1. Init => RoutingInv
    BY TablesIncrease DEF Init, RoutingInv
  <1>2. RoutingInv => RoutingIsStable
    BY RoutedAlike DEF RoutingInv, RoutingIsStable
  <1> QED
    BY <1>1, <1>2, RoutingStep, KeysInvHolds, ClusterInvHolds, PTL DEF Spec
=============================================================================
