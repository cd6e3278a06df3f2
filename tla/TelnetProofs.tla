---------------------------- MODULE TelnetProofs ----------------------------
(***************************************************************************)
(* Theorems about Telnet, for all addresses, commands, answers, patterns,  *)
(* sizes of the read buffer and numbers of requests.                       *)
(***************************************************************************)
EXTENDS Telnet, SequenceTheorems, WellFoundedInduction, TLAPS

-----------------------------------------------------------------------------
(* Sequences of pieces: what the server sends and what Read takes.           *)
Pieces(number, a) == [i \in DOMAIN a |-> [request |-> number, token |-> a[i]]]

LEMMA PiecesTyped ==
    ASSUME NEW number \in 1 .. MaxRequests, NEW a \in Seq(Tokens)
    PROVE  /\ Pieces(number, a) \in Seq(Piece)
           /\ Len(Pieces(number, a)) = Len(a)
           /\ DOMAIN Pieces(number, a) = 1 .. Len(a)
           /\ \A i \in 1 .. Len(a) : Pieces(number, a)[i].token = a[i]
  <1>1. DOMAIN a = 1 .. Len(a) /\ Len(a) \in Nat /\ \A i \in 1 .. Len(a) : a[i] \in Tokens
    OBVIOUS
  <1>2. Pieces(number, a) \in [1 .. Len(a) -> Piece]
    BY <1>1 DEF Pieces, Piece
  <1> QED
    BY <1>1, <1>2 DEF Pieces

(* A chunk is the beginning of what arrives, the rest of it arrives later.   *)
LEMMA ChunkSplits ==
    ASSUME arriving \in Seq(Piece), NEW chunk \in Chunks
    PROVE  /\ chunk \in Seq(Piece) /\ Len(chunk) \in 1 .. Len(arriving)
           /\ \A i \in 1 .. Len(chunk) : chunk[i] = arriving[i]
           /\ SubSeq(arriving, Len(chunk) + 1, Len(arriving)) \in Seq(Piece)
           /\ Len(SubSeq(arriving, Len(chunk) + 1, Len(arriving))) = Len(arriving) - Len(chunk)
           /\ \A i \in 1 .. Len(arriving) - Len(chunk) :
                SubSeq(arriving, Len(chunk) + 1, Len(arriving))[i] = arriving[Len(chunk) + i]
  <1>1. PICK n \in 1 .. Min({Len(arriving), ReadBufferSize}) : chunk = SubSeq(arriving, 1, n)
    BY DEF Chunks
  <1>2. Len(arriving) \in Nat /\ ReadBufferSize \in Nat
    BY SizeAssumption
  <1>3. Min({Len(arriving), ReadBufferSize}) \in Nat
        /\ Min({Len(arriving), ReadBufferSize}) <= Len(arriving)
    <2>1. CASE Len(arriving) <= ReadBufferSize
      BY <1>2, <2>1 DEF Min
    <2>2. CASE ~(Len(arriving) <= ReadBufferSize)
      BY <1>2, <2>2 DEF Min
    <2> QED
      BY <2>1, <2>2
  <1>4. n \in 1 .. Len(arriving)
    BY <1>2, <1>3
  <1>5. chunk \in Seq(Piece) /\ Len(chunk) = n /\ \A i \in 1 .. n : chunk[i] = arriving[i]
    BY <1>1, <1>2, <1>4
  <1> DEFINE rest == SubSeq(arriving, n + 1, Len(arriving))
  <1>6. /\ rest \in Seq(Piece) /\ Len(rest) = Len(arriving) - n
        /\ \A i \in 1 .. Len(arriving) - n : rest[i] = arriving[i + n]
    BY <1>2, <1>4
  <1>7. \A i \in 1 .. Len(arriving) - n : i + n = n + i
    BY <1>2, <1>4
  <1>8. \A i \in 1 .. Len(arriving) - n : rest[i] = arriving[n + i]
    BY <1>6, <1>7
  <1> HIDE DEF rest
  <1> QED
    BY <1>4, <1>5, <1>6, <1>8 DEF rest

(* Some pattern of a set that has one in the chunk is the first one.         *)
LEMMA TypeOfChunk ==
    ASSUME command \in Commands, NEW chunk, Matches(chunk) # {}
    PROVE  \E i \in Matches(chunk) :
             /\ ResultType(chunk) = ResponseSet[command][i].type /\ ResultType(chunk) \in Types
             /\ \A j \in Matches(chunk) : i <= j
  <1> DEFINE M == Matches(chunk)
             R == OpToRel(<, Nat)
  <1>1. /\ ResponseSet[command] \in Seq([pattern : Seq(Tokens), type : Types])
        /\ M \subseteq DOMAIN ResponseSet[command]
    BY ResponseAssumption DEF Matches
  <1>2. M \subseteq Nat /\ \A i \in M : ResponseSet[command][i].type \in Types
    <2> SUFFICES ASSUME NEW i \in M
                 PROVE  i \in Nat /\ ResponseSet[command][i].type \in Types
      OBVIOUS
    <2>1. i \in 1 .. Len(ResponseSet[command]) /\ Len(ResponseSet[command]) \in Nat
      BY <1>1
    <2> DEFINE Entries == [pattern : Seq(Tokens), type : Types]
    <2>2. ResponseSet[command] \in Seq(Entries)
      BY <1>1
    <2>3. \A e \in Entries : e.type \in Types
      OBVIOUS
    <2> HIDE DEF Entries
    <2>4. ResponseSet[command][i] \in Entries
      BY <2>1, <2>2
    <2> QED
      BY <2>1, <2>3, <2>4
  <1>3. \E x \in M : \A y \in M : ~(<<y, x>> \in R)
    <2>1. IsWellFoundedOn(R, Nat)
      BY NatLessThanWellFounded
    <2> HIDE DEF M, R
    <2> QED
      BY <1>2, <2>1, WFMin DEF M
  <1>4. \A x, y \in M : ~(<<y, x>> \in R) => x <= y
    BY <1>2 DEF OpToRel
  <1>5. \E i \in M : \A j \in M : i <= j
    BY <1>3, <1>4
  <1> QED
    BY <1>2, <1>5 DEF ResultType

-----------------------------------------------------------------------------
(* Types, and the connection under a Read.                                   *)
Typing ==
    /\ TypeOK
    /\ pc \notin {"idle", "closed"} => request # 0
    /\ pc \in {"read", "reading"} => connection # "nil"

LEMMA NothingTyped ==
    /\ <<>> \in Seq(Piece)
    /\ Failed.type \notin Types
  BY ResponseAssumption DEF Failed

LEMMA TypingStep == Typing /\ [Next]_vars => Typing'
  <1> SUFFICES ASSUME Typing, [Next]_vars PROVE Typing'
    OBVIOUS
  <1> USE NothingTyped, SizeAssumption DEF Typing, wire, sent
  <1>1. CASE Send
    BY <1>1 DEF Send, TypeOK
  <1>2. CASE WriteSucceeds
    <2> DEFINE r == [request |-> request, command |-> command]
               Requests == [request : 1 .. MaxRequests, command : Commands]
    <2>1. r \in Requests /\ received \in Seq(Requests)
      BY <1>2 DEF WriteSucceeds, TypeOK
    <2>2. received' = Append(received, r) \/ received' = received
      BY <1>2 DEF WriteSucceeds
    <2> HIDE DEF r, Requests
    <2>3. received' \in Seq(Requests)
      BY <2>1, <2>2
    <2> USE DEF Requests
    <2> QED
      BY <1>2, <2>3 DEF WriteSucceeds, TypeOK
  <1>3. CASE WriteFails \/ ReadStarts \/ ReadFails
    BY <1>3 DEF WriteFails, ReadStarts, ReadFails, Return, TypeOK
  <1>4. CASE ReadChunk
    <2>1. PICK chunk \in Chunks :
            /\ arriving' = SubSeq(arriving, Len(chunk) + 1, Len(arriving))
            /\ IF Matches(chunk) # {}
               THEN Return([type |-> ResultType(chunk), data |-> fullBuffer \o chunk])
               ELSE fullBuffer' = fullBuffer \o chunk /\ UNCHANGED <<pc, result, op>>
      BY <1>4 DEF ReadChunk
    <2>2. arriving' \in Seq(Piece) /\ fullBuffer \o chunk \in Seq(Piece)
      BY <2>1, ChunkSplits DEF TypeOK
    <2>3. Matches(chunk) # {} => ResultType(chunk) \in Types
      BY TypeOfChunk DEF TypeOK
    <2>4. CASE Matches(chunk) # {}
      <3> DEFINE r == [type |-> ResultType(chunk), data |-> fullBuffer \o chunk]
      <3>1. r \in [type : Types \cup {"none"}, data : Seq(Piece)]
        BY <2>2, <2>3, <2>4
      <3> HIDE DEF r
      <3>2. Return(r)
        BY <2>1, <2>4 DEF r
      <3> QED
        BY <1>4, <2>2, <3>1, <3>2 DEF ReadChunk, Return, TypeOK
    <2>5. CASE Matches(chunk) = {}
      BY <1>4, <2>1, <2>2, <2>5 DEF ReadChunk, TypeOK
    <2> QED
      BY <2>4, <2>5
  <1>5. CASE ReadEOF
    BY <1>5 DEF ReadEOF, Return, TypeOK
  <1>6. CASE TimesOut
    BY <1>6 DEF TimesOut, Disconnect, TypeOK
  <1>7. CASE Resolve
    BY <1>7 DEF Resolve, ReconnectFails, Return, TypeOK
  <1>8. CASE Dial
    BY <1>8 DEF Dial, ReconnectFails, Return, TypeOK
  <1>9. CASE Close
    BY <1>9 DEF Close, Disconnect, TypeOK
  <1>10. CASE ServerAnswers
    <2>1. received # <<>> /\ received \in Seq([request : 1 .. MaxRequests, command : Commands])
      BY <1>10 DEF ServerAnswers, TypeOK
    <2>2. /\ Head(received).request \in 1 .. MaxRequests
          /\ Head(received).command \in Commands
          /\ Tail(received) \in Seq([request : 1 .. MaxRequests, command : Commands])
      <3> DEFINE Requests == [request : 1 .. MaxRequests, command : Commands]
      <3>1. Head(received) \in Requests /\ Tail(received) \in Seq(Requests)
        BY <2>1, HeadTailProperties
      <3> QED
        BY <3>1
    <2>3. PICK a \in Answers[Head(received).command] : ServerAnswersWith(a)
      BY <1>10 DEF ServerAnswers
    <2>4. Pieces(Head(received).request, a) \in Seq(Piece)
      BY <2>2, AnswerAssumption, PiecesTyped
    <2>5. /\ arriving' = arriving \o Pieces(Head(received).request, a)
          /\ answer' \in {Pieces(Head(received).request, a), answer}
          /\ received' = Tail(received)
          /\ UNCHANGED <<connection, address, onFailure, pc, op, sent, fullBuffer, result,
                         checker, panicked>>
      BY <2>3 DEF ServerAnswersWith, Pieces
    <2> QED
      BY <2>2, <2>4, <2>5 DEF TypeOK
  <1>11. CASE ServerCloses
    <2>1. PICK n \in 0 .. Len(arriving) : arriving' = SubSeq(arriving, 1, n)
      BY <1>11 DEF ServerCloses
    <2>2. arriving' \in Seq(Piece)
      BY <2>1 DEF TypeOK
    <2> QED
      BY <1>11, <2>2 DEF ServerCloses, TypeOK
  <1>12. CASE CheckerStep
    BY <1>12 DEF CheckerStep, CheckerTick, CheckerPasses, CheckerReports, CheckerPanics, TypeOK
  <1>13. CASE UNCHANGED vars
    BY <1>13 DEF vars, TypeOK
  <1> QED
    BY <1>1, <1>2, <1>3, <1>4, <1>5, <1>6, <1>7, <1>8, <1>9, <1>10, <1>11, <1>12, <1>13
    DEF Next, WorkerStep, Proceeds

LEMMA InitTyped == Init => Typing
  <1> SUFFICES ASSUME Init PROVE Typing
    OBVIOUS
  <1>1. command \in Commands /\ request \in 0 .. MaxRequests
    BY AnswerAssumption, SizeAssumption DEF Init
  <1>2. received \in Seq([request : 1 .. MaxRequests, command : Commands])
    BY DEF Init
  <1> QED
    BY <1>1, <1>2, NothingTyped, SizeAssumption DEF Init, Typing, TypeOK

LEMMA TypingHolds == Spec => []Typing
  BY InitTyped, TypingStep, PTL DEF Spec

(* Every variable keeps its type.                                            *)
THEOREM TelnetTypeCorrect == Spec => []TypeOK
  <1>1. Typing => TypeOK
    BY DEF Typing
  <1> QED
    BY <1>1, TypingHolds, PTL

(* Read is never called without a connection.                                *)
THEOREM ReadsConnected == Spec => []ReadsAreConnected
  <1>1. Typing => ReadsAreConnected
    BY DEF Typing, ReadsAreConnected
  <1> QED
    BY <1>1, TypingHolds, PTL

-----------------------------------------------------------------------------
(* The wire.  While the worker reads, the server has at most the command it   *)
(* waits for; what was read and what arrives are the beginning of its answer; *)
(* at any other time there is nothing on a connection that is used again.    *)
BeginsWith(whole, front, back) ==
    /\ Len(front) + Len(back) <= Len(whole)
    /\ \A i \in 1 .. Len(front) : front[i] = whole[i]
    /\ \A i \in 1 .. Len(back) : back[i] = whole[Len(front) + i]

Awaits ==
    /\ Len(received) <= 1
    /\ received # <<>> =>
         received = <<[request |-> request, command |-> command]>> /\ answer = <<>>
    /\ answer # <<>> => \E a \in Answers[command] : answer = Pieces(request, a)
    /\ BeginsWith(answer, fullBuffer, arriving)

Quiet == received = <<>> /\ arriving = <<>>

WireInv ==
    /\ Len(received) <= 1
    /\ connection # "open" => received = <<>>
    /\ pc # "reading" => fullBuffer = <<>>
    /\ pc \in {"write", "resolve", "dial", "closed"} => Quiet
    /\ pc = "write" => answer = <<>>
    /\ pc \in {"read", "reading"} => Awaits
    /\ pc = "idle" /\ ~onFailure => Quiet
    /\ pc \in {"idle", "closed"} /\ result.type \in Types => received = <<>> /\ result.data = answer

(* A chunk is a part of the answer.                                          *)
TokensOf(chunk) == [i \in DOMAIN chunk |-> chunk[i].token]

LEMMA ChunkIsAPart ==
    ASSUME Typing, WireInv, pc = "reading", NEW chunk \in Chunks
    PROVE  \E a \in Answers[command] :
             /\ a \in Seq(Tokens) /\ answer = Pieces(request, a) /\ Len(answer) = Len(a)
             /\ Len(fullBuffer) + 1 \in 1 .. Len(a)
             /\ Len(fullBuffer) + Len(chunk) \in 1 .. Len(a)
             /\ Len(fullBuffer) + 1 <= Len(fullBuffer) + Len(chunk)
             /\ TokensOf(chunk) = SubSeq(a, Len(fullBuffer) + 1, Len(fullBuffer) + Len(chunk))
  <1> DEFINE m == Len(fullBuffer)
             k == Len(chunk)
  <1>1. /\ arriving \in Seq(Piece) /\ fullBuffer \in Seq(Piece) /\ answer \in Seq(Piece)
        /\ command \in Commands /\ request \in 1 .. MaxRequests
    BY SizeAssumption DEF Typing, TypeOK
  <1>2. /\ m \in Nat /\ k \in 1 .. Len(arriving) /\ chunk \in Seq(Piece)
        /\ \A i \in 1 .. k : chunk[i] = arriving[i]
    BY <1>1, ChunkSplits
  <1>3. Awaits
    BY DEF WireInv
  <1>4. m + k <= Len(answer) /\ \A i \in 1 .. k : chunk[i] = answer[m + i]
    <2>1. k <= Len(arriving) /\ m + Len(arriving) <= Len(answer)
      BY <1>2, <1>3 DEF Awaits, BeginsWith
    <2>2. \A i \in 1 .. k : i \in 1 .. Len(arriving)
      BY <1>1, <1>2
    <2>3. \A i \in 1 .. k : chunk[i] = answer[m + i]
      BY <1>2, <1>3, <2>2 DEF Awaits, BeginsWith
    <2> QED
      BY <1>1, <1>2, <2>1, <2>3
  <1> HIDE DEF m, k
  <1>5. answer # <<>>
    BY <1>1, <1>2, <1>4
  <1>6. PICK a \in Answers[command] : answer = Pieces(request, a)
    BY <1>3, <1>5 DEF Awaits
  <1>7. a \in Seq(Tokens)
    BY <1>1, <1>6, AnswerAssumption
  <1>8. Len(answer) = Len(a) /\ \A i \in 1 .. Len(a) : answer[i].token = a[i]
    BY <1>1, <1>6, <1>7, PiecesTyped
  <1> DEFINE s == TokensOf(chunk)
             t == SubSeq(a, m + 1, m + k)
  <1>9. m + 1 \in 1 .. Len(a) /\ m + k \in 1 .. Len(a) /\ m + 1 <= m + k
    BY <1>1, <1>2, <1>4, <1>7, <1>8
  <1>10. s = t
    <2>1. DOMAIN chunk = 1 .. k
      BY <1>2 DEF k
    <2>2. t = [i \in 1 .. k |-> a[m + i]]
      <3>1. t \in Seq(Tokens) /\ Len(t) = k /\ \A i \in 1 .. k : t[i] = a[m + i]
        <4>1. /\ t \in Seq(Tokens) /\ Len(t) = k
              /\ \A i \in 1 .. k : t[i] = a[i + m]
          BY <1>2, <1>7, <1>9
        <4>2. \A i \in 1 .. k : i + m = m + i
          BY <1>2
        <4> QED
          BY <4>1, <4>2
      <3> QED
        BY <3>1
    <2>3. \A i \in 1 .. k : chunk[i].token = a[m + i]
      <3>1. \A i \in 1 .. k : m + i \in 1 .. Len(a)
        BY <1>2, <1>4, <1>8
      <3> QED
        BY <1>4, <1>8, <3>1
    <2> QED
      BY <2>1, <2>2, <2>3 DEF TokensOf
  <1> HIDE DEF s, t
  <1> QED
    BY <1>6, <1>7, <1>8, <1>9, <1>10 DEF m, k, s, t

(* A chunk in which a pattern is found is the end of the answer.             *)
LEMMA MatchIsTheEnd ==
    ASSUME Unambiguous, Typing, WireInv, pc = "reading", NEW chunk \in Chunks,
           Matches(chunk) # {}
    PROVE  Len(fullBuffer) + Len(chunk) = Len(answer)
  <1>1. PICK a \in Answers[command] :
             /\ Len(answer) = Len(a)
             /\ Len(fullBuffer) + 1 \in 1 .. Len(a)
             /\ Len(fullBuffer) + Len(chunk) \in 1 .. Len(a)
             /\ Len(fullBuffer) + 1 <= Len(fullBuffer) + Len(chunk)
             /\ TokensOf(chunk) = SubSeq(a, Len(fullBuffer) + 1, Len(fullBuffer) + Len(chunk))
    BY ChunkIsAPart
  <1>2. PICK i \in DOMAIN ResponseSet[command] :
          Occurs(TokensOf(chunk), ResponseSet[command][i].pattern)
    BY DEF Matches, TokensOf
  <1>3. command \in Commands
    BY DEF Typing, TypeOK
  <1> QED
    BY <1>1, <1>2, <1>3 DEF Unambiguous

(* A chunk is moved to the buffer. *)
LEMMA ChunkMovesTo ==
    ASSUME Typing, Awaits, NEW chunk \in Chunks
    PROVE  BeginsWith(answer, fullBuffer \o chunk,
                      SubSeq(arriving, Len(chunk) + 1, Len(arriving)))
  <1> DEFINE rest == SubSeq(arriving, Len(chunk) + 1, Len(arriving))
             buffer == fullBuffer \o chunk
             m == Len(fullBuffer)
             k == Len(chunk)
             n == Len(arriving)
  <1>1. /\ arriving \in Seq(Piece) /\ fullBuffer \in Seq(Piece) /\ answer \in Seq(Piece)
        /\ m \in Nat /\ n \in Nat
    BY DEF Typing, TypeOK
  <1>2. /\ k \in 1 .. n /\ chunk \in Seq(Piece)
        /\ \A i \in 1 .. k : chunk[i] = arriving[i]
        /\ Len(rest) = n - k
        /\ \A i \in 1 .. n - k : rest[i] = arriving[k + i]
    BY <1>1, ChunkSplits
  <1>3. /\ Len(buffer) = m + k
        /\ \A i \in 1 .. m + k : buffer[i] = IF i <= m THEN fullBuffer[i] ELSE chunk[i - m]
    BY <1>1, <1>2, ConcatProperties
  <1>4. /\ m + n <= Len(answer)
        /\ \A i \in 1 .. m : fullBuffer[i] = answer[i]
        /\ \A i \in 1 .. n : arriving[i] = answer[m + i]
    BY DEF Awaits, BeginsWith
  <1> HIDE DEF m, k, n, rest, buffer
  <1>5. ASSUME NEW i \in 1 .. m + k PROVE buffer[i] = answer[i]
    <2>1. CASE i <= m
      BY <1>1, <1>3, <1>4, <2>1
    <2>2. CASE ~(i <= m)
      <3>1. i - m \in 1 .. k /\ i - m \in 1 .. n /\ m + (i - m) = i
        BY <1>1, <1>2, <2>2
      <3>2. buffer[i] = chunk[i - m]
        BY <1>3, <2>2
      <3> QED
        BY <1>2, <1>4, <3>1, <3>2
    <2> QED
      BY <2>1, <2>2
  <1>6. ASSUME NEW i \in 1 .. n - k PROVE rest[i] = answer[m + k + i]
    <2>1. k + i \in 1 .. n /\ m + (k + i) = m + k + i
      BY <1>1, <1>2
    <2> QED
      BY <1>2, <1>4, <2>1
  <1>7. m + k + (n - k) = m + n
    BY <1>1, <1>2
  <1> QED
    BY <1>2, <1>3, <1>4, <1>5, <1>6, <1>7 DEF BeginsWith, m, k, n, rest, buffer

(* All of an answer that came in chunks is that answer. *)
LEMMA WholeAnswer ==
    ASSUME NEW whole \in Seq(Piece), NEW front \in Seq(Piece), NEW back \in Seq(Piece),
           BeginsWith(whole, front, back), Len(front) = Len(whole)
    PROVE  front = whole /\ back = <<>>
  <1>1. Len(back) = 0
    BY DEF BeginsWith
  <1>2. \A i \in 1 .. Len(whole) : front[i] = whole[i]
    BY DEF BeginsWith
  <1> QED
    BY <1>1, <1>2

(* A Send or Read that ends with an error or without a type. *)
LEMMA ReturnsUntyped ==
    ASSUME Typing, WireInv, NEW r, Return(r), r.type \notin Types,
           UNCHANGED <<connection, received, answer, arriving>>,
           onFailure' \/ Quiet
    PROVE  WireInv'
  BY DEF Return, WireInv, Quiet

LEMMA WireStep ==
    ASSUME Unambiguous
    PROVE  Typing /\ WireInv /\ [Next]_vars => WireInv'
  <1> SUFFICES ASSUME Typing, WireInv, [Next]_vars PROVE WireInv'
    OBVIOUS
  <1> USE NothingTyped DEF wire, sent
  <1>1. CASE Send
    BY <1>1 DEF Send, WireInv, Quiet
  <1>2. CASE WriteSucceeds
    <2> DEFINE r == [request |-> request, command |-> command]
    <2>1. /\ pc = "write" /\ pc' = "read" /\ Quiet /\ answer = <<>> /\ fullBuffer = <<>>
          /\ UNCHANGED <<connection, answer, arriving, fullBuffer, request, command>>
      BY <1>2 DEF WriteSucceeds, WireInv
    <2>2. received' \in {<<>>, <<r>>} /\ (connection # "open" => received' = <<>>)
      BY <1>2, <2>1 DEF WriteSucceeds, Quiet
    <2>3. Len(received') <= 1 /\ (received' # <<>> => received' = <<r>>)
      BY <2>2
    <2>4. Awaits'
      BY <2>1, <2>3 DEF Awaits, Quiet, BeginsWith
    <2> QED
      BY <2>1, <2>2, <2>3, <2>4 DEF WireInv
  <1>3. CASE WriteFails \/ ReadFails
    BY <1>3, ReturnsUntyped DEF WriteFails, ReadFails
  <1>4. CASE ReadStarts
    <2>1. CASE onFailure
      BY <1>4, <2>1, ReturnsUntyped DEF ReadStarts
    <2>2. CASE ~onFailure
      BY <1>4, <2>2 DEF ReadStarts, WireInv, Awaits, BeginsWith
    <2> QED
      BY <2>1, <2>2
  <1>5. CASE ReadChunk
    <2>1. PICK chunk \in Chunks :
            /\ arriving' = SubSeq(arriving, Len(chunk) + 1, Len(arriving))
            /\ IF Matches(chunk) # {}
               THEN Return([type |-> ResultType(chunk), data |-> fullBuffer \o chunk])
               ELSE fullBuffer' = fullBuffer \o chunk /\ UNCHANGED <<pc, result, op>>
      BY <1>5 DEF ReadChunk
    <2>2. /\ pc = "reading" /\ Awaits
          /\ UNCHANGED <<connection, onFailure, request, command, received, answer>>
      BY <1>5 DEF ReadChunk, WireInv
    <2>3. received = <<>>
      <3>1. Len(arriving) # 0 /\ answer \in Seq(Piece) /\ arriving \in Seq(Piece)
            /\ fullBuffer \in Seq(Piece)
        BY <2>1, ChunkSplits DEF Typing, TypeOK
      <3>2. Len(answer) # 0
        BY <2>2, <3>1 DEF Awaits, BeginsWith
      <3> QED
        BY <2>2, <3>1, <3>2 DEF Awaits
    <2>4. CASE Matches(chunk) # {}
      <3> DEFINE r == [type |-> ResultType(chunk), data |-> fullBuffer \o chunk]
                 buffer == fullBuffer \o chunk
      <3>1. /\ arriving \in Seq(Piece) /\ fullBuffer \in Seq(Piece) /\ answer \in Seq(Piece)
            /\ chunk \in Seq(Piece) /\ arriving' \in Seq(Piece) /\ buffer \in Seq(Piece)
            /\ Len(buffer) = Len(fullBuffer) + Len(chunk)
        BY <2>1, ChunkSplits DEF Typing, TypeOK
      <3>2. Len(buffer) = Len(answer)
        BY <2>2, <2>4, <3>1, MatchIsTheEnd
      <3>3. BeginsWith(answer, buffer, arriving')
        BY <2>1, <2>2, ChunkMovesTo
      <3>4. buffer = answer /\ arriving' = <<>>
        BY <3>1, <3>2, <3>3, WholeAnswer
      <3>5. pc' = "idle" /\ fullBuffer' = <<>> /\ result' = r
        BY <2>1, <2>4 DEF Return
      <3>6. result'.data = answer
        BY <3>4, <3>5
      <3> QED
        BY <2>2, <2>3, <3>4, <3>5, <3>6 DEF WireInv, Quiet
    <2>5. CASE Matches(chunk) = {}
      <3>1. UNCHANGED <<pc, result>> /\ fullBuffer' = fullBuffer \o chunk
        BY <2>1, <2>5
      <3>2. BeginsWith(answer, fullBuffer', arriving')
        BY <2>1, <2>2, <3>1, ChunkMovesTo
      <3> QED
        BY <2>2, <2>3, <3>1, <3>2 DEF WireInv, Awaits
    <2> QED
      BY <2>4, <2>5
  <1>6. CASE ReadEOF
    <2>1. Quiet
      BY <1>6 DEF ReadEOF, WireInv, Quiet
    <2> QED
      BY <1>6, <2>1, ReturnsUntyped, ResponseAssumption DEF ReadEOF
  <1>7. CASE TimesOut \/ Close
    BY <1>7 DEF TimesOut, Close, Disconnect, WireInv, Quiet
  <1>8. CASE Resolve
    <2>1. Quiet /\ UNCHANGED <<connection, received, answer, arriving, request, command>>
      BY <1>8 DEF Resolve, WireInv
    <2>2. CASE ReconnectFails
      BY <2>1, <2>2, ReturnsUntyped DEF ReconnectFails
    <2>3. CASE pc' = "dial" /\ UNCHANGED <<onFailure, result, op, fullBuffer>>
      BY <1>8, <2>1, <2>3 DEF Resolve, WireInv, Quiet
    <2> QED
      BY <1>8, <2>2, <2>3 DEF Resolve
  <1>9. CASE Dial
    <2>1. Quiet /\ UNCHANGED <<received, answer, arriving, request, command>>
      BY <1>9 DEF Dial, WireInv
    <2>2. CASE ReconnectFails /\ UNCHANGED connection
      BY <2>1, <2>2, ReturnsUntyped DEF ReconnectFails
    <2>3. CASE connection' = "open" /\ Return(Failed) /\ UNCHANGED onFailure
      BY <2>1, <2>3 DEF Return, WireInv, Quiet
    <2> QED
      BY <1>9, <2>2, <2>3 DEF Dial
  <1>10. CASE ServerAnswers
    <2>1. PICK a \in Answers[Head(received).command] : ServerAnswersWith(a)
      BY <1>10 DEF ServerAnswers
    <2> DEFINE r == Head(received)
               pieces == Pieces(r.request, a)
    <2>2. /\ received # <<>>
          /\ arriving' = arriving \o pieces
          /\ answer' = IF r.request = request THEN pieces ELSE answer
          /\ received' = Tail(received)
          /\ UNCHANGED <<connection, onFailure, pc, request, command, fullBuffer, result>>
      BY <2>1 DEF ServerAnswersWith, Pieces
    <2>3. received' = <<>> /\ received \in Seq([request : 1 .. MaxRequests, command : Commands])
      BY <2>2 DEF WireInv, Typing, TypeOK
    <2>4. pc \notin {"write", "resolve", "dial", "closed"} /\ (pc = "idle" => onFailure)
      BY <2>2 DEF WireInv, Quiet
    <2>5. ASSUME pc \in {"read", "reading"} PROVE Awaits'
      <3>1. Awaits /\ received = <<[request |-> request, command |-> command]>> /\ answer = <<>>
        BY <2>2, <2>5 DEF WireInv, Awaits
      <3>2. r.request = request /\ r.command = command
        BY <3>1
      <3>3. command \in Commands /\ request \in 1 .. MaxRequests
        BY <2>5, SizeAssumption DEF Typing, TypeOK
      <3>4. a \in Seq(Tokens)
        BY <3>2, <3>3, AnswerAssumption
      <3>5. pieces \in Seq(Piece)
        BY <3>2, <3>3, <3>4, PiecesTyped
      <3>6. arriving = <<>> /\ fullBuffer = <<>>
        BY <3>1 DEF Awaits, BeginsWith, Typing, TypeOK
      <3>7. arriving' = pieces /\ answer' = pieces /\ fullBuffer' = <<>>
        BY <2>2, <3>2, <3>5, <3>6
      <3>8. \E b \in Answers[command] : answer' = Pieces(request, b)
        BY <3>2, <3>7
      <3> HIDE DEF pieces
      <3>9. BeginsWith(answer', fullBuffer', arriving')
        BY <3>5, <3>7 DEF BeginsWith
      <3>10. UNCHANGED <<request, command>>
        BY <2>2
      <3>11. \E b \in Answers[command'] : answer' = Pieces(request', b)
        BY <3>8, <3>10
      <3>12. Len(received') <= 1
        BY <2>3
      <3> QED
        BY <2>3, <3>9, <3>11, <3>12 DEF Awaits, Pieces
    <2>6. ~(pc = "idle" /\ result.type \in Types)
      BY <2>2 DEF WireInv
    <2> QED
      BY <2>2, <2>3, <2>4, <2>5, <2>6 DEF WireInv
  <1>11. CASE ServerCloses
    <2>1. PICK n \in 0 .. Len(arriving) : arriving' = SubSeq(arriving, 1, n)
      BY <1>11 DEF ServerCloses
    <2>2. /\ connection' = "dead" /\ received' = <<>>
          /\ UNCHANGED <<onFailure, pc, request, command, answer, fullBuffer, result>>
      BY <1>11 DEF ServerCloses
    <2>3. /\ arriving \in Seq(Piece) /\ Len(arriving') <= Len(arriving)
          /\ \A i \in 1 .. Len(arriving') : i \in 1 .. Len(arriving) /\ arriving'[i] = arriving[i]
          /\ Len(arriving) \in Nat /\ Len(arriving') \in Nat
      BY <2>1 DEF Typing, TypeOK
    <2>4. arriving = <<>> => arriving' = <<>>
      BY <2>1, <2>3
    <2>5. Awaits => Awaits'
      <3> SUFFICES ASSUME Awaits PROVE Awaits'
        OBVIOUS
      <3>1. Len(fullBuffer) \in Nat /\ Len(answer) \in Nat
        BY DEF Typing, TypeOK
      <3>2. BeginsWith(answer, fullBuffer, arriving')
        BY <2>3, <3>1 DEF Awaits, BeginsWith
      <3> QED
        BY <2>2, <3>2 DEF Awaits
    <2> QED
      BY <2>2, <2>4, <2>5 DEF WireInv, Quiet
  <1>12. CASE CheckerStep
    <2>1. /\ UNCHANGED <<connection, pc, request, command, received, answer, arriving, fullBuffer,
                         result>>
          /\ onFailure => onFailure'
      BY <1>12 DEF CheckerStep, CheckerTick, CheckerPasses, CheckerReports, CheckerPanics
    <2> QED
      BY <2>1 DEF WireInv, Awaits, Quiet
  <1>13. CASE UNCHANGED vars
    BY <1>13 DEF vars, WireInv, Awaits, Quiet
  <1> QED
    BY <1>1, <1>2, <1>3, <1>4, <1>5, <1>6, <1>7, <1>8, <1>9, <1>10, <1>11, <1>12, <1>13
    DEF Next, WorkerStep, Proceeds

LEMMA InitWired == Init => WireInv
  BY NothingTyped DEF Init, WireInv, Quiet

LEMMA WireInvHolds == ASSUME Unambiguous PROVE Spec => [](Typing /\ WireInv)
  BY InitWired, WireStep, TypingHolds, PTL DEF Spec

(* A typed result is the whole answer to the last command, if what is looked *)
(* for is at the end of answers only.                                        *)
THEOREM RepliesAreAnswers == ASSUME Unambiguous PROVE Spec => []ReplyIsTheAnswer
  <1>1. WireInv => ReplyIsTheAnswer
    BY DEF WireInv, ReplyIsTheAnswer
  <1> QED
    BY <1>1, WireInvHolds, PTL

(* And nothing of it stays behind for the next command.                      *)
THEOREM NothingStaysUnread == ASSUME Unambiguous PROVE Spec => []NothingLeftUnread
  <1>1. WireInv => NothingLeftUnread
    BY DEF WireInv, Quiet, NothingLeftUnread
  <1> QED
    BY <1>1, WireInvHolds, PTL
=============================================================================
