--------------------------- MODULE CommandsProofs ---------------------------
(***************************************************************************)
(* Theorems about Commands, for all values, addresses, sizes of the read   *)
(* buffer and numbers of requests.                                         *)
(***************************************************************************)
EXTENDS Commands, TelnetProofs

-----------------------------------------------------------------------------
(* Jobs, replies and answers.                                                *)
Stored == Values \cup {Absent}

LEMMA AnswersTyped ==
    ASSUME NEW job \in Commands, NEW s \in Stored
    PROVE  /\ ReplyTo(job, s) # NoReply
           /\ AnswerFor(job, ReplyTo(job, s)) \in Answers[job]
           /\ ErrorLine \in Answers[job]
           /\ StoreAfter(job, s) \in Stored
  <1>1. job \in Jobs /\ Answers[job] = AnswersTo(job)
    BY JobsAssumption
  <1>2. ReplyTo(job, s) # NoReply
    BY <1>1, NoReplyAssumption DEF Replies, Stored
  <1>3. CASE job.name = "set" /\ job.value \in Values
    BY <1>1, <1>2, <1>3 DEF ReplyTo, AnswerFor, AnswersTo, StoreAfter, Plain, Stored
  <1>4. CASE job.name = "add" /\ job.value \in Values
    BY <1>1, <1>2, <1>4 DEF ReplyTo, AnswerFor, AnswersTo, StoreAfter, Plain, Stored
  <1>5. CASE job.name = "delete"
    BY <1>1, <1>2, <1>5 DEF ReplyTo, AnswerFor, AnswersTo, StoreAfter, Plain, Stored
  <1>6. CASE job.name = "get"
    BY <1>1, <1>2, <1>6 DEF ReplyTo, AnswerFor, AnswersTo, StoreAfter, Plain, Stored
  <1>7. \/ job.name \in {"set", "add"} /\ job.value \in Values
        \/ job.name \in {"delete", "get"}
    BY <1>1 DEF Jobs
  <1> QED
    BY <1>3, <1>4, <1>5, <1>6, <1>7

(* The place after the first token of its kind.                              *)
LEMMA PastTheFirst ==
    ASSUME NEW s, Len(s) \in Nat, NEW i \in Nat, NEW token, NEW k \in i .. Len(s), s[k] = token,
           \A j \in i .. Len(s) : j < k => s[j] # token
    PROVE  Past(s, i, token) = k + 1
  <1> DEFINE at == {j \in i .. Len(s) : s[j] = token}
  <1>1. k \in at /\ \A j \in at : k <= j
    OBVIOUS
  <1>2. Min(at) = k
    <2>1. at \subseteq Nat
      OBVIOUS
    <2> HIDE DEF at
    <2>2. \A x \in at : (\A y \in at : x <= y) => x = k
      BY <1>1, <2>1
    <2> QED
      BY <1>1, <2>2 DEF Min
  <1> HIDE DEF at
  <1> QED
    BY <1>1, <1>2 DEF Past, at

(* What a get of a value is answered with: the value is behind eight tokens. *)
LEMMA ValueAnswerLaidOut ==
    ASSUME NEW v \in Seq(Tokens), Len(v) \in DOMAIN Digits
    PROVE  LET s == ValueAnswer(v)
           IN  /\ Len(v) \in 1 .. 4 /\ Len(s) = Len(v) + 11
               /\ s[1] = "VALUE" /\ s[2] = "sp" /\ s[3] = "key" /\ s[4] = "sp" /\ s[5] = "flags"
               /\ s[6] = "sp" /\ s[7] = Digits[Len(v)] /\ s[8] = "CRLF"
               /\ \A i \in 1 .. Len(v) : s[8 + i] = v[i]
               /\ \E S : s \in Seq(S)
  <1> DEFINE digit == Digits[Len(v)]
             S == Tokens \cup {"VALUE", "sp", "key", "flags", "CRLF", "END", digit}
             head == <<"VALUE", "sp", "key", "sp", "flags", "sp", digit>>
             first == head \o <<"CRLF">>
             second == v \o <<"CRLF">>
             third == <<"END">> \o <<"CRLF">>
  <1>1. Len(v) \in 1 .. 4
    <2>1. DOMAIN Digits = 1 .. 4
      BY DEF Digits
    <2> QED
      BY <2>1
  <1>2. ValueAnswer(v) = (first \o second) \o third
    BY DEF ValueAnswer, Line, EndLine
  <1> HIDE DEF digit
  <1>3. /\ first \in Seq(S) /\ Len(first) = 8
        /\ first[1] = "VALUE" /\ first[2] = "sp" /\ first[3] = "key" /\ first[4] = "sp"
        /\ first[5] = "flags" /\ first[6] = "sp" /\ first[7] = digit /\ first[8] = "CRLF"
    <2>1. head \in Seq(S) /\ <<"CRLF">> \in Seq(S) /\ Len(head) = 7 /\ Len(<<"CRLF">>) = 1
      OBVIOUS
    <2>2. /\ first \in Seq(S) /\ Len(first) = 8
          /\ \A i \in 1 .. 8 : first[i] = IF i <= 7 THEN head[i] ELSE <<"CRLF">>[i - 7]
      <3> DEFINE end == <<"CRLF">>
      <3> HIDE DEF head, S, end
      <3>1. /\ head \o end \in Seq(S) /\ Len(head \o end) = Len(head) + Len(end)
            /\ \A i \in 1 .. Len(head) + Len(end) :
                 (head \o end)[i] = IF i <= Len(head) THEN head[i] ELSE end[i - Len(head)]
        BY <2>1, ConcatProperties DEF end
      <3>2. Len(head) = 7 /\ Len(end) = 1 /\ first = head \o end
        BY <2>1 DEF end
      <3> HIDE DEF first
      <3> QED
        BY <3>1, <3>2 DEF end
    <2>3. first[8] = "CRLF"
      <3> HIDE DEF head, first
      <3> QED
        BY <2>2
    <2>4. \A i \in 1 .. 7 : first[i] = head[i]
      <3> HIDE DEF head, first
      <3> QED
        BY <2>2
    <2> HIDE DEF first
    <2> QED
      BY <2>2, <2>3, <2>4
  <1>4. third \in Seq(S) /\ Len(third) = 2
    OBVIOUS
  <1>5. v \in Seq(S)
    OBVIOUS
  <1>6. /\ second \in Seq(S) /\ Len(second) = Len(v) + 1
        /\ \A i \in 1 .. Len(v) : second[i] = v[i]
    BY <1>5
  <1> HIDE DEF S, second, third
  <1>7. /\ first \o second \in Seq(S) /\ Len(first \o second) = Len(v) + 9
        /\ \A i \in 1 .. 8 : (first \o second)[i] = first[i]
        /\ \A i \in 1 .. Len(v) : (first \o second)[8 + i] = v[i]
    <2>1. /\ first \o second \in Seq(S) /\ Len(first \o second) = Len(v) + 9
          /\ \A i \in 1 .. Len(first) + Len(second) :
               (first \o second)[i] = IF i <= Len(first) THEN first[i] ELSE second[i - Len(first)]
      BY <1>1, <1>3, <1>6, ConcatProperties
    <2> HIDE DEF first
    <2>2. \A i \in 1 .. Len(v) : 8 + i \in 1 .. 8 + Len(second) /\ ~(8 + i <= 8) /\ (8 + i) - 8 = i
      BY <1>1, <1>6
    <2> QED
      BY <1>1, <1>3, <1>6, <2>1, <2>2
  <1> DEFINE line == first \o second
  <1> HIDE DEF line
  <1>8. /\ line \in Seq(S) /\ Len(line) = Len(v) + 9
        /\ \A i \in 1 .. 8 : line[i] = first[i]
        /\ \A i \in 1 .. Len(v) : line[8 + i] = v[i]
        /\ ValueAnswer(v) = line \o third
    BY <1>2, <1>7 DEF line
  <1>9. /\ ValueAnswer(v) \in Seq(S) /\ Len(ValueAnswer(v)) = Len(v) + 11
        /\ \A i \in 1 .. Len(v) + 9 : ValueAnswer(v)[i] = line[i]
    <2> DEFINE whole == line \o third
    <2>1. /\ whole \in Seq(S) /\ Len(whole) = Len(line) + Len(third)
          /\ \A i \in 1 .. Len(line) + Len(third) :
               whole[i] = IF i <= Len(line) THEN line[i] ELSE third[i - Len(line)]
      BY <1>4, <1>8, ConcatProperties
    <2> HIDE DEF whole
    <2>2. \A i \in 1 .. Len(v) + 9 : i \in 1 .. Len(line) + Len(third) /\ i <= Len(line)
      BY <1>1, <1>4, <1>8
    <2>3. whole = ValueAnswer(v)
      BY <1>8 DEF whole
    <2> QED
      BY <1>1, <1>4, <1>8, <2>1, <2>2, <2>3
  <1>10. \A i \in 1 .. 8 : ValueAnswer(v)[i] = first[i]
    BY <1>1, <1>8, <1>9
  <1>11. \A i \in 1 .. Len(v) : ValueAnswer(v)[8 + i] = v[i]
    BY <1>1, <1>8, <1>9
  <1> QED
    BY <1>1, <1>3, <1>9, <1>10, <1>11 DEF digit

(* Get returns the value the server sent, whatever it is made of.            *)
LEMMA ExtractsTheValue ==
    ASSUME NEW v \in Seq(Tokens), Len(v) \in DOMAIN Digits
    PROVE  Extract(ValueAnswer(v)) = [type |-> "Found", data |-> v]
  <1> DEFINE s == ValueAnswer(v)
             L == Len(v)
  <1>1. /\ L \in 1 .. 4 /\ Len(s) = L + 11
        /\ s[1] = "VALUE" /\ s[2] = "sp" /\ s[3] = "key" /\ s[4] = "sp" /\ s[5] = "flags"
        /\ s[6] = "sp" /\ s[7] = Digits[L] /\ s[8] = "CRLF"
        /\ \A i \in 1 .. L : s[8 + i] = v[i]
    BY ValueAnswerLaidOut
  <1>2. PICK S : s \in Seq(S)
    BY ValueAnswerLaidOut
  <1>3. DOMAIN Digits = 1 .. 4
    BY DEF Digits
  <1>4. Digits[L] \in {"1", "2", "3", "4"} /\ \A i, j \in 1 .. 4 : Digits[i] = Digits[j] => i = j
    BY <1>1 DEF Digits
  <1> HIDE DEF s, L
  <1>5. Past(s, 3, "sp") = 5
    <2>1. \A j \in 3 .. Len(s) : j < 4 => s[j] # "sp"
      BY <1>1
    <2>2. 4 \in 3 .. Len(s) /\ Len(s) \in Nat /\ s[4] = "sp" /\ 3 \in Nat
      BY <1>1
    <2>3. Past(s, 3, "sp") = 4 + 1
      BY <2>1, <2>2, PastTheFirst
    <2> QED
      BY <2>3
  <1>6. Past(s, 5, "sp") = 7
    <2>1. \A j \in 5 .. Len(s) : j < 6 => s[j] # "sp"
      BY <1>1
    <2>2. 6 \in 5 .. Len(s) /\ Len(s) \in Nat /\ s[6] = "sp" /\ 5 \in Nat
      BY <1>1
    <2>3. Past(s, 5, "sp") = 6 + 1
      BY <2>1, <2>2, PastTheFirst
    <2> QED
      BY <2>3
  <1>7. Past(s, 7, "CRLF") = 9
    <2>1. \A j \in 7 .. Len(s) : j < 8 => s[j] # "CRLF"
      BY <1>1, <1>4
    <2>2. 8 \in 7 .. Len(s) /\ Len(s) \in Nat /\ s[8] = "CRLF" /\ 7 \in Nat
      BY <1>1
    <2>3. Past(s, 7, "CRLF") = 8 + 1
      BY <2>1, <2>2, PastTheFirst
    <2> QED
      BY <2>3
  <1> DEFINE n == {i \in DOMAIN Digits : <<Digits[i]>> = SubSeq(s, 7, 9 - 2)}
  <1>8. n = {L}
    <2>1. SubSeq(s, 7, 7) = <<Digits[L]>>
      <3> DEFINE part == SubSeq(s, 7, 7)
      <3>1. part \in Seq(S) /\ Len(part) = 1 /\ part[1] = s[7]
        BY <1>1, <1>2
      <3> HIDE DEF part
      <3>2. part = <<Digits[L]>>
        BY <1>1, <3>1
      <3> QED
        BY <3>2 DEF part
    <2>2. 9 - 2 = 7
      OBVIOUS
    <2> QED
      BY <1>1, <1>3, <1>4, <2>1, <2>2
  <1>9. Min(n) = L
    BY <1>1, <1>8 DEF Min
  <1> HIDE DEF n
  <1>10. SubSeq(s, 9, 9 + L - 1) = v
    <2> DEFINE part == SubSeq(s, 9, 9 + L - 1)
    <2>1. /\ part \in Seq(S) /\ Len(part) = L
          /\ \A i \in 1 .. L : part[i] = s[i + 8]
      BY <1>1, <1>2
    <2>2. \A i \in 1 .. L : part[i] = v[i]
      <3>1. \A i \in 1 .. L : i + 8 = 8 + i
        BY <1>1
      <3> QED
        BY <1>1, <2>1, <3>1
    <2> HIDE DEF part
    <2>3. part = v
      BY <2>1, <2>2 DEF L
    <2> QED
      BY <2>3 DEF part
  <1>11. Extract(s) = CASE s[1] = "END" -> Plain("NotFound")
                        [] s[1] # "END" /\ (s[1] # "VALUE" \/ s[2] # "sp" \/ n = {}) -> Error
                        [] OTHER -> IF 9 + Min(n) - 1 > Len(s) THEN Plain("Overrun")
                                    ELSE [type |-> "Found", data |-> SubSeq(s, 9, 9 + Min(n) - 1)]
    BY <1>5, <1>6, <1>7 DEF Extract, n
  <1>12. Extract(s) = [type |-> "Found", data |-> SubSeq(s, 9, 9 + L - 1)]
    <2>1. n # {} /\ ~(9 + Min(n) - 1 > Len(s))
      BY <1>1, <1>8, <1>9
    <2> QED
      BY <1>1, <1>9, <1>11, <2>1
  <1> QED
    BY <1>10, <1>12 DEF s

-----------------------------------------------------------------------------
(* Commands uses the connection as Telnet says: its steps are steps of       *)
(* Telnet, or leave Telnet alone.                                            *)
Requests == [request : 1 .. MaxRequests, command : Commands]

Kept == TypeOK /\ store \in Stored /\ late \subseteq Requests

LEMMA ReceivedAreRequests ==
    ASSUME TypeOK
    PROVE  /\ received \in Seq(Requests)
           /\ Range(received) \subseteq Requests
           /\ received # <<>> => Head(received) \in Requests
  <1>1. received \in Seq(Requests)
    BY DEF TypeOK, Requests
  <1> QED
    BY <1>1 DEF Range

LEMMA StepsAreTelnets == Kept /\ [CommandsNext]_allVars => [Next]_vars
  <1> SUFFICES ASSUME Kept, [CommandsNext]_allVars PROVE [Next]_vars
    OBVIOUS
  <1>0. TypeOK /\ store \in Stored /\ (received # <<>> => Head(received).command \in Commands)
    BY ReceivedAreRequests DEF Kept, Requests
  <1>1. CASE Executes /\ ~panicked
    BY <1>0, <1>1, AnswersTyped DEF Executes, ServerAnswers, Next
  <1>2. CASE Declines /\ ~panicked
    BY <1>0, <1>2, AnswersTyped DEF Declines, ServerAnswersWith, ServerAnswers, Next
  <1>3. CASE Issue /\ ~panicked
    BY <1>3 DEF Issue, Next, WorkerStep
  <1>4. CASE Elsewhere /\ ~panicked
    BY <1>4 DEF Elsewhere, Next, WorkerStep
  <1>5. CASE ExecutesLate \/ Forgets \/ UNCHANGED allVars
    BY <1>5 DEF ExecutesLate, Forgets, allVars
  <1> QED
    BY <1>1, <1>2, <1>3, <1>4, <1>5 DEF CommandsNext

LEMMA KeptStep == Typing /\ Kept /\ [CommandsNext]_allVars => Typing' /\ Kept'
  <1> SUFFICES ASSUME Typing, Kept, [CommandsNext]_allVars PROVE Typing' /\ Kept'
    OBVIOUS
  <1>0. Typing' /\ TypeOK'
    <2>1. Typing'
      BY StepsAreTelnets, TypingStep
    <2> QED
      BY <2>1 DEF Typing
  <1>00. /\ store \in Stored /\ late \subseteq Requests /\ Range(received) \subseteq Requests
         /\ received # <<>> => Head(received).command \in Commands
         /\ \A r \in late : r.command \in Commands
    BY ReceivedAreRequests DEF Kept, Requests
  <1>1. CASE Executes
    BY <1>0, <1>00, <1>1, AnswersTyped DEF Executes, Kept
  <1>2. CASE ExecutesLate
    BY <1>0, <1>00, <1>2, AnswersTyped DEF ExecutesLate, Kept
  <1>3. CASE Forgets
    BY <1>0, <1>00, <1>3 DEF Forgets, Kept, Stored
  <1>4. CASE Issue \/ Declines \/ UNCHANGED allVars
    BY <1>0, <1>00, <1>4 DEF Issue, Declines, allVars, commandVars, Kept
  <1>5. CASE Elsewhere
    BY <1>0, <1>00, <1>5 DEF Elsewhere, Carries, Kept
  <1> QED
    BY <1>1, <1>2, <1>3, <1>4, <1>5 DEF CommandsNext

LEMMA KeptHolds == CommandsSpec => [](Typing /\ Kept)
  <1>1. CommandsInit => Typing /\ Kept
    BY InitTyped DEF CommandsInit, Typing, Kept, Stored
  <1> QED
    BY <1>1, KeptStep, PTL DEF CommandsSpec

(* Whatever is proved of Telnet holds under the commands.                    *)
THEOREM CommandsUseTelnet == CommandsSpec => Spec
  <1>1. CommandsInit => Init
    BY DEF CommandsInit
  <1> QED
    BY <1>1, KeptHolds, StepsAreTelnets, PTL DEF CommandsSpec, Spec

-----------------------------------------------------------------------------
(* The account of a command: what the server did and what it answered.       *)
Accounted ==
    /\ answer = <<>> => reply = NoReply
    /\ answer # <<>> =>
         \/ reply = NoReply /\ answer = Pieces(request, ErrorLine)
         \/ \E s \in Stored : /\ reply = ReplyTo(command, s)
                              /\ answer = Pieces(request, AnswerFor(command, reply))

AccountInv ==
    /\ \A r \in late \cup Range(received) : r.request <= request
    /\ late \cap Range(received) = {}
    /\ pc = "write" => reply = NoReply /\ \A r \in late : r.request < request
    /\ pc \in {"read", "reading"} => Accounted

(* Who still waits for the request the server has.                           *)
Heeding ==
    /\ pc \in {"idle", "write", "read", "reading", "resolve", "dial", "closed"}
    /\ Range(received) = IF received = <<>> THEN {} ELSE {Head(received)}
    /\ received # <<>> => Tail(received) = <<>>
    /\ pc \in {"write", "resolve", "dial", "closed"} => received = <<>>
    /\ pc = "write" => answer = <<>>
    /\ pc \in {"read", "reading"} /\ received # <<>> => Head(received) = LastCall /\ answer = <<>>
    /\ Unheeded = IF pc \in {"idle", "closed"} THEN Range(received) ELSE {}

LEMMA HeedingHolds == Typing /\ WireInv => Heeding
  <1> SUFFICES ASSUME Typing, WireInv PROVE Heeding
    OBVIOUS
  <1>1. received \in Seq(Requests) /\ Len(received) <= 1
    BY ReceivedAreRequests DEF Typing, WireInv
  <1>2. /\ Range(received) = IF received = <<>> THEN {} ELSE {Head(received)}
        /\ received # <<>> => Tail(received) = <<>>
    BY <1>1 DEF Range
  <1>3. pc \in {"read", "reading"} /\ received # <<>> => Head(received) = LastCall /\ answer = <<>>
    BY DEF WireInv, Awaits, LastCall
  <1>4. /\ pc \in {"write", "resolve", "dial", "closed"} => received = <<>>
        /\ pc = "write" => answer = <<>>
    BY DEF WireInv, Quiet
  <1>5. pc \in {"idle", "write", "read", "reading", "resolve", "dial", "closed"}
    BY DEF Typing, TypeOK
  <1>6. Unheeded = IF pc \in {"idle", "closed"} THEN Range(received) ELSE {}
    <2>1. CASE pc \in {"idle", "closed"}
      BY <2>1 DEF Unheeded
    <2>2. CASE pc \notin {"idle", "closed"}
      BY <1>2, <1>3, <1>4, <1>5, <2>2 DEF Unheeded, LastCall
    <2> QED
      BY <2>1, <2>2
  <1> QED
    BY <1>2, <1>3, <1>4, <1>5, <1>6 DEF Heeding

LEMMA HeedingNext == Typing' /\ WireInv' => Heeding'
  BY HeedingHolds, PTL

(* An answer of the server to the request it has.                            *)
LEMMA AnswerGiven ==
    ASSUME Typing, Kept, Heeding, NEW a \in Answers[Head(received).command], ServerAnswersWith(a)
    PROVE  /\ received # <<>> /\ Head(received) \in Requests /\ received' = <<>>
           /\ pc \in {"idle", "read", "reading"}
           /\ UNCHANGED <<pc, op, request, command>>
           /\ pc \in {"read", "reading"} =>
                /\ Head(received) = LastCall /\ answer = <<>>
                /\ answer' = Pieces(request, a) /\ answer' # <<>>
  <1>1. /\ received # <<>> /\ Head(received) \in Requests /\ received' = <<>>
        /\ pc \in {"idle", "read", "reading"} /\ UNCHANGED <<pc, op, request, command>>
    BY ReceivedAreRequests DEF ServerAnswersWith, Heeding, Typing, sent
  <1>2. ASSUME pc \in {"read", "reading"}
        PROVE  /\ Head(received) = LastCall /\ answer = <<>>
               /\ answer' = Pieces(request, a) /\ answer' # <<>>
    <2>1. Head(received) = LastCall /\ answer = <<>>
      BY <1>1, <1>2 DEF Heeding
    <2>2. answer' = Pieces(request, a)
      BY <2>1 DEF ServerAnswersWith, Pieces, LastCall
    <2>3. a \in Seq(Tokens) /\ a # <<>> /\ request \in 1 .. MaxRequests
      BY <1>1, <2>1, AnswerAssumption DEF Requests, LastCall
    <2>4. Len(Pieces(request, a)) = Len(a) /\ Len(a) # 0 /\ Pieces(request, a) \in Seq(Piece)
      BY <2>3, PiecesTyped
    <2> QED
      BY <2>1, <2>2, <2>4
  <1> QED
    BY <1>1, <1>2

(* What a step of Telnet that is none of a command or of the server leaves.   *)
LEMMA ElsewhereMoves ==
    ASSUME Heeding, Elsewhere
    PROVE  /\ late' = late \cup (Range(received) \ Range(received'))
           /\ UNCHANGED <<store, reply, request, command, answer>>
           /\ ~WriteSucceeds => Range(received') \subseteq Range(received)
           /\ pc' = "write" => pc = "write"
           /\ pc' \in {"read", "reading"} => pc \in {"read", "reading"} \/ WriteSucceeds
  <1>1. CASE WriteSucceeds \/ ReadStarts \/ ReadChunk \/ ReadEOF \/ Resolve \/ Dial \/ CheckerStep
    BY <1>1 DEF Elsewhere, Carries, WriteSucceeds, ReadStarts, ReadChunk, ReadEOF, Resolve, Dial,
       CheckerStep, CheckerTick, CheckerPasses, CheckerReports, CheckerPanics, Return,
       ReconnectFails, sent, wire
  <1>2. CASE WriteFails \/ ReadFails
    BY <1>2 DEF Elsewhere, Carries, WriteFails, ReadFails, Return, sent, wire
  <1>3. CASE TimesOut \/ Close \/ ServerCloses
    <2>1. received' = <<>> /\ UNCHANGED <<request, command, answer>>
      BY <1>3 DEF TimesOut, Close, ServerCloses, Disconnect, sent
    <2>2. pc' = pc \/ pc' \in {"resolve", "closed"}
      BY <1>3 DEF TimesOut, Close, ServerCloses
    <2>3. Range(received') = {}
      BY <2>1 DEF Range
    <2> QED
      BY <2>1, <2>2, <2>3 DEF Elsewhere, Carries
  <1> QED
    BY <1>1, <1>2, <1>3 DEF Elsewhere, Proceeds

LEMMA AccountStep ==
    Typing /\ Kept /\ Heeding /\ AccountInv /\ Typing' /\ Heeding' /\ [CommandsNext]_allVars
    => AccountInv'
  <1> SUFFICES ASSUME Typing, Kept, Heeding, AccountInv, Typing', Heeding',
                      [CommandsNext]_allVars
               PROVE  AccountInv'
    OBVIOUS
  <1>0. /\ request \in Nat /\ \A r \in late : r.request \in Nat
        /\ \A r \in late \cup Range(received) : r.request <= request
        /\ late \cap Range(received) = {}
    BY SizeAssumption DEF Typing, TypeOK, Kept, Requests, AccountInv
  <1>1. CASE Issue
    <2>1. /\ received' = received /\ late' = late /\ request' = request + 1 /\ reply' = NoReply
          /\ pc' \notin {"read", "reading"}
      BY <1>1 DEF Issue, Send
    <2>2. \A r \in late \cup Range(received) : r.request \in Nat
      BY <1>0, ReceivedAreRequests DEF Typing, Requests
    <2>3. \A r \in late' \cup Range(received') : r.request < request'
      BY <1>0, <2>1, <2>2
    <2> QED
      BY <1>0, <2>1, <2>2, <2>3 DEF AccountInv
  <1>2. CASE Executes
    <2> DEFINE r == Head(received)
               done == ReplyTo(r.command, store)
               a == AnswerFor(r.command, done)
    <2>1. ServerAnswersWith(a) /\ reply' = IF r \in Unheeded THEN reply ELSE done
      BY <1>2 DEF Executes
    <2>2. received # <<>>
      BY <1>2 DEF Executes
    <2>3. r \in Requests /\ store \in Stored
      BY <2>2, ReceivedAreRequests DEF Typing, Kept
    <2>4. a \in Answers[r.command]
      BY <2>3, AnswersTyped DEF Requests
    <2>5. /\ received' = <<>> /\ pc \in {"idle", "read", "reading"}
          /\ UNCHANGED <<pc, request, command>>
          /\ pc \in {"read", "reading"} =>
               /\ r = LastCall /\ answer' = Pieces(request, a) /\ answer' # <<>>
      BY <2>1, <2>4, AnswerGiven
    <2>6. pc \in {"read", "reading"} => Accounted'
      <3> SUFFICES ASSUME pc \in {"read", "reading"} PROVE Accounted'
        OBVIOUS
      <3>1. reply' = ReplyTo(command, store) /\ r.command = command
        BY <2>1, <2>5 DEF Heeding, LastCall
      <3>2. answer' = Pieces(request', AnswerFor(command', reply'))
        BY <2>5, <3>1
      <3> QED
        BY <2>3, <2>5, <3>1, <3>2 DEF Accounted
    <2>7. late' = late /\ Range(received') = {}
      BY <1>2, <2>5 DEF Executes, Heeding
    <2> QED
      BY <1>0, <2>5, <2>6, <2>7 DEF AccountInv
  <1>3. CASE Declines
    <2>1. received # <<>> /\ Head(received) \in Requests
      BY <1>3, ReceivedAreRequests DEF Declines, ServerAnswersWith, Typing
    <2>2. ErrorLine \in Answers[Head(received).command] /\ ServerAnswersWith(ErrorLine)
      BY <1>3, <2>1, AnswersTyped DEF Declines, Requests, Kept
    <2>3. /\ received' = <<>> /\ pc \in {"idle", "read", "reading"}
          /\ UNCHANGED <<pc, request, command>>
          /\ pc \in {"read", "reading"} =>
               /\ answer = <<>> /\ answer' = Pieces(request, ErrorLine) /\ answer' # <<>>
      BY <2>2, AnswerGiven
    <2>4. UNCHANGED <<reply, late>> /\ Range(received') = {}
      BY <1>3, <2>3 DEF Declines, commandVars, Heeding
    <2>5. pc \in {"read", "reading"} => Accounted'
      BY <2>3, <2>4 DEF AccountInv, Accounted
    <2> QED
      BY <1>0, <2>3, <2>4, <2>5 DEF AccountInv
  <1>4. CASE ExecutesLate \/ Forgets \/ UNCHANGED allVars
    <2>1. /\ UNCHANGED <<pc, request, command, received, answer, reply>> /\ late' \subseteq late
      BY <1>4 DEF ExecutesLate, Forgets, allVars, commandVars, vars, wire, sent
    <2> QED
      BY <2>1 DEF AccountInv, Accounted
  <1>5. CASE Elsewhere
    <2>1. /\ late' = late \cup (Range(received) \ Range(received'))
          /\ UNCHANGED <<reply, request, command, answer>>
          /\ ~WriteSucceeds => Range(received') \subseteq Range(received)
          /\ pc' = "write" => pc = "write"
          /\ pc' \in {"read", "reading"} => pc \in {"read", "reading"} \/ WriteSucceeds
      BY <1>5, ElsewhereMoves
    <2>2. CASE WriteSucceeds
      <3> DEFINE r == [request |-> request, command |-> command]
      <3>1. pc = "write" /\ received = <<>> /\ Range(received) = {}
        BY <2>2 DEF WriteSucceeds, Heeding
      <3>2. received' \in {<<>>, <<r>>}
        BY <2>2, <3>1 DEF WriteSucceeds
      <3>3. Range(received') \subseteq {r}
        BY <3>2 DEF Range
      <3>4. late' = late /\ \A q \in late : q.request < request
        BY <2>1, <3>1 DEF AccountInv
      <3>5. r \notin late
        BY <1>0, <3>4
      <3>6. pc' = "read" /\ answer = <<>> /\ reply = NoReply
        <4>1. pc' = "read" /\ reply = NoReply
          BY <2>2, <3>1 DEF WriteSucceeds, AccountInv
        <4> QED
          BY <3>1, <4>1 DEF Heeding
      <3> QED
        BY <1>0, <2>1, <3>3, <3>4, <3>5, <3>6 DEF AccountInv, Accounted
    <2>3. CASE ~WriteSucceeds
      <3>1. pc' = "write" => late' = late /\ pc = "write"
        BY <2>1 DEF Heeding
      <3> QED
        BY <1>0, <2>1, <2>3, <3>1 DEF AccountInv, Accounted
    <2> QED
      BY <2>2, <2>3
  <1> QED
    BY <1>1, <1>2, <1>3, <1>4, <1>5 DEF CommandsNext

-----------------------------------------------------------------------------
(* Each step is one of KeyStore or none.                                     *)
Simulated ==
    Promise!Next \/ UNCHANGED <<store, Phase, LastCall, reply, outcome, late \cup Unheeded>>

LEMMA SimulatedIsEnough == Simulated => [Promise!Next]_(Promise!vars)
  BY DEF Simulated, Promise!vars

LEMMA IssueSimulated ==
    ASSUME Typing, Heeding, Heeding', onFailure \/ Quiet, Issue
    PROVE  Simulated
  <1>1. /\ pc = "idle" /\ request' = request + 1 /\ reply' = NoReply /\ outcome' = Error
        /\ pc' = IF onFailure THEN "idle" ELSE "write"
        /\ UNCHANGED <<store, late, received>>
    BY DEF Issue, Send
  <1>2. Phase = "idle"
    BY <1>1 DEF Phase
  <1>3. CASE onFailure
    <2>1. Phase' = "idle" /\ Unheeded' = Unheeded
      BY <1>1, <1>3 DEF Phase, Heeding
    <2>2. Promise!Refuse
      BY <1>1, <1>2, <2>1 DEF Promise!Refuse, Promise!Error, Error
    <2> QED
      BY <2>2 DEF Simulated, Promise!Next
  <1>4. CASE ~onFailure
    <2>1. Unheeded' = {} /\ Unheeded = {}
      BY <1>1, <1>4 DEF Heeding, Quiet
    <2>2. Phase' = "called"
      BY <1>1, <1>4 DEF Phase, Abandoned
    <2>3. LastCall'.request > LastCall.request
      BY <1>1 DEF LastCall, Typing, TypeOK
    <2>4. Promise!Invoke
      BY <1>1, <1>2, <2>1, <2>2, <2>3 DEF Promise!Invoke, Promise!Error, Error
    <2> QED
      BY <2>4 DEF Simulated, Promise!Next
  <1> QED
    BY <1>3, <1>4

(* A command that ends with an error, or with what came before the end of a   *)
(* connection.                                                               *)
LEMMA FailureSimulated ==
    ASSUME Heeding, Heeding', AccountInv, Carries, pc \notin {"idle", "closed"}, pc' = "idle",
           result' = Failed \/ result'.type = "none",
           UNCHANGED <<received, request, command>>
    PROVE  Simulated
  <1>1. late' = late /\ UNCHANGED <<store, reply>> /\ outcome' = OperationResult(command, result')
    BY DEF Carries
  <1>2. outcome' \in {Error, Plain("None")}
    BY <1>1 DEF OperationResult, Failed
  <1>3. Phase # "idle" /\ Phase' = "idle" /\ LastCall' = LastCall
    BY DEF Phase, LastCall
  <1>4. Unheeded = {} /\ Unheeded' = Range(received)
    BY DEF Heeding
  <1>5. CASE received = <<>>
    BY <1>1, <1>2, <1>3, <1>4, <1>5 DEF Heeding, Promise!Fail, Promise!Next, Promise!Error, Error,
       Promise!Plain, Plain, Simulated
  <1>6. CASE received # <<>>
    <2>1. Range(received) = {LastCall} /\ pc \in {"read", "reading"} /\ answer = <<>>
      BY <1>6 DEF Heeding
    <2>2. Phase = "called"
      BY <1>6, <2>1 DEF Phase, Abandoned, AccountInv, Accounted
    <2> QED
      BY <1>1, <1>2, <1>3, <1>4, <2>1, <2>2 DEF Promise!Fail, Promise!Next, Promise!Error, Error,
         Promise!Plain, Plain, Simulated
  <1> QED
    BY <1>5, <1>6

(* The server executes, or declines, what it received.                       *)
LEMMA ExecutionSimulated ==
    ASSUME Typing, Kept, Heeding, Heeding', AccountInv, Executes \/ Declines
    PROVE  Simulated
  <1> DEFINE r == Head(received)
             done == ReplyTo(r.command, store)
  <1>1. received # <<>> /\ r \in Requests /\ store \in Stored
    BY ReceivedAreRequests DEF Executes, Declines, ServerAnswersWith, Typing, Kept
  <1>2. /\ AnswerFor(r.command, done) \in Answers[r.command] /\ ErrorLine \in Answers[r.command]
        /\ done # NoReply
    BY <1>1, AnswersTyped DEF Requests
  <1>3. \E a \in Answers[r.command] : ServerAnswersWith(a)
    BY <1>2 DEF Executes, Declines
  <1>4. /\ received' = <<>> /\ pc \in {"idle", "read", "reading"}
        /\ UNCHANGED <<pc, op, request, command>>
        /\ pc \in {"read", "reading"} => r = LastCall /\ answer = <<>>
    BY <1>3, AnswerGiven
  <1>5. late' = late /\ outcome' = outcome /\ LastCall' = LastCall /\ Unheeded' = {}
    BY <1>4 DEF Executes, Declines, commandVars, LastCall, Heeding
  <1>6. CASE pc = "idle"
    <2>1. Unheeded = {r} /\ Phase = "idle" /\ Phase' = "idle"
      BY <1>1, <1>4, <1>6 DEF Heeding, Phase
    <2>2. reply' = reply /\ store' \in {store, StoreAfter(r.command, store)}
          /\ (Declines => store' = store) /\ (Executes => store' = StoreAfter(r.command, store))
      BY <2>1 DEF Executes, Declines, commandVars
    <2>3. late' \cup Unheeded' = (late \cup Unheeded) \ {r} /\ r \in late \cup Unheeded
      BY <1>1, <1>5, <2>1 DEF AccountInv, Heeding
    <2>4. CASE Executes
      BY <1>5, <2>1, <2>2, <2>3, <2>4
      DEF Simulated, Promise!Next, Promise!ApplyLate, Promise!StoreAfter, StoreAfter
    <2>5. CASE Declines
      BY <1>5, <2>1, <2>2, <2>3, <2>5 DEF Simulated, Promise!Next, Promise!LoseLate
    <2> QED
      BY <2>4, <2>5
  <1>7. CASE pc \in {"read", "reading"}
    <2>1. r = LastCall /\ answer = <<>> /\ Unheeded = {} /\ reply = NoReply /\ r.command = command
      BY <1>4, <1>7 DEF Heeding, AccountInv, Accounted, LastCall
    <2>2. Phase = "called"
      BY <1>1, <1>7, <2>1 DEF Phase, Abandoned
    <2>3. CASE Executes
      <3>1. store' = StoreAfter(command, store) /\ reply' = done
        BY <2>1, <2>3 DEF Executes
      <3>2. Phase' = "applied"
        BY <1>2, <1>4, <1>7, <3>1 DEF Phase
      <3> QED
        BY <1>5, <2>1, <2>2, <3>1, <3>2 DEF LastCall, Simulated, Promise!Next, Promise!Apply,
           Promise!StoreAfter, StoreAfter, Promise!ReplyTo, ReplyTo, Promise!Plain, Plain
    <2>4. CASE Declines
      <3>1. UNCHANGED <<store, reply>>
        BY <2>4 DEF Declines, commandVars
      <3>2. Phase' = "abandoned"
        BY <1>4, <1>7, <2>1, <3>1 DEF Phase, Abandoned
      <3> QED
        BY <1>5, <2>1, <2>2, <3>1, <3>2 DEF Simulated, Promise!Next, Promise!GiveUp
    <2> QED
      BY <2>3, <2>4
  <1> QED
    BY <1>4, <1>6, <1>7

(* What the client makes of a whole answer in which a pattern was found.     *)
LEMMA ReportIsTrue ==
    ASSUME Recognises, NEW job \in Commands, NEW s \in Stored, NEW part,
           NEW m, NEW n, NEW i \in DOMAIN ResponseSet[job],
           LET a == AnswerFor(job, ReplyTo(job, s))
           IN  /\ m \in 1 .. Len(a) /\ n \in 1 .. Len(a) /\ m <= n /\ part = SubSeq(a, m, n)
               /\ FoundFirst(job, part, i),
           NEW r, r.type = ResponseSet[job][i].type, r.data # <<>>,
           [k \in DOMAIN r.data |-> r.data[k].token] = AnswerFor(job, ReplyTo(job, s))
    PROVE  OperationResult(job, r) = ReplyTo(job, s)
  <1> DEFINE done == ReplyTo(job, s)
             a == AnswerFor(job, done)
             tokens == [k \in DOMAIN r.data |-> r.data[k].token]
  <1>1. job \in Jobs /\ ResponseSet[job] = ResponseSetOf(job)
    BY JobsAssumption
  <1>2. job.name \in {"set", "add", "get", "delete"}
    BY <1>1 DEF Jobs
  <1>3. CASE job.name = "get"
    <2>1. r.type = "Found"
      <3>1. ResponseSetOf(job) = <<[pattern |-> EndLine, type |-> "Found"]>>
        BY <1>3 DEF ResponseSetOf
      <3>2. i = 1
        BY <1>1, <3>1
      <3> QED
        BY <1>1, <3>1, <3>2
    <2>2. OperationResult(job, r) = Extract(a)
      <3>1. OperationResult(job, r) = Extract(tokens)
        BY <2>1 DEF OperationResult
      <3> QED
        BY <3>1
    <2>3. CASE s = Absent
      <3>1. a = EndLine /\ done = Plain("NotFound")
        BY <1>3, <2>3 DEF ReplyTo, AnswerFor, Plain
      <3>2. EndLine[1] = "END"
        BY DEF EndLine, Line
      <3>3. Extract(EndLine) = Plain("NotFound")
        BY <3>2 DEF Extract
      <3> QED
        BY <2>2, <3>1, <3>3 DEF Plain
    <2>4. CASE s # Absent
      <3>1. a = ValueAnswer(s) /\ done = [type |-> "Found", data |-> s] /\ s \in Values
        BY <1>3, <2>4 DEF ReplyTo, AnswerFor, Plain, Stored
      <3>2. Extract(ValueAnswer(s)) = [type |-> "Found", data |-> s]
        BY <3>1, ValuesAssumption, ExtractsTheValue
      <3> QED
        BY <2>2, <3>1, <3>2
    <2> QED
      BY <2>3, <2>4
  <1>4. CASE job.name # "get"
    <2>1. Plain(ResponseSetOf(job)[i].type) = done
      BY <1>1, <1>4 DEF Recognises, Stored
    <2>2. r.type \in {"Stored", "NotStored", "Deleted", "NotFound"}
      <3> DEFINE set == ResponseSetOf(job)
      <3>1. /\ Len(set) = 2 /\ DOMAIN set = 1 .. 2
            /\ set[1].type \in {"NotStored", "Deleted"} /\ set[2].type \in {"Stored", "NotFound"}
        <4>1. CASE job.name \in {"set", "add"}
          BY <4>1 DEF ResponseSetOf
        <4>2. CASE job.name = "delete"
          BY <4>2 DEF ResponseSetOf
        <4> QED
          BY <1>2, <1>4, <4>1, <4>2
      <3> HIDE DEF set
      <3>2. i \in 1 .. 2 /\ r.type = set[i].type
        BY <1>1, <3>1 DEF set
      <3> QED
        BY <3>1, <3>2
    <2>3. OperationResult(job, r) = Plain(r.type)
      BY <2>2 DEF OperationResult
    <2> QED
      BY <1>1, <2>1, <2>3
  <1> QED
    BY <1>3, <1>4

(* Tokens of pieces.                                                         *)
LEMMA TokensOfPieces ==
    ASSUME NEW number \in 1 .. MaxRequests, NEW a \in Seq(Tokens)
    PROVE  TokensOf(Pieces(number, a)) = a
  <1>1. DOMAIN Pieces(number, a) = 1 .. Len(a) /\ \A i \in 1 .. Len(a) : Pieces(number, a)[i].token = a[i]
    BY PiecesTyped
  <1>2. a = [i \in 1 .. Len(a) |-> a[i]]
    OBVIOUS
  <1> HIDE DEF Pieces
  <1> QED
    BY <1>1, <1>2 DEF TokensOf

(* A read that finds a pattern returns what the execution gave.              *)
LEMMA ReadSimulated ==
    ASSUME Recognises, Typing, WireInv, WireInv', Heeding, Heeding', AccountInv,
           Carries, ReadChunk
    PROVE  Simulated
  <1>1. PICK chunk \in Chunks :
          IF Matches(chunk) # {}
          THEN Return([type |-> ResultType(chunk), data |-> fullBuffer \o chunk])
          ELSE UNCHANGED <<pc, result, op>>
    BY DEF ReadChunk
  <1>2. /\ pc = "reading" /\ UNCHANGED <<request, command, received, answer>>
        /\ UNCHANGED <<store, reply>> /\ late' = late
        /\ outcome' = IF pc # "idle" /\ pc' = "idle" THEN OperationResult(command, result')
                      ELSE outcome
    BY DEF ReadChunk, Carries, sent
  <1>3. CASE Matches(chunk) = {}
    <2>1. pc' = pc /\ op' = op
      BY <1>1, <1>3
    <2> QED
      BY <1>2, <2>1 DEF Simulated, Phase, Abandoned, LastCall, Unheeded
  <1>4. CASE Matches(chunk) # {}
    <2>1. /\ command \in Commands /\ request \in 1 .. MaxRequests
      BY <1>2, SizeAssumption DEF Typing, TypeOK
    <2>2. PICK i \in Matches(chunk) :
            /\ ResultType(chunk) = ResponseSet[command][i].type /\ ResultType(chunk) \in Types
            /\ \A j \in Matches(chunk) : i <= j
      BY <1>4, <2>1, TypeOfChunk
    <2>3. PICK a \in Answers[command] :
            /\ a \in Seq(Tokens) /\ answer = Pieces(request, a) /\ Len(answer) = Len(a)
            /\ Len(fullBuffer) + 1 \in 1 .. Len(a)
            /\ Len(fullBuffer) + Len(chunk) \in 1 .. Len(a)
            /\ Len(fullBuffer) + 1 <= Len(fullBuffer) + Len(chunk)
            /\ TokensOf(chunk) = SubSeq(a, Len(fullBuffer) + 1, Len(fullBuffer) + Len(chunk))
      BY <1>2, ChunkIsAPart
    <2> DEFINE m == Len(fullBuffer) + 1
               n == Len(fullBuffer) + Len(chunk)
               r == [type |-> ResultType(chunk), data |-> fullBuffer \o chunk]
    <2>4. pc' = "idle" /\ result' = r
      BY <1>1, <1>4 DEF Return
    <2>5. result'.data = answer /\ result'.type = ResultType(chunk) /\ received' = <<>>
      BY <1>2, <2>2, <2>4 DEF WireInv
    <2>6. FoundFirst(command, TokensOf(chunk), i) /\ i \in DOMAIN ResponseSet[command]
      <3>1. ResponseSet[command] = ResponseSetOf(command)
        BY <2>1, JobsAssumption
      <3>2. \A j : j \in Matches(chunk) <=>
                  /\ j \in DOMAIN ResponseSet[command]
                  /\ Occurs(TokensOf(chunk), ResponseSet[command][j].pattern)
        BY DEF Matches, TokensOf
      <3>3. \A j \in 1 .. i - 1 : j \in DOMAIN ResponseSet[command] /\ ~(i <= j)
        <4>1. ResponseSet[command] \in Seq([pattern : Seq(Tokens), type : Types])
          BY <2>1, ResponseAssumption
        <4>2. DOMAIN ResponseSet[command] = 1 .. Len(ResponseSet[command])
              /\ Len(ResponseSet[command]) \in Nat
          BY <4>1
        <4> QED
          BY <2>2, <3>2, <4>2
      <3> QED
        BY <2>2, <3>1, <3>2, <3>3 DEF FoundFirst
    <2> HIDE DEF r, m, n
    <2>7. TokensOf(answer) = a
      BY <2>1, <2>3, TokensOfPieces
    <2>8. answer # <<>>
      BY <2>3
    <2>9. PICK s \in Stored :
            reply = ReplyTo(command, s) /\ answer = Pieces(request, AnswerFor(command, reply))
      <3>1. answer # Pieces(request, ErrorLine)
        <4> SUFFICES ASSUME answer = Pieces(request, ErrorLine) PROVE FALSE
          OBVIOUS
        <4>1. ErrorLine \in Seq(Tokens) /\ command \in Jobs
          <5>1. ErrorLine \in Answers[command] /\ command \in Jobs
            BY <2>1, JobsAssumption DEF AnswersTo
          <5> QED
            BY <2>1, <5>1, AnswerAssumption
        <4>2. a = ErrorLine
          BY <2>1, <2>7, <4>1, TokensOfPieces
        <4>3. ~Occurs(SubSeq(ErrorLine, m, n), ResponseSetOf(command)[i].pattern)
          <5>1. ResponseSet[command] = ResponseSetOf(command)
            BY <2>1, JobsAssumption
          <5>2. m \in 1 .. Len(ErrorLine) /\ n \in 1 .. Len(ErrorLine) /\ m <= n
            BY <2>3, <4>2 DEF m, n
          <5> QED
            BY <2>6, <4>1, <5>1, <5>2 DEF Recognises
        <4>4. TokensOf(chunk) = SubSeq(ErrorLine, m, n)
          BY <2>3, <4>2 DEF m, n
        <4> QED
          BY <2>6, <4>3, <4>4 DEF FoundFirst
      <3> QED
        BY <1>2, <2>8, <3>1 DEF AccountInv, Accounted
    <2>10. a = AnswerFor(command, ReplyTo(command, s))
      <3>1. AnswerFor(command, reply) \in Seq(Tokens)
        BY <2>1, <2>9, AnswersTyped, AnswerAssumption
      <3> QED
        BY <2>1, <2>7, <2>9, <3>1, TokensOfPieces
    <2>11. OperationResult(command, result') = reply
      <3>1. /\ m \in 1 .. Len(a) /\ n \in 1 .. Len(a) /\ m <= n
            /\ TokensOf(chunk) = SubSeq(a, m, n)
        BY <2>3 DEF m, n
      <3>2. [k \in DOMAIN result'.data |-> result'.data[k].token] = AnswerFor(command, ReplyTo(command, s))
        BY <2>5, <2>7, <2>10 DEF TokensOf
      <3> QED
        BY <2>1, <2>2, <2>5, <2>6, <2>8, <2>9, <2>10, <3>1, <3>2, ReportIsTrue
    <2>12. reply # NoReply
      BY <2>1, <2>9, AnswersTyped
    <2>13. Phase = "applied" /\ Phase' = "idle" /\ LastCall' = LastCall
      BY <1>2, <2>4, <2>12 DEF Phase, LastCall
    <2>14. Unheeded = {} /\ Unheeded' = {}
      BY <1>2, <2>4, <2>5 DEF Heeding
    <2>15. Promise!Return
      BY <1>2, <2>4, <2>11, <2>13, <2>14 DEF Promise!Return
    <2> QED
      BY <2>15 DEF Simulated, Promise!Next
  <1> QED
    BY <1>3, <1>4

(* The other steps, of the worker, the network and the checker.              *)
LEMMA ElsewhereSimulated ==
    ASSUME Typing, Kept, Heeding, Heeding', AccountInv, Elsewhere, ~ReadChunk
    PROVE  Simulated
  <1>1. /\ Carries /\ UNCHANGED <<store, reply, request, command, answer>>
        /\ late' = late \cup (Range(received) \ Range(received'))
        /\ LastCall' = LastCall
    BY ElsewhereMoves DEF Elsewhere, LastCall
  <1>2. CASE WriteSucceeds
    <2>1. /\ pc = "write" /\ pc' = "read" /\ received = <<>> /\ Range(received) = {}
          /\ reply = NoReply /\ Phase = "called" /\ Unheeded = {} /\ Unheeded' = {}
      BY <1>2 DEF WriteSucceeds, Heeding, AccountInv, Phase, Abandoned
    <2>2. late' = late /\ outcome' = outcome
      BY <1>1, <2>1 DEF Carries
    <2>3. CASE received' = <<>>
      <3>1. Phase' = "abandoned"
        BY <1>1, <2>1, <2>3 DEF Phase, Abandoned
      <3> QED
        BY <1>1, <2>1, <2>2, <3>1 DEF Simulated, Promise!Next, Promise!GiveUp
    <2>4. CASE received' # <<>>
      <3>1. Phase' = "called"
        BY <1>1, <2>1, <2>4 DEF Phase, Abandoned
      <3> QED
        BY <1>1, <2>1, <2>2, <3>1 DEF Simulated
    <2> QED
      BY <2>3, <2>4
  <1>3. CASE WriteFails \/ ReadEOF \/ ReadFails
    <2>1. /\ pc \notin {"idle", "closed"} /\ pc' = "idle" /\ received' = received
          /\ result' = Failed \/ result'.type = "none"
      BY <1>3 DEF WriteFails, ReadEOF, ReadFails, Return, wire
    <2> QED
      BY <1>1, <2>1, FailureSimulated
  <1>4. CASE ReadStarts
    <2>1. pc = "read" /\ received' = received
      BY <1>4 DEF ReadStarts, wire
    <2>2. CASE onFailure
      <3>1. pc' = "idle" /\ result' = Failed
        BY <1>4, <2>2 DEF ReadStarts, Return
      <3> QED
        BY <1>1, <2>1, <3>1, FailureSimulated
    <2>3. CASE ~onFailure
      <3>1. pc' = "reading" /\ late' = late /\ outcome' = outcome
        BY <1>1, <1>4, <2>1, <2>3 DEF ReadStarts, Carries
      <3>2. Phase' = Phase /\ Unheeded' = {} /\ Unheeded = {}
        BY <1>1, <2>1, <3>1 DEF Phase, Abandoned, Heeding
      <3> QED
        BY <1>1, <3>1, <3>2 DEF Simulated
    <2> QED
      BY <2>2, <2>3
  <1>5. CASE TimesOut \/ (ServerCloses /\ pc \notin {"idle", "closed"})
    <2>1. /\ received' = <<>> /\ Range(received') = {}
          /\ pc \notin {"idle", "closed"} /\ pc' \notin {"idle", "closed"}
          /\ \/ pc' = pc /\ op' = op
             \/ /\ pc' = "resolve" /\ pc \in {"write", "reading"}
                /\ op' = IF pc = "write" THEN "write" ELSE "read"
      <3>1. Range(<<>>) = {}
        BY DEF Range
      <3>2. CASE TimesOut
        BY <3>1, <3>2 DEF TimesOut, Disconnect
      <3>3. CASE ServerCloses /\ pc \notin {"idle", "closed"}
        BY <3>1, <3>3 DEF ServerCloses
      <3> QED
        BY <1>5, <3>2, <3>3
    <2>2. outcome' = outcome /\ Unheeded = {} /\ Unheeded' = {} /\ late' = late \cup Range(received)
      BY <1>1, <2>1 DEF Carries, Heeding
    <2>3. CASE received = <<>>
      <3>1. Range(received) = {}
        BY <2>3 DEF Range
      <3>2. Phase' = Phase
        BY <1>1, <2>1, <2>3 DEF Phase, Abandoned
      <3> QED
        BY <1>1, <2>2, <3>1, <3>2 DEF Simulated
    <2>4. CASE received # <<>>
      <3>1. pc \in {"read", "reading"} /\ Range(received) = {LastCall} /\ reply = NoReply
        BY <2>1, <2>4 DEF Heeding, AccountInv, Accounted
      <3>2. Phase = "called"
        BY <2>4, <3>1 DEF Phase, Abandoned
      <3>3. Phase' = "abandoned"
        BY <1>1, <2>1, <3>1 DEF Phase, Abandoned
      <3> QED
        BY <1>1, <2>2, <3>1, <3>2, <3>3 DEF Simulated, Promise!Next, Promise!GiveUp
    <2> QED
      BY <2>3, <2>4
  <1>6. CASE Resolve \/ Dial
    <2>1. pc \in {"resolve", "dial"} /\ received' = received
      BY <1>6 DEF Resolve, Dial, wire
    <2>2. CASE pc' = "dial" /\ op' = op
      <3>1. Phase' = Phase /\ late' = late /\ outcome' = outcome /\ Unheeded = {} /\ Unheeded' = {}
        BY <1>1, <2>1, <2>2 DEF Phase, Abandoned, Carries, Heeding
      <3> QED
        BY <1>1, <3>1 DEF Simulated
    <2>3. CASE Return(Failed)
      <3>1. pc' = "idle" /\ result' = Failed
        BY <2>3 DEF Return
      <3> QED
        BY <1>1, <2>1, <3>1, FailureSimulated
    <2> QED
      BY <1>6, <2>2, <2>3 DEF Resolve, Dial, ReconnectFails
  <1>7. CASE Close \/ (ServerCloses /\ pc \in {"idle", "closed"})
    <2>1. /\ pc \in {"idle", "closed"} /\ pc' \in {"idle", "closed"} /\ (pc # "idle" => pc' = pc)
          /\ received' = <<>> /\ Range(received') = {}
      BY <1>7 DEF Close, Disconnect, ServerCloses, Range
    <2>2. outcome' = outcome /\ late' = late \cup Range(received)
      BY <1>1, <2>1 DEF Carries
    <2>3. Phase = "idle" /\ Phase' = "idle" /\ Unheeded = Range(received) /\ Unheeded' = {}
      BY <2>1 DEF Phase, Heeding
    <2> QED
      BY <1>1, <2>2, <2>3 DEF Simulated
  <1>8. CASE CheckerStep
    <2>1. UNCHANGED <<pc, op, received>>
      BY <1>8 DEF CheckerStep, CheckerTick, CheckerPasses, CheckerReports, CheckerPanics, wire
    <2>2. outcome' = outcome /\ late' = late
      BY <1>1, <2>1 DEF Carries
    <2> QED
      BY <1>1, <2>1, <2>2 DEF Simulated, Phase, Abandoned, Unheeded
  <1> QED
    BY <1>2, <1>3, <1>4, <1>5, <1>6, <1>7, <1>8 DEF Elsewhere, Proceeds

LEMMA StepSimulated ==
    ASSUME Recognises
    PROVE  /\ Typing /\ Kept /\ WireInv /\ AccountInv /\ Typing' /\ WireInv'
           /\ [CommandsNext]_allVars
           => Simulated
  <1> SUFFICES ASSUME Typing, Kept, WireInv, AccountInv, Typing', WireInv', [CommandsNext]_allVars
               PROVE  Simulated
    OBVIOUS
  <1>0. Heeding /\ Heeding'
    BY HeedingHolds, HeedingNext
  <1>1. CASE Issue
    <2>1. onFailure \/ Quiet
      BY <1>1 DEF Issue, Send, WireInv
    <2> QED
      BY <1>0, <1>1, <2>1, IssueSimulated
  <1>2. CASE Executes \/ Declines
    BY <1>0, <1>2, ExecutionSimulated
  <1>3. CASE ExecutesLate
    <2>1. PICK r \in late : /\ store' \in {store, StoreAfter(r.command, store)}
                            /\ late' = late \ {r}
      BY <1>3 DEF ExecutesLate
    <2>2. UNCHANGED <<Phase, LastCall, reply, outcome, Unheeded>>
      BY <1>3 DEF ExecutesLate, vars, sent, wire, Phase, Abandoned, LastCall, Unheeded
    <2>3. r \notin Unheeded
      BY <1>0, <2>1 DEF Heeding, AccountInv
    <2>4. late' \cup Unheeded' = (late \cup Unheeded) \ {r}
      BY <2>1, <2>2, <2>3
    <2> QED
      BY <2>1, <2>2, <2>4
      DEF Simulated, Promise!Next, Promise!ApplyLate, Promise!LoseLate, Promise!StoreAfter, StoreAfter
  <1>4. CASE Forgets
    <2>1. UNCHANGED <<Phase, LastCall, reply, outcome, Unheeded, late>>
      BY <1>4 DEF Forgets, vars, sent, wire, Phase, Abandoned, LastCall, Unheeded
    <2> QED
      BY <1>4, <2>1 DEF Forgets, Simulated, Promise!Next, Promise!Forget
  <1>5. CASE Elsewhere /\ ReadChunk
    BY <1>0, <1>5, ReadSimulated DEF Elsewhere
  <1>6. CASE Elsewhere /\ ~ReadChunk
    BY <1>0, <1>6, ElsewhereSimulated
  <1>7. CASE UNCHANGED allVars
    BY <1>7 DEF allVars, vars, commandVars, sent, wire, Simulated, Phase, Abandoned, LastCall,
       Unheeded
  <1> QED
    BY <1>1, <1>2, <1>3, <1>4, <1>5, <1>6, <1>7 DEF CommandsNext

(* A command is executed at most once, and what it returns is a true account *)
(* of it: the client, its connection and the server implement KeyStore, if   *)
(* what is looked for is at the end of answers only.                         *)
THEOREM CommandsKeepTheirPromise ==
    ASSUME Unambiguous, Recognises PROVE CommandsSpec => KeepsItsPromise
  <1>1. CommandsInit => AccountInv /\ Promise!Init
    <2> SUFFICES ASSUME CommandsInit PROVE AccountInv /\ Promise!Init
      OBVIOUS
    <2>1. pc = "idle" /\ received = <<>> /\ late = {} /\ Range(received) = {}
      BY DEF CommandsInit, Init, Range
    <2>2. Unheeded = {} /\ Phase = "idle"
      BY <2>1 DEF Unheeded, Phase
    <2> QED
      BY <2>1, <2>2 DEF CommandsInit, AccountInv, Promise!Init, Promise!Error, Error
  <1>2. Typing /\ Kept /\ WireInv /\ AccountInv /\ Typing' /\ WireInv' /\ [CommandsNext]_allVars
        => AccountInv' /\ [Promise!Next]_(Promise!vars)
    BY AccountStep, StepSimulated, SimulatedIsEnough, HeedingHolds, HeedingNext
  <1>3. Spec => [](Typing /\ WireInv)
    BY WireInvHolds
  <1> QED
    BY <1>1, <1>2, <1>3, CommandsUseTelnet, KeptHolds, PTL
    DEF CommandsSpec, KeepsItsPromise, Promise!Spec
=============================================================================
