----------------------------- MODULE MCCommands -----------------------------
(* Small instances of Commands for TLC. *)
EXTENDS Commands

(* A value of one token, and one with a blank, a line break and an END that *)
(* does not end the answer.                                                 *)
SafeValues == {<<"x">>, <<"END", "sp", "CRLF">>}

(* NOT_STORED in one piece, and torn where STORED begins. *)
Whole == <<"NOT_STORED">>
Torn == <<"NOT_", "STORED">>
TornCommands == INSTANCE Commands WITH NotStoredWords <- Torn

(* What TelnetProofs and CommandsProofs suppose of the answers holds of the *)
(* instance, and would not of a NOT_STORED that may be torn.                *)
ASSUME UnambiguousAssumption == Unambiguous
ASSUME RecognisesAssumption == Recognises
ASSUME TornAssumption == ~TornCommands!Recognises

AllAnswers == [job \in Jobs |-> AnswersTo(job)]
AllResponseSets == [job \in Jobs |-> ResponseSetOf(job)]
=============================================================================
