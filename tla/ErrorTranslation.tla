-------------------------- MODULE ErrorTranslation --------------------------
(***************************************************************************)
(* anchorError.ts: what a caller of sendInstructions, of                   *)
(* sendMultipleInstructions or of executeTxnsInOrder is told when one of   *)
(* its transactions fails.                                                 *)
(*                                                                         *)
(* The transactions are executed one after the other.  The cluster reports *)
(* a failure as an object that names the instruction and, if a program     *)
(* returned one, its code; what an await throws is text.  parse makes a    *)
(* ProgramError of either, with a message from the caller's IDL, from      *)
(* Anchor's errors or from the System program's, or hands it on as it is.  *)
(***************************************************************************)
EXTENDS Integers, Sequences, FiniteSets

CONSTANTS
  Calls,      \* what may be sent: transactions, each a sequence of programs, one an instruction
  Client,     \* the program whose IDL the caller passes
  IdlErrors,  \* the codes its IDL names
  Codes       \* codes a program may return

VARIABLES
  call,       \* the transactions
  next,       \* the one to be executed
  program,    \* the program whose instruction failed
  status,     \* what the call was told: pending, executed, or a failure
  thrown      \* what its caller catches

vars == <<call, next, program, status, thrown>>

Nothing == [kind |-> "nothing"]
Pending == [kind |-> "pending"]
Null == -1

Init ==
  /\ call \in Calls /\ next = 1 /\ program = "none"
  /\ status = Pending /\ thrown = Nothing

-----------------------------------------------------------------------------
(* The cluster *)

\* {"InstructionError": [index, {"Custom": code}]}, or another error of the runtime's in place
\* of the code; a program's own errors are told by a code, its builtin ones are not.
Custom(i, code) == [kind |-> "custom", index |-> i - 1, code |-> code]
Builtin(i) == [kind |-> "builtin", index |-> i - 1]

\* An error of the transaction, like "BlockhashNotFound" or {"InsufficientFundsForRent": ...}.
OfTransaction == [kind |-> "transaction"]

\* An error with a text, in which a code may be told, once or more often.
Text(times, code) == [kind |-> "text", times |-> times, code |-> code]

Succeed ==
  /\ status = Pending /\ next <= Len(call)
  /\ next' = next + 1
  /\ UNCHANGED <<call, program, status, thrown>>

\* Instruction i fails, with it the transaction, and the websocket tells.
FailAt(i) ==
  /\ status = Pending
  /\ program' = call[next][i]
  /\ status' \in {Builtin(i)} \cup {Custom(i, code) : code \in Codes}
  /\ UNCHANGED <<call, next, thrown>>

\* An await fails, or the transaction fails before its first instruction.
FailBefore ==
  /\ status = Pending /\ next <= Len(call)
  /\ \/ status' = OfTransaction /\ UNCHANGED program
     \/ \E times \in 0..2, code \in Codes, i \in DOMAIN call[next] :
          /\ status' = Text(times, code)
          /\ program' = IF times = 0 THEN program ELSE call[next][i]
  /\ UNCHANGED <<call, next, thrown>>

-----------------------------------------------------------------------------
(* The caller *)

LangErrorCode ==
  100..103 \cup {1000, 1001} \cup 2000..2019 \cup 3000..3014 \cup {4000, 5000}

\* Messages are told apart by the table they are from.
LangErrorMessage == [code \in LangErrorCode |-> <<"lang", code>>]
SystemErrorMessage == [code \in 1..15 |-> <<"system", code>>]

\* execute and executeBig: the messages of the program's IDL, by code.
Errors == [code \in IdlErrors |-> <<"idl", code>>]

\* Plausible slip: the index of the instruction, where there is one, comes first.
IndexOf(err) ==
  CASE err.kind \in {"custom", "builtin"} -> err.index
    [] err.kind = "text" /\ err.times = 1 -> err.code
    [] OTHER -> Null

\* A code of 0 is as good as none: then the index of the instruction is taken for the code.
ErrorCode(err) ==
  CASE err.kind = "custom" /\ err.code # 0 -> err.code
    [] err.kind = "builtin" \/ (err.kind = "custom" /\ err.code = 0) -> err.index
    [] err.kind = "text" /\ err.times = 1 -> err.code
    [] OTHER -> Null

Tables == <<Errors, LangErrorMessage, SystemErrorMessage>>

Known(code) == \E k \in DOMAIN Tables : code \in DOMAIN Tables[k]

Message(code) ==
  LET first == CHOOSE k \in DOMAIN Tables :
                 /\ code \in DOMAIN Tables[k]
                 /\ \A j \in 1..(k - 1) : code \notin DOMAIN Tables[j]
  IN Tables[first][code]

ProgramError(code) == [kind |-> "ProgramError", code |-> code, msg |-> Message(code)]

\* parse, and its callers: without a ProgramError the error is thrown as it is.
Parse(err) == IF Known(ErrorCode(err)) THEN ProgramError(ErrorCode(err)) ELSE err

Catch ==
  /\ status # Pending /\ thrown = Nothing
  /\ thrown' = Parse(status)
  /\ UNCHANGED <<call, next, program, status>>

Next ==
  \/ Succeed \/ FailBefore \/ Catch
  \/ /\ next <= Len(call)
     /\ \E i \in DOMAIN call[next] : FailAt(i)

Spec == Init /\ [][Next]_vars

-----------------------------------------------------------------------------
(* Properties *)

Caught == thrown # Nothing
Coded == status.kind = "custom" \/ (status.kind = "text" /\ status.times = 1)

\* Whichever instruction of whichever transaction fails: the caller of a program is told the
\* code it returned and its IDL's message for it; other codes, but 0, keep what they are, so that
\* two codes are never confused, and what no table knows is told as it came.
CodesAreTold ==
  Caught /\ Coded /\ status.code # 0 =>
    /\ program = Client /\ status.code \in IdlErrors =>
         thrown = [kind |-> "ProgramError", code |-> status.code, msg |-> <<"idl", status.code>>]
    /\ \/ thrown.kind = "ProgramError" /\ thrown.code = status.code
       \/ thrown = status /\ ~Known(status.code)
=============================================================================
