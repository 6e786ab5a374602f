---------------------------- MODULE BridgeDisplay ----------------------------
(***************************************************************************)
(* What the bridge's page shows of its transfers (Bridge models what they  *)
(* do).  Each click on the button starts an asynchronous function that     *)
(* sets the page's state after every await; all of them set the same       *)
(* state, nothing keeps the button from being clicked again, and the input *)
(* from being changed, while one is under way.                             *)
(***************************************************************************)
EXTENDS Integers, Sequences

CONSTANTS
  Transfers,  \* clicks
  Inputs,     \* what may be typed: numbers, not all of them whole
  IsWhole(_), \* those BigInt takes
  Balance     \* what the page takes for the balance

VARIABLES
  erc20ToBurn,                             \* the input
  currentStep, error, submittedSolTx,      \* what the page shows
  pc, captured, last,                      \* the transfers, what each is of, the latest one
  failed,                                  \* those that could not be packaged
  overlapped                               \* whether one was begun before the one before ended

display == <<currentStep, error, submittedSolTx>>
transfers == <<pc, captured, last, failed, overlapped>>
vars == <<erc20ToBurn, display, transfers>>

None == "none"

\* stepOrder, from 1 instead of 0: the awaits of a transfer, "balance" being part of the first.
Steps == <<"burningEthRndr", "verifyingMintIntent", "packagingSolTx", "transferringRndr">>
Order(step) == IF step = None THEN 0 ELSE CHOOSE k \in DOMAIN Steps : Steps[k] = step
StepNames == {Steps[k] : k \in DOMAIN Steps}

Running(t) == pc[t] \in StepNames \cup {"balance"}

Init ==
  /\ erc20ToBurn \in Inputs
  /\ currentStep = None /\ error = None /\ submittedSolTx = None
  /\ pc = [t \in Transfers |-> "idle"] /\ captured = [t \in Transfers |-> 0]
  /\ last = None /\ failed = {} /\ overlapped = FALSE

-----------------------------------------------------------------------------

Type(n) ==
  /\ erc20ToBurn' = n
  /\ UNCHANGED <<display, transfers>>

Goto(t, l) == pc' = [pc EXCEPT ![t] = l]

\* The button is there for every amount up to the balance, and nothing disables it.
Clickable == 0 < erc20ToBurn /\ erc20ToBurn <= Balance

\* Of a number that is not whole BigInt makes an exception, which nobody catches.
SubmitTransfer(t) ==
  /\ pc[t] = "idle" /\ Clickable
  /\ error' = None /\ submittedSolTx' = None /\ currentStep' = Steps[1]
  /\ captured' = [captured EXCEPT ![t] = erc20ToBurn]
  /\ last' = t /\ overlapped' = (overlapped \/ \E u \in Transfers : Running(u))
  /\ Goto(t, IF IsWhole(erc20ToBurn) THEN Steps[1] ELSE "ended")
  /\ UNCHANGED <<erc20ToBurn, failed>>

\* Plausible slip: a step is shown as soon as the one before it has begun.
ShownEarly(t) ==
  CASE pc[t] = Steps[1] -> Steps[2]
    [] pc[t] = "balance" -> Steps[3]
    [] pc[t] = Steps[2] -> Steps[4]
    [] OTHER -> currentStep

\* The step a transfer that goes on sets when its await is over.
StepAfter(t) ==
  CASE pc[t] = Steps[1] -> currentStep
    [] pc[t] = "balance" -> Steps[2]
    [] pc[t] = Steps[2] -> Steps[3]
    [] pc[t] = Steps[3] -> Steps[4]
    [] pc[t] = Steps[4] -> currentStep

Following(t) ==
  CASE pc[t] = Steps[1] -> "balance"
    [] pc[t] = "balance" -> Steps[2]
    [] pc[t] = Steps[2] -> Steps[3]
    [] pc[t] = Steps[3] -> Steps[4]
    [] pc[t] = Steps[4] -> "sent"

SolTxAfter(t) == IF pc[t] = Steps[4] THEN t ELSE submittedSolTx

\* An await of a transfer has its answer, and what follows it runs up to the next one.
Proceed(t) ==
  /\ Running(t)
  /\ currentStep' = StepAfter(t)
  /\ submittedSolTx' = SolTxAfter(t)
  /\ Goto(t, Following(t))
  /\ UNCHANGED <<erc20ToBurn, error, captured, last, failed, overlapped>>

\* A burn or a Solana transaction that fails is shown; so is a failed packaging, but the page
\* goes on to the next step and ends there, without a transaction.  Nothing is shown when the
\* balance, or the user's signature, is not to be had.
Fail(t) ==
  /\ Running(t)
  /\ error' = IF pc[t] \in {"balance", Steps[2]} THEN error ELSE t
  /\ currentStep' = IF pc[t] = Steps[3] THEN Steps[4] ELSE currentStep
  /\ failed' = IF pc[t] = Steps[3] THEN failed \cup {t} ELSE failed
  /\ Goto(t, "ended")
  /\ UNCHANGED <<erc20ToBurn, submittedSolTx, captured, last, overlapped>>

Next ==
  \/ \E n \in Inputs : Type(n)
  \/ \E t \in Transfers : SubmitTransfer(t) \/ Proceed(t) \/ Fail(t)

Spec == Init /\ [][Next]_vars

-----------------------------------------------------------------------------
(* What is rendered *)

Check(k) == Order(currentStep) > k
Cross(k) == error # None /\ Order(currentStep) = k
Success == submittedSolTx # None
Spinner == currentStep # None /\ ~Success /\ error = None

-----------------------------------------------------------------------------
(* Properties *)

\* How many of the steps a transfer has behind it.
Behind(t) ==
  CASE pc[t] \in StepNames -> Order(pc[t]) - 1
    [] pc[t] = "sent" -> 4
    [] pc[t] = "balance" -> 0

\* As long as no transfer is begun while another one is under way: checks are for steps the
\* transfer has behind it (or for a packaging that failed), the cross is where it ended, and it
\* is not under way while there is one; the spinner turns while it is under way.
MarksAreTrue ==
  last # None /\ ~overlapped =>
    /\ \A k \in 1..4 :
         /\ pc[last] # "ended" /\ Check(k) => k <= Behind(last)
         /\ Cross(k) => error = last /\ pc[last] = "ended"
    /\ last \in failed => Check(3) /\ Cross(4)
    /\ Running(last) => Spinner

\* A success is told of a transfer that has come to its end, whichever overlap.
SuccessIsReal == Success => pc[submittedSolTx] = "sent"
=============================================================================
