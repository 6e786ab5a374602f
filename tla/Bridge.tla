------------------------------- MODULE Bridge -------------------------------
(***************************************************************************)
(* The bridge from Ethereum to Solana: the page that burns a user's RNDR,  *)
(* the API that packages a Solana transaction for the burn, and the bridge *)
(* program that pays it out of an escrow.                                  *)
(*                                                                         *)
(* One user, on one page at a time.  A transfer is a click on the button,  *)
(* or a transfer of the token somewhere else that the user makes without   *)
(* the page; its Ethereum transaction is named after it.  The button stays *)
(* enabled while a transfer is under way, so several may overlap.  A step  *)
(* of a transfer is one await of submitTransfer with what follows it, and  *)
(* any await may fail.                                                     *)
(* Amounts are in the least unit the page lets a user type; the signature  *)
(* of a request is the user's own, and Ethereum's receipts are final.      *)
(***************************************************************************)
EXTENDS Integers

CONSTANTS
  Transfers,  \* clicks on the button, and transfers without the page
  Inputs,     \* amounts the user may type
  Whole,      \* one RNDR, in the unit of the inputs
  Exact,      \* the largest amount Number * 10^decimals gives to a BN
  Balance,    \* RNDR the user has on Ethereum
  Escrow,     \* RNDR the bridge's escrow is given
  Validity,   \* blocks that may follow a blockhash before it expires
  MaxHeight   \* bound of the model: blocks

ASSUME InputsAssumption == Inputs \subseteq Nat
ASSUME AmountsAssumption ==
  Whole \in Nat \ {0} /\ Exact \in Nat /\ Balance \in Nat /\ Escrow \in Nat
ASSUME BlocksAssumption == Validity \in Nat /\ MaxHeight \in Nat

VARIABLES
  balance, burnTx, outside,          \* Ethereum: the user's RNDR, the state of each
                                     \* transaction, the transfers made without the page
  erc20Balance, erc20ToBurn,         \* the page: the balance it knows, the input field
  step, captured, asked,             \* of each transfer: its step, the input at the click,
                                     \* and the amount of its request
  package,                           \* of each transfer: the transaction the API made for it
  height, bridge, escrow, transfers, \* Solana: blocks, the bridge's account, its escrow, and
                                     \* the amount in the account of each (0: no account)
  submitted,                         \* packages signed by the user and not dropped
  early                              \* history: the transfers that were asked for by hand when
                                     \* they were no burn that was mined

ethereum == <<balance, burnTx, outside>>
page == <<erc20Balance, erc20ToBurn, step, captured, asked, package>>
solana == <<height, bridge, escrow, transfers, submitted, early>>
vars == <<ethereum, page, solana>>

Package == [ethAddr: Transfers, amount: Nat, blockhash: Nat]
None == [ethAddr |-> "none"]
Steps == {"idle", "burning", "balance", "verifying", "packaging", "transferring", "sent", "ended"}

TypeOK ==
  /\ balance \in 0..Balance
  /\ burnTx \in [Transfers -> {"none", "pending", "mined", "reverted"}]
  /\ outside \subseteq Transfers /\ early \subseteq Transfers
  /\ erc20Balance \in 0..Balance /\ erc20ToBurn \in Nat
  /\ step \in [Transfers -> Steps]
  /\ captured \in [Transfers -> Nat] /\ asked \in [Transfers -> Nat]
  /\ package \in [Transfers -> Package \cup {None}]
  /\ height \in 0..MaxHeight /\ bridge \in BOOLEAN
  /\ escrow \in 0..Escrow /\ transfers \in [Transfers -> 0..Escrow]
  /\ submitted \subseteq Package

Init ==
  /\ balance = Balance /\ burnTx = [t \in Transfers |-> "none"]
  /\ outside = {} /\ early = {}
  /\ erc20Balance = 0 /\ erc20ToBurn = 0
  /\ step = [t \in Transfers |-> "idle"]
  /\ captured = [t \in Transfers |-> 0] /\ asked = [t \in Transfers |-> 0]
  /\ package = [t \in Transfers |-> None]
  /\ height = 0 /\ bridge = FALSE /\ escrow = Escrow
  /\ transfers = [t \in Transfers |-> 0] /\ submitted = {}

-----------------------------------------------------------------------------
(* The page *)

Goto(t, s) == step' = [step EXCEPT ![t] = s]

\* The effect that runs whenever the wallet's accounts are set.
Load ==
  /\ erc20Balance' = balance /\ erc20ToBurn' = balance
  /\ UNCHANGED <<ethereum, step, captured, asked, package, solana>>

Type(n) ==
  /\ erc20ToBurn' = n
  /\ UNCHANGED <<ethereum, erc20Balance, step, captured, asked, package, solana>>

\* The page is closed or reloaded: what it was about to do is forgotten.
Close ==
  /\ step' = [t \in Transfers |-> IF step[t] \in {"idle", "sent"} THEN step[t] ELSE "ended"]
  /\ package' = [t \in Transfers |-> None]
  /\ erc20Balance' = 0 /\ erc20ToBurn' = 0
  /\ UNCHANGED <<ethereum, captured, asked, solana>>

\* A click on the button.  BigInt throws for an input that is not whole; otherwise the
\* wallet is asked to sign the burn, and the user signs it or does not.
SubmitTransfer(t) ==
  /\ step[t] = "idle" /\ 0 < erc20ToBurn /\ erc20ToBurn <= erc20Balance
  /\ captured' = [captured EXCEPT ![t] = erc20ToBurn]
  /\ \/ Goto(t, "ended") /\ UNCHANGED burnTx
     \/ /\ erc20ToBurn % Whole = 0
        /\ Goto(t, "burning") /\ burnTx' = [burnTx EXCEPT ![t] = "pending"]
  /\ UNCHANGED <<balance, outside, erc20Balance, erc20ToBurn, asked, package, solana>>

\* Plausible slip: the page goes on when it has the transaction's hash.
HashIsKnown(t) == burnTx[t] \in {"pending", "mined"}

Confirmed(t) == burnTx[t] = "mined"

\* send() resolves with the receipt.
BurnRndr(t) ==
  /\ step[t] = "burning" /\ Confirmed(t)
  /\ Goto(t, "balance")
  /\ UNCHANGED <<ethereum, erc20Balance, erc20ToBurn, captured, asked, package, solana>>

NewBalance(t) == balance

GetBalance(t) ==
  /\ step[t] = "balance"
  /\ erc20Balance' = NewBalance(t)
  /\ Goto(t, "verifying")
  /\ UNCHANGED <<ethereum, erc20ToBurn, captured, asked, package, solana>>

\* Plausible slip: the input is read again, instead of the one of the click.
InputNow(t) == erc20ToBurn

BurnedAmount(t) == captured[t]

\* The user signs the message that says which burn and how much, and it is posted.
VerifyIntent(t) ==
  /\ step[t] = "verifying"
  /\ asked' = [asked EXCEPT ![t] = BurnedAmount(t)]
  /\ Goto(t, "packaging")
  /\ UNCHANGED <<ethereum, erc20Balance, erc20ToBurn, captured, package, solana>>

\* Whatever is rejected, or answered with an error, ends the transfer: without a package
\* the page fails on the next line, and an await that throws is not caught.  The receipt
\* may have taken too long, and the burn may still be mined.
Fail(t) ==
  /\ step[t] \in {"burning", "balance", "verifying", "packaging", "transferring"}
  /\ Goto(t, "ended")
  /\ UNCHANGED <<ethereum, erc20Balance, erc20ToBurn, captured, asked, package, solana>>

\* The user signs the transaction, and the wallet sends it; its answer may be lost.
SendSolTx(t) ==
  /\ step[t] = "transferring"
  /\ submitted' = submitted \cup {package[t]}
  /\ step' \in {[step EXCEPT ![t] = s] : s \in {"sent", "ended"}}
  /\ UNCHANGED <<ethereum, erc20Balance, erc20ToBurn, captured, asked, package,
                 height, bridge, escrow, transfers, early>>

-----------------------------------------------------------------------------
(* The API *)

\* validateOp finds nothing wrong with the transaction its node tells it: it calls
\* `transfer' of the token, in the amount of the request.  Whether it was mined, and where
\* it sends the token, is not looked at.  The amount must survive its conversions.  (After
\* an error is answered the handler goes on, and its second answer throws: nothing of it is
\* sent.)
Valid(t, amount) ==
  /\ burnTx[t] # "none" /\ amount = captured[t]
  /\ amount % Whole = 0 /\ amount <= Exact

Packaged(t, amount) == [ethAddr |-> t, amount |-> amount, blockhash |-> height]

Handler(t) ==
  /\ step[t] = "packaging" /\ Valid(t, asked[t])
  /\ package' = [package EXCEPT ![t] = Packaged(t, asked[t])]
  /\ Goto(t, "transferring")
  /\ UNCHANGED <<ethereum, erc20Balance, erc20ToBurn, captured, asked, solana>>

\* The page's burn of the transfer was mined.
Burned(t) == burnTx[t] = "mined" /\ t \notin outside

\* The user makes a request by himself, for any transaction the node knows: for a burn,
\* whatever became of the page, the API makes another package, with another blockhash.
AskByHand(t) ==
  /\ Valid(t, captured[t])
  /\ submitted' = submitted \cup {Packaged(t, captured[t])}
  /\ early' = IF Burned(t) THEN early ELSE early \cup {t}
  /\ UNCHANGED <<ethereum, page, height, bridge, escrow, transfers>>

-----------------------------------------------------------------------------
(* The chains *)

\* The user transfers some of the token somewhere else.
TransferElsewhere(t, n) ==
  /\ step[t] = "idle" /\ 0 < n
  /\ Goto(t, "ended")
  /\ captured' = [captured EXCEPT ![t] = n]
  /\ burnTx' = [burnTx EXCEPT ![t] = "pending"]
  /\ outside' = outside \cup {t}
  /\ UNCHANGED <<balance, erc20Balance, erc20ToBurn, asked, package, solana>>

\* Ethereum executes a transfer; without the balance it is reverted.
Mine(t) ==
  /\ burnTx[t] = "pending"
  /\ IF captured[t] <= balance
     THEN balance' = balance - captured[t] /\ burnTx' = [burnTx EXCEPT ![t] = "mined"]
     ELSE burnTx' = [burnTx EXCEPT ![t] = "reverted"] /\ UNCHANGED balance
  /\ UNCHANGED <<outside, page, solana>>

NewBlock ==
  /\ height < MaxHeight /\ height' = height + 1
  /\ UNCHANGED <<ethereum, page, bridge, escrow, transfers, submitted, early>>

Drop(p) ==
  /\ submitted' = submitted \ {p}
  /\ UNCHANGED <<ethereum, page, height, bridge, escrow, transfers, early>>

InitializeBridgeV0 ==
  /\ ~bridge /\ bridge' = TRUE
  /\ UNCHANGED <<ethereum, page, height, escrow, transfers, submitted, early>>

\* The bridge's account is closed; its escrow and the transfers' accounts stay.
DeleteBridgeV0 ==
  /\ bridge /\ bridge' = FALSE
  /\ UNCHANGED <<ethereum, page, height, escrow, transfers, submitted, early>>

\* Plausible slip: init_if_needed.
InitIfNeeded(b) == TRUE

\* The account that is derived from the burn can be created.
TransferInit(b) == transfers[b] = 0

BridgeMintRndrV0(p) ==
  /\ bridge /\ height <= p.blockhash + Validity
  /\ TransferInit(p.ethAddr)
  /\ p.amount <= escrow
  /\ escrow' = escrow - p.amount
  /\ transfers' = [transfers EXCEPT ![p.ethAddr] = p.amount]
  /\ submitted' = submitted \ {p}
  /\ UNCHANGED <<ethereum, page, height, bridge, early>>

Next ==
  \/ Load \/ Close \/ \E n \in Inputs : Type(n)
  \/ \E t \in Transfers :
       \/ SubmitTransfer(t) \/ BurnRndr(t) \/ GetBalance(t) \/ VerifyIntent(t)
       \/ SendSolTx(t) \/ Fail(t) \/ Handler(t) \/ AskByHand(t) \/ Mine(t)
       \/ \E n \in Inputs : TransferElsewhere(t, n)
  \/ \E p \in submitted : BridgeMintRndrV0(p) \/ Drop(p)
  \/ NewBlock \/ InitializeBridgeV0 \/ DeleteBridgeV0

Spec == Init /\ [][Next]_vars

-----------------------------------------------------------------------------
(* Properties *)

\* What the page requests is what was burned: the API, which looks at the transaction and
\* not at its receipt, is asked by the page only for burns that were mined, in the amount
\* they burned, whatever the user types, and whichever transfers overlap, while the burn
\* is on its way (submitTransfer, validateOp).
RequestsMatchBurns ==
  \A t \in Transfers :
    /\ step[t] \in {"balance", "verifying", "packaging", "transferring"} => Burned(t)
    /\ step[t] = "packaging" => asked[t] = captured[t]

\* What is released was burned before, unless somebody asked for it by hand when it was
\* not, the burn being pending or reverted or the transfer none to the burn's address: only
\* the page waits for the receipt, and with the page alone nothing is released that was
\* not burned, however late and often its packages land (submitTransfer, validateOp,
\* bridge_mint_rndr_v0).
ReleasedIsBurned ==
  \A t \in Transfers : transfers[t] > 0 => Burned(t) \/ t \in early

\* The amount each Ethereum transaction names.
Named == [t \in Transfers |-> IF burnTx[t] = "none" THEN 0 ELSE captured[t]]

Ledger == INSTANCE BridgeLedger WITH
  Transactions <- Transfers, Amounts <- (1..Balance) \cup (Inputs \ {0}),
  named <- Named, released <- transfers

\* API and program release for each Ethereum transaction at most once, and the amount it
\* names, however often it is packaged, sent, lost and asked for again, whoever asks, and
\* though the bridge is closed and initialized again in between (validateOp, handler,
\* bridge_mint_rndr_v0, delete_bridge_v0).
LedgerSpec == Ledger!Spec
=============================================================================
