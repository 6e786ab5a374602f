---------------------------- MODULE BridgeProofs ----------------------------
(***************************************************************************)
(* The bridge keeps its promise, for any number of transfers, any amounts  *)
(* and any blocks: it implements BridgeLedger, and what the page alone     *)
(* asks for was burned.                                                    *)
(*                                                                         *)
(* The deployment that funds its escrow, and the calls an administrator    *)
(* makes after it, are the second half: AdminCli, with variables of its    *)
(* own, on which nothing of the first half depends.                        *)
(***************************************************************************)
EXTENDS Bridge, AdminCli, ArithmeticProofs, SequenceTheorems, TLAPS

\* A transaction that was signed names an amount; a transfer nobody made has none; and one
\* made elsewhere is over for the page.
Signed ==
  \A t \in Transfers :
    /\ burnTx[t] # "none" => captured[t] \in (1..Balance) \cup (Inputs \ {0})
    /\ step[t] = "idle" => burnTx[t] = "none"
    /\ t \in outside => step[t] = "ended"

\* The transaction a page is about to send is of its own burn.
Held ==
  \A t \in Transfers :
    step[t] = "transferring" =>
      package[t] \in Package /\ package[t].ethAddr = t /\ package[t].amount = captured[t]

\* What was sent to Solana is of an Ethereum transaction, in its amount, and of a burn that
\* was mined, or asked for by hand.
Covered ==
  \A p \in submitted :
    /\ burnTx[p.ethAddr] # "none" /\ p.amount = captured[p.ethAddr]
    /\ Burned(p.ethAddr) \/ p.ethAddr \in early

IInv == TypeOK /\ RequestsMatchBurns /\ ReleasedIsBurned /\ Signed /\ Held /\ Covered

USE InputsAssumption, AmountsAssumption, BlocksAssumption

-----------------------------------------------------------------------------

LEMMA InitIInv == Init => IInv
<1> SUFFICES ASSUME Init PROVE IInv
  OBVIOUS
<1>1. TypeOK
  <2>1. package \in [Transfers -> Package \cup {None}]
    BY DEF Init
  <2>2. /\ burnTx \in [Transfers -> {"none", "pending", "mined", "reverted"}]
        /\ step \in [Transfers -> Steps]
        /\ captured \in [Transfers -> Nat] /\ asked \in [Transfers -> Nat]
        /\ transfers \in [Transfers -> 0..Escrow]
        /\ outside \subseteq Transfers /\ early \subseteq Transfers
    BY DEF Init, Steps
  <2>3. /\ balance \in 0..Balance /\ escrow \in 0..Escrow /\ height \in 0..MaxHeight
        /\ erc20Balance \in 0..Balance /\ erc20ToBurn \in Nat
        /\ submitted \subseteq Package
    BY DEF Init
  <2>4. bridge \in BOOLEAN
    BY Zenon DEF Init
  <2> QED BY <2>1, <2>2, <2>3, <2>4 DEF TypeOK
<1>2. RequestsMatchBurns /\ ReleasedIsBurned /\ Signed /\ Held /\ Covered
  BY DEF Init, RequestsMatchBurns, ReleasedIsBurned, Signed, Held, Covered
<1> QED BY <1>1, <1>2 DEF IInv

\* The steps of the page that change neither chain.
PageStep(t) ==
  \/ BurnRndr(t) \/ GetBalance(t) \/ VerifyIntent(t) \/ Fail(t) \/ Handler(t)

LEMMA PageIInv ==
  ASSUME IInv, NEW t \in Transfers, PageStep(t)
  PROVE  IInv'
<1> USE DEF IInv, Goto
<1>1. UNCHANGED <<ethereum, captured, solana>>
  BY DEF PageStep, BurnRndr, GetBalance, VerifyIntent, Fail, Handler, ethereum, solana
<1>2. TypeOK'
  <2>1. Goto(t, "balance") \/ Goto(t, "verifying") \/ Goto(t, "packaging")
          \/ Goto(t, "ended") \/ Goto(t, "transferring")
    BY DEF PageStep, BurnRndr, GetBalance, VerifyIntent, Fail, Handler
  <2>2. step' \in [Transfers -> Steps]
    BY <2>1 DEF TypeOK, Steps
  <2>3. erc20Balance' \in 0..Balance /\ erc20ToBurn' \in Nat /\ asked' \in [Transfers -> Nat]
    BY DEF PageStep, BurnRndr, GetBalance, VerifyIntent, Fail, Handler, TypeOK, NewBalance,
           BurnedAmount
  <2>4. package' \in [Transfers -> Package \cup {None}]
    BY DEF PageStep, BurnRndr, GetBalance, VerifyIntent, Fail, Handler, TypeOK, Package, Packaged
  <2> QED BY <1>1, <2>2, <2>3, <2>4 DEF TypeOK, ethereum, solana
<1>3. step[t] \notin {"idle", "ended"} /\ t \notin outside
  BY DEF PageStep, BurnRndr, GetBalance, VerifyIntent, Fail, Handler, Signed
<1>4. RequestsMatchBurns'
  BY <1>1, <1>3 DEF PageStep, BurnRndr, GetBalance, VerifyIntent, Fail, Handler, TypeOK, ethereum,
                    RequestsMatchBurns, Confirmed, BurnedAmount, Burned
<1>5. Signed'
  BY <1>1, <1>3 DEF PageStep, BurnRndr, GetBalance, VerifyIntent, Fail, Handler, TypeOK, ethereum,
                    Signed
<1>6. Held'
  BY <1>1 DEF PageStep, BurnRndr, GetBalance, VerifyIntent, Fail, Handler, TypeOK, ethereum, Held,
              Packaged, Package, RequestsMatchBurns
<1>7. Covered' /\ ReleasedIsBurned'
  BY <1>1 DEF Covered, ReleasedIsBurned, Burned, ethereum, solana
<1> QED BY <1>2, <1>4, <1>5, <1>6, <1>7

\* A transfer is made, on the page or without it: it had no transaction, and gets one, or none.
LEMMA SignIInv ==
  ASSUME IInv, NEW t \in Transfers,
         SubmitTransfer(t) \/ \E n \in Inputs : TransferElsewhere(t, n)
  PROVE  IInv'
<1> USE DEF IInv, Goto
<1>1. PICK n \in Nat : /\ captured' = [captured EXCEPT ![t] = n]
                      /\ n \in (1..Balance) \cup (Inputs \ {0})
  <2>1. ASSUME SubmitTransfer(t)
        PROVE  /\ captured' = [captured EXCEPT ![t] = erc20ToBurn]
               /\ erc20ToBurn \in Nat /\ erc20ToBurn \in 1..Balance
    BY <2>1 DEF SubmitTransfer, TypeOK
  <2>2. ASSUME NEW n \in Inputs, TransferElsewhere(t, n)
        PROVE  /\ captured' = [captured EXCEPT ![t] = n]
               /\ n \in Nat /\ n \in Inputs \ {0}
    BY <2>2 DEF TransferElsewhere
  <2>3. CASE SubmitTransfer(t)
    BY <2>1, <2>3
  <2>4. CASE \E n \in Inputs : TransferElsewhere(t, n)
    BY <2>2, <2>4
  <2> QED BY <2>3, <2>4
<1>2. /\ step[t] = "idle" /\ burnTx[t] = "none" /\ t \notin outside
      /\ \/ step' = [step EXCEPT ![t] = "ended"] \/ step' = [step EXCEPT ![t] = "burning"]
      /\ burnTx' \in {burnTx, [burnTx EXCEPT ![t] = "pending"]}
      /\ outside' \in {outside, outside \cup {t}}
      /\ outside' # outside => step' = [step EXCEPT ![t] = "ended"]
      /\ UNCHANGED <<balance, erc20Balance, erc20ToBurn, asked, package, solana>>
  BY DEF SubmitTransfer, TransferElsewhere, Signed
<1>3. TypeOK'
  BY <1>1, <1>2 DEF TypeOK, Steps, solana
<1>4. \A s \in Transfers \ {t} : /\ burnTx'[s] = burnTx[s] /\ step'[s] = step[s]
                                 /\ captured'[s] = captured[s]
                                 /\ s \in outside' <=> s \in outside
  BY <1>1, <1>2 DEF TypeOK
<1>5. /\ captured'[t] = n /\ step'[t] \in {"ended", "burning"}
      /\ burnTx'[t] \in {"none", "pending"} /\ (t \in outside' => step'[t] = "ended")
  BY <1>1, <1>2 DEF TypeOK
<1>6. RequestsMatchBurns'
  BY <1>2, <1>4, <1>5 DEF RequestsMatchBurns, Burned
<1>7. Signed'
  <2>1. captured'[t] \in (1..Balance) \cup (Inputs \ {0})
    BY <1>1, <1>5
  <2> QED BY <1>4, <1>5, <2>1 DEF Signed
<1>8. Held'
  BY <1>2, <1>4, <1>5 DEF Held
<1>9. Covered'
  <2>1. \A p \in submitted : p.ethAddr \in Transfers \ {t}
    BY <1>2 DEF Covered, TypeOK, Package
  <2> QED BY <1>2, <1>4, <2>1 DEF Covered, Burned, solana
<1>10. ReleasedIsBurned'
  BY <1>2, <1>4 DEF ReleasedIsBurned, Burned, solana
<1> QED BY <1>3, <1>6, <1>7, <1>8, <1>9, <1>10

LEMMA MineIInv ==
  ASSUME IInv, NEW t \in Transfers, Mine(t)
  PROVE  IInv'
<1> USE DEF IInv, Mine, page, solana
<1>1. TypeOK'
  BY DEF TypeOK
<1>2. \A s \in Transfers : burnTx[s] # "pending" => burnTx'[s] = burnTx[s]
  BY DEF TypeOK
<1>3. \A s \in Transfers : burnTx[s] = "none" <=> burnTx'[s] = "none"
  BY DEF TypeOK
<1>4. \A s \in Transfers : Burned(s) => Burned(s)'
  BY <1>2 DEF Burned
<1>5. RequestsMatchBurns' /\ ReleasedIsBurned'
  BY <1>4 DEF RequestsMatchBurns, ReleasedIsBurned
<1>6. Signed'
  BY <1>3 DEF Signed
<1>7. Held'
  BY DEF Held
<1>8. Covered'
  <2>1. \A p \in submitted : p.ethAddr \in Transfers
    BY DEF TypeOK, Package
  <2> QED BY <1>3, <1>4, <2>1 DEF Covered
<1> QED BY <1>1, <1>5, <1>6, <1>7, <1>8

\* Sending a package, or having another one made and sent.
LEMMA SendIInv ==
  ASSUME IInv, NEW t \in Transfers, SendSolTx(t) \/ AskByHand(t)
  PROVE  IInv'
<1> USE DEF IInv
<1>1. PICK p \in Package :
        /\ submitted' = submitted \cup {p}
        /\ p.ethAddr = t /\ p.amount = captured[t] /\ burnTx[t] # "none"
        /\ Burned(t) \/ t \in early'
        /\ early \subseteq early' /\ early' \subseteq Transfers
  <2>1. CASE SendSolTx(t)
    BY <2>1 DEF SendSolTx, Held, RequestsMatchBurns, Burned, TypeOK
  <2>2. CASE AskByHand(t)
    <3>1. Packaged(t, captured[t]) \in Package
      BY DEF Packaged, Package, TypeOK
    <3> QED BY <2>2, <3>1 DEF AskByHand, Valid, Packaged, TypeOK
  <2> QED BY <2>1, <2>2
<1>2. UNCHANGED <<ethereum, captured, asked, package, erc20Balance, erc20ToBurn,
                  height, bridge, escrow, transfers>>
  BY DEF SendSolTx, AskByHand, page, ethereum
<1>3. /\ step' = step \/ step' = [step EXCEPT ![t] = "sent"] \/ step' = [step EXCEPT ![t] = "ended"]
      /\ step' # step => step[t] = "transferring"
  BY DEF SendSolTx, AskByHand, page
<1>4. TypeOK'
  BY <1>1, <1>2, <1>3 DEF TypeOK, Steps, ethereum
<1>5. RequestsMatchBurns' /\ Signed' /\ Held'
  BY <1>2, <1>3 DEF TypeOK, RequestsMatchBurns, Burned, Signed, Held, ethereum
<1>6. Covered' /\ ReleasedIsBurned'
  BY <1>1, <1>2 DEF Covered, ReleasedIsBurned, Burned, ethereum
<1> QED BY <1>4, <1>5, <1>6

\* What lands is of a burn that was mined, or was asked for by hand.
LEMMA MintIInv ==
  ASSUME IInv, NEW p \in submitted, BridgeMintRndrV0(p)
  PROVE  IInv'
<1> USE DEF IInv, BridgeMintRndrV0, page, ethereum
<1>1. p.ethAddr \in Transfers /\ p.amount \in Nat
  BY DEF TypeOK, Package
<1>2. TypeOK'
  BY <1>1 DEF TypeOK
<1>3. ReleasedIsBurned'
  BY <1>1 DEF ReleasedIsBurned, Covered, Burned, TypeOK
<1>4. RequestsMatchBurns' /\ Signed' /\ Held' /\ Covered'
  BY DEF RequestsMatchBurns, Signed, Held, Covered, Burned
<1> QED BY <1>2, <1>3, <1>4

\* The steps that concern no transfer's burn, request or package.
LEMMA OtherIInv ==
  ASSUME IInv,
         \/ Load \/ Close \/ \E n \in Inputs : Type(n)
         \/ \E p \in submitted : Drop(p)
         \/ NewBlock \/ InitializeBridgeV0 \/ DeleteBridgeV0
         \/ UNCHANGED vars
  PROVE  IInv'
<1> USE DEF IInv
<1>1. /\ UNCHANGED <<ethereum, captured, asked, transfers, early>>
      /\ submitted' \subseteq submitted
  BY DEF Load, Close, Type, Drop, NewBlock, InitializeBridgeV0, DeleteBridgeV0,
         vars, page, solana, ethereum
<1>2. UNCHANGED <<step, package>> \/ Close
  BY DEF Load, Type, Drop, NewBlock, InitializeBridgeV0, DeleteBridgeV0,
         vars, page, solana, ethereum
<1>3. TypeOK'
  <2>1. CASE Close
    BY <2>1 DEF Close, TypeOK, ethereum, solana, Steps
  <2>2. CASE Load \/ \E n \in Inputs : Type(n)
    BY <2>2 DEF Load, Type, TypeOK, ethereum, solana
  <2>3. CASE NewBlock
    BY <2>3 DEF NewBlock, TypeOK, ethereum, page
  <2>4. CASE InitializeBridgeV0 \/ DeleteBridgeV0
    BY <2>4 DEF InitializeBridgeV0, DeleteBridgeV0, TypeOK, ethereum, page
  <2>5. CASE (\E p \in submitted : Drop(p)) \/ UNCHANGED vars
    BY <2>5 DEF Drop, vars, TypeOK, ethereum, page, solana
  <2> QED BY <2>1, <2>2, <2>3, <2>4, <2>5
<1>4. \A t \in Transfers :
        /\ step'[t] = step[t] \/ step'[t] = "ended"
        /\ step'[t] = "transferring" => package'[t] = package[t]
  BY <1>2 DEF Close, TypeOK
<1>5. \A t \in Transfers : step'[t] = "idle" => step[t] = "idle"
  BY <1>4
<1>6. RequestsMatchBurns' /\ Held'
  BY <1>1, <1>4 DEF RequestsMatchBurns, Held, Burned, ethereum
<1>7. Signed'
  BY <1>1, <1>4, <1>5 DEF Signed, ethereum
<1>8. Covered' /\ ReleasedIsBurned'
  BY <1>1 DEF Covered, ReleasedIsBurned, Burned, ethereum
<1> QED BY <1>3, <1>6, <1>7, <1>8

THEOREM Inductive == IInv /\ [Next]_vars => IInv'
<1> SUFFICES ASSUME IInv, [Next]_vars PROVE IInv'
  OBVIOUS
<1>1. ASSUME NEW t \in Transfers, PageStep(t) PROVE IInv'
  BY <1>1, PageIInv
<1>2. ASSUME NEW t \in Transfers,
             SubmitTransfer(t) \/ \E n \in Inputs : TransferElsewhere(t, n)
      PROVE  IInv'
  BY <1>2, SignIInv
<1>3. ASSUME NEW t \in Transfers, Mine(t) PROVE IInv'
  BY <1>3, MineIInv
<1>4. ASSUME NEW t \in Transfers, SendSolTx(t) \/ AskByHand(t) PROVE IInv'
  BY <1>4, SendIInv
<1>5. ASSUME NEW p \in submitted, BridgeMintRndrV0(p) PROVE IInv'
  BY <1>5, MintIInv
<1> QED BY <1>1, <1>2, <1>3, <1>4, <1>5, OtherIInv DEF Next, PageStep

\* The state of page, API and chains keeps its types.
THEOREM TypeCorrect == Spec => []TypeOK
<1>1. IInv => TypeOK
  BY DEF IInv
<1> QED BY <1>1, InitIInv, Inductive, PTL DEF Spec

\* The page makes its requests for mined burns only, in their amounts (submitTransfer).
THEOREM RequestsAreHonest == Spec => []RequestsMatchBurns
<1>1. IInv => RequestsMatchBurns
  BY DEF IInv
<1> QED BY <1>1, InitIInv, Inductive, PTL DEF Spec

\* Without requests by hand, nothing is released that was not burned before
\* (submitTransfer, validateOp, bridge_mint_rndr_v0).
THEOREM ReleasesAreBurned == Spec => []ReleasedIsBurned
<1>1. IInv => ReleasedIsBurned
  BY DEF IInv
<1> QED BY <1>1, InitIInv, Inductive, PTL DEF Spec

-----------------------------------------------------------------------------
(* The refinement *)

ledger == <<Named, escrow, transfers>>

LEMMA LedgerInit == Init => Ledger!Init
BY DEF Init, Ledger!Init, Named

\* A transaction that is signed names its amount; a click that comes to none, nothing.
LEMMA SignRefines ==
  ASSUME IInv, NEW t \in Transfers,
         SubmitTransfer(t) \/ \E n \in Inputs : TransferElsewhere(t, n)
  PROVE  [Ledger!Next]_ledger
<1> USE DEF IInv
<1>1. /\ burnTx[t] = "none" /\ UNCHANGED <<escrow, transfers>>
      /\ burnTx' \in {burnTx, [burnTx EXCEPT ![t] = "pending"]}
      /\ \E n : captured' = [captured EXCEPT ![t] = n]
  BY DEF SubmitTransfer, TransferElsewhere, Signed, solana, Goto
<1>2. \A s \in Transfers \ {t} : burnTx'[s] = burnTx[s] /\ captured'[s] = captured[s]
  BY <1>1 DEF TypeOK
<1>3. Named[t] = 0 /\ Named \in [Transfers -> Nat] /\ Named' \in [Transfers -> Nat]
  <2>1. TypeOK'
    BY SignIInv
  <2> QED BY <1>1, <2>1 DEF Named, TypeOK
<1>4. \A s \in Transfers \ {t} : Named'[s] = Named[s]
  BY <1>2 DEF Named
<1>5. CASE burnTx' = burnTx
  <2>1. Named'[t] = 0
    BY <1>1, <1>5 DEF Named
  <2>2. Named' = Named
    BY <1>3, <1>4, <2>1
  <2> QED BY <1>1, <2>2 DEF ledger
<1>6. CASE burnTx' = [burnTx EXCEPT ![t] = "pending"]
  <2>1. burnTx'[t] = "pending"
    BY <1>6 DEF TypeOK
  <2>2. captured'[t] \in (1..Balance) \cup (Inputs \ {0})
    BY <2>1, SignIInv DEF Signed
  <2>3. Named'[t] = captured'[t]
    BY <2>1 DEF Named
  <2>4. Named' = [Named EXCEPT ![t] = captured'[t]]
    BY <1>3, <1>4, <2>3
  <2>5. Ledger!Name(t)
    BY <1>1, <1>3, <2>2, <2>4 DEF Ledger!Name
  <2> QED BY <2>5 DEF Ledger!Next
<1> QED BY <1>1, <1>5, <1>6

\* What the program lets through is the ledger's release of a transaction's amount.
LEMMA MintRefines ==
  ASSUME IInv, NEW p \in submitted, BridgeMintRndrV0(p)
  PROVE  Ledger!Next
<1> USE DEF IInv, BridgeMintRndrV0, ethereum, page, Named
<1>1. p.ethAddr \in Transfers
  BY DEF TypeOK, Package
<1>2. Named[p.ethAddr] = p.amount /\ p.amount > 0
  <2>1. burnTx[p.ethAddr] # "none" /\ p.amount = captured[p.ethAddr]
    BY DEF Covered
  <2>2. p.amount \in (1..Balance) \cup (Inputs \ {0})
    BY <1>1, <2>1 DEF Signed
  <2>3. \A n \in (1..Balance) \cup (Inputs \ {0}) : n > 0
    OBVIOUS
  <2> QED BY <1>1, <2>1, <2>2, <2>3
<1>3. Named' = Named
  OBVIOUS
<1>4. Ledger!Release(p.ethAddr)
  BY <1>1, <1>2, <1>3 DEF Ledger!Release, TransferInit
<1> QED BY <1>1, <1>4 DEF Ledger!Next

\* Nothing else touches what the ledger knows.
LEMMA OthersStutter ==
  ASSUME IInv, [Next]_vars,
         \A t \in Transfers : ~SubmitTransfer(t) /\ \A n \in Inputs : ~TransferElsewhere(t, n),
         \A p \in submitted : ~BridgeMintRndrV0(p)
  PROVE  UNCHANGED ledger
<1> USE DEF IInv
<1>1. UNCHANGED <<escrow, transfers, captured>>
  BY DEF Next, Load, Close, Type, BurnRndr, GetBalance, VerifyIntent, SendSolTx, Mine,
         Fail, Handler, AskByHand, Drop, NewBlock, InitializeBridgeV0, DeleteBridgeV0, vars,
         ethereum, page, solana
<1>2. UNCHANGED burnTx \/ \E t \in Transfers : Mine(t)
  BY DEF Next, Load, Close, Type, BurnRndr, GetBalance, VerifyIntent, SendSolTx,
         Fail, Handler, AskByHand, Drop, NewBlock, InitializeBridgeV0, DeleteBridgeV0, vars,
         ethereum, page, solana
<1>3. \A b \in Transfers : burnTx'[b] = "none" <=> burnTx[b] = "none"
  BY <1>2 DEF Mine, TypeOK
<1> QED BY <1>1, <1>3 DEF Named, ledger

\* For any transfers, amounts and blocks, API and program together release for each Ethereum
\* transaction at most once, and the amount it names (validateOp, handler,
\* bridge_mint_rndr_v0).
THEOREM BridgeImplementsLedger == Spec => LedgerSpec
<1>1. IInv /\ [Next]_vars => [Ledger!Next]_ledger
  BY SignRefines, MintRefines, OthersStutter
<1> QED BY <1>1, LedgerInit, InitIInv, Inductive, PTL DEF Spec, LedgerSpec, Ledger!Spec, ledger
-----------------------------------------------------------------------------
(* deploy.ts: the deployment of the bridge, and of the programs *)

Running == phase \in {"look", "send", "await"}

ScriptTypes ==
  /\ phase \in {"off", "upload", "look", "send", "await", "done"}
  /\ left \in [Transactions -> Nat] /\ funded \in Nat /\ mintBridge \in BOOLEAN
  /\ Running => at \in 1..9
  /\ phase = "done" => at = 10

\* The run that has initialized the bridge is to fund it.
Funding == Running /\ at \in {4, 5}

\* Only one run initializes the bridge: it alone funds it, or its transaction does when it is over.
FundsOnce ==
  /\ "bridge" \notin accounts => funded = 0 /\ left["fund"] = 0 /\ ~Funding
  /\ funded + left["fund"] + (IF Funding THEN 1 ELSE 0) <= 1

\* The deployer has the authority of a mint until its program takes it.
Handed(mint, by) ==
  /\ by \in accounts => mint \in accounts
  /\ mint \in held <=> mint \in accounts /\ by \notin accounts

Authorities ==
  /\ held \subseteq {"rndrMint", "rcMint"}
  /\ Handed("rndrMint", "distributor") /\ Handed("rcMint", "renderCredits")

\* What a run has gone past is there.
GonePast ==
  Running \/ phase = "done" =>
    /\ at > 1 => "rndrMint" \in accounts
    /\ at > 6 => "rcMint" \in accounts
    /\ at > 8 => "renderCredits" \in accounts
    /\ at > 9 => "distributor" \in accounts
    /\ at > 5 /\ mintBridge => funded = 1

DeployInv == ScriptTypes /\ FundsOnce /\ Authorities /\ GonePast

\* The order of the script's transactions.
LEMMA OrderIs ==
  /\ LastPlace = 9
  /\ Order[1] = "rndrMint" /\ Order[2] = "rndrMetadata" /\ Order[3] = "bridge"
  /\ Order[4] = "escrow" /\ Order[5] = "fund" /\ Order[6] = "rcMint"
  /\ Order[7] = "rcMetadata" /\ Order[8] = "renderCredits"
  /\ Order[9] = "distributor"
  /\ Transactions = {"rndrMint", "rndrMetadata", "bridge", "escrow", "fund", "rcMint",
                           "rcMetadata", "renderCredits", "distributor"}
  /\ \A i \in 1..9 : Position(Order[i]) = i
<1>1. DOMAIN Order = 1..9 /\ LastPlace = 9
  BY DEF Order, LastPlace
<1>2. /\ Order[1] = "rndrMint" /\ Order[2] = "rndrMetadata" /\ Order[3] = "bridge"
      /\ Order[4] = "escrow" /\ Order[5] = "fund" /\ Order[6] = "rcMint"
      /\ Order[7] = "rcMetadata" /\ Order[8] = "renderCredits"
      /\ Order[9] = "distributor"
  BY DEF Order
<1>3. 1..9 = {1, 2, 3, 4, 5, 6, 7, 8, 9}
  OBVIOUS
<1>4. \A i, j \in 1..9 : Order[i] = Order[j] => i = j
  BY <1>2, <1>3
<1>5. ASSUME NEW i \in 1..9 PROVE Position(Order[i]) = i
  <2>1. PICK j \in 1..9 : j = Position(Order[i]) /\ Order[j] = Order[i]
    BY <1>1 DEF Position
  <2> QED BY <1>4, <2>1
<1>6. Transactions = {"rndrMint", "rndrMetadata", "bridge", "escrow", "fund", "rcMint",
                            "rcMetadata", "renderCredits", "distributor"}
  BY <1>1, <1>2, <1>3 DEF Transactions
<1> QED BY <1>1, <1>2, <1>5, <1>6

\* What a transaction does to the chain, whoever sent it and whenever.
LEMMA ChainStep ==
  ASSUME Authorities, funded \in Nat, NEW x \in Transactions, ExecuteOrRefuse(x)
  PROVE  /\ Authorities'
         /\ accounts \subseteq accounts' /\ accounts' \subseteq accounts \cup {x}
         /\ Executable(x) /\ x # "fund" => x \in accounts'
         /\ funded' = IF Executable(x) /\ x = "fund" THEN funded + 1 ELSE funded
         /\ Executable("bridge") => "bridge" \notin accounts
<1>1. Executable("bridge") => "bridge" \notin accounts
  BY DEF Executable
<1>2. CASE ~Executable(x)
  BY <1>1, <1>2 DEF ExecuteOrRefuse, Execute, chain, Authorities, Handed
<1>3. CASE Executable(x) /\ Execute(x)
  <2>1. /\ accounts' = IF x = "fund" THEN accounts ELSE accounts \cup {x}
        /\ funded' = IF x = "fund" THEN funded + 1 ELSE funded
    BY <1>3 DEF Execute
  <2>2. ASSUME x \in {"rndrMint", "rcMint"} PROVE Authorities'
    BY <1>3, <2>1, <2>2 DEF Execute, Executable, Authorities, Handed
  <2>3. ASSUME x = "distributor" PROVE Authorities'
    BY <1>3, <2>1, <2>3 DEF Execute, Executable, Authorities, Handed
  <2>4. ASSUME x = "renderCredits" PROVE Authorities'
    BY <1>3, <2>1, <2>4 DEF Execute, Executable, Authorities, Handed
  <2>5. ASSUME x \notin {"rndrMint", "rcMint", "distributor", "renderCredits"} PROVE Authorities'
    <3>1. held' = held
      BY <1>3, <2>5 DEF Execute
    <3> QED BY <2>1, <2>5, <3>1 DEF Authorities, Handed
  <2>6. Authorities'
    BY <2>2, <2>3, <2>4, <2>5
  <2> QED BY <1>1, <1>3, <2>1, <2>6
<1> QED BY <1>2, <1>3 DEF ExecuteOrRefuse

\* A transaction of a run that is over changes nothing a run has gone past.
LEMMA LateKeeps ==
  ASSUME DeployInv, NEW x \in Transactions, LandLate(x)
  PROVE  DeployInv'
<1>1. /\ left[x] \in Nat \ {0} /\ left' = [left EXCEPT ![x] = left[x] - 1]
      /\ ExecuteOrRefuse(x)
      /\ UNCHANGED <<phase, at, mintBridge>>
  BY DEF LandLate, script, DeployInv, ScriptTypes
<1>2. /\ Authorities'
      /\ accounts \subseteq accounts' /\ accounts' \subseteq accounts \cup {x}
      /\ funded' = IF Executable(x) /\ x = "fund" THEN funded + 1 ELSE funded
  BY <1>1, ChainStep DEF DeployInv, ScriptTypes
<1>3. ScriptTypes'
  BY <1>1, <1>2 DEF DeployInv, ScriptTypes, Running
<1>4. "fund" \in Transactions /\ left["fund"] \in Nat /\ funded \in Nat
  BY OrderIs DEF DeployInv, ScriptTypes
<1>5. Funding' = Funding
  BY <1>1 DEF Funding, Running
<1>6. CASE x = "fund"
  <2>1. left'["fund"] = left["fund"] - 1 /\ left["fund"] > 0
    BY <1>1, <1>4, <1>6 DEF DeployInv, ScriptTypes
  <2>2. "bridge" \in accounts /\ "bridge" \in accounts'
    BY <1>2, <2>1 DEF DeployInv, FundsOnce
  <2>3. FundsOnce'
    BY <1>2, <1>4, <1>5, <2>1, <2>2 DEF DeployInv, FundsOnce
  <2>4. GonePast'
    BY <1>1, <1>2, <1>4, <2>1 DEF DeployInv, GonePast, FundsOnce, Running
  <2> QED BY <1>2, <1>3, <2>3, <2>4 DEF DeployInv
<1>7. CASE x # "fund"
  <2>1. left'["fund"] = left["fund"] /\ funded' = funded
    BY <1>1, <1>2, <1>4, <1>7 DEF DeployInv, ScriptTypes
  <2>2. FundsOnce'
    BY <1>2, <1>4, <1>5, <2>1 DEF DeployInv, FundsOnce
  <2>3. GonePast'
    BY <1>1, <1>2, <2>1 DEF DeployInv, GonePast, Running
  <2> QED BY <1>2, <1>3, <2>2, <2>3 DEF DeployInv
<1> QED BY <1>6, <1>7

\* A run goes on only when the transaction it waited for was executed, or its account was there.
LEMMA LandKeeps == ASSUME DeployInv, Land PROVE DeployInv'
<1>1. /\ phase = "await" /\ at \in 1..9 /\ UNCHANGED <<left, mintBridge>>
      /\ ExecuteOrRefuse(Order[at])
  BY DEF Land, Current, DeployInv, ScriptTypes, Running
<1>2. PICK x \in Transactions : x = Order[at]
  BY <1>1, OrderIs DEF Transactions, LastPlace
<1>3. /\ Authorities'
      /\ accounts \subseteq accounts' /\ accounts' \subseteq accounts \cup {x}
      /\ Executable(x) /\ x # "fund" => x \in accounts'
      /\ funded' = IF Executable(x) /\ x = "fund" THEN funded + 1 ELSE funded
      /\ Executable("bridge") => "bridge" \notin accounts
  BY <1>1, <1>2, ChainStep DEF DeployInv, ScriptTypes
<1>4. IF Executable(x) \/ (x = "escrow" /\ "escrow" \in accounts)
      THEN at' = at + 1 /\ phase' = IF at + 1 > 9 THEN "done" ELSE "look"
      ELSE phase' = "off" /\ at' = at
  BY <1>1, <1>2, OrderIs DEF Land, Tolerated, Current, GoOn, GiveUp
<1>5. ScriptTypes'
  BY <1>1, <1>3, <1>4 DEF DeployInv, ScriptTypes, Running
<1>6. "fund" \in Transactions /\ left["fund"] \in Nat /\ funded \in Nat
  BY OrderIs DEF DeployInv, ScriptTypes
<1>7. /\ at = 1 => x = "rndrMint"
      /\ at = 3 <=> x = "bridge"
      /\ at = 4 <=> x = "escrow"
      /\ at = 5 <=> x = "fund"
      /\ at = 6 => x = "rcMint"
      /\ at = 8 => x = "renderCredits"
      /\ at = 9 => x = "distributor"
  <2>1. at \in {1, 2, 3, 4, 5, 6, 7, 8, 9}
    BY <1>1
  <2> QED BY <1>2, <2>1, OrderIs
<1>8. Funding => "bridge" \in accounts /\ funded = 0 /\ left["fund"] = 0
  BY <1>6 DEF DeployInv, FundsOnce
<1>9. FundsOnce'
  <2>1. CASE phase' = "off"
    BY <1>1, <1>3, <1>4, <1>6, <1>7, <2>1 DEF DeployInv, FundsOnce, Funding, Running
  <2>2. CASE at = 3 /\ phase' # "off"
    <3>1. Executable("bridge") /\ "bridge" \notin accounts /\ "bridge" \in accounts'
      BY <1>3, <1>4, <1>7, <2>2
    <3> QED BY <1>1, <1>3, <1>6, <1>7, <2>2, <3>1 DEF DeployInv, FundsOnce, Funding, Running
  <2>3. CASE at = 4 /\ phase' # "off"
    BY <1>1, <1>3, <1>6, <1>7, <1>8, <2>3 DEF FundsOnce, Funding, Running
  <2>4. CASE at = 5 /\ phase' # "off"
    BY <1>1, <1>3, <1>4, <1>6, <1>7, <1>8, <2>4 DEF FundsOnce, Funding, Running
  <2>5. CASE at \notin {3, 4, 5} /\ phase' # "off"
    <3>1. ~Funding' /\ ~Funding /\ funded' = funded
      BY <1>1, <1>3, <1>4, <1>7, <2>5 DEF Funding
    <3> QED BY <1>1, <1>3, <1>6, <1>7, <2>5, <3>1 DEF DeployInv, FundsOnce
  <2> QED BY <2>1, <2>2, <2>3, <2>4, <2>5
<1>10. GonePast'
  <2>1. CASE phase' = "off"
    BY <2>1 DEF GonePast, Running
  <2>2. CASE phase' # "off" /\ at = 5
    <3>1. funded' = 1 /\ at' = 6
      BY <1>1, <1>3, <1>4, <1>7, <1>8, <2>2 DEF Funding, Running
    <3> QED BY <1>1, <1>3, <2>2, <3>1 DEF DeployInv, GonePast, Running
  <2>3. CASE phase' # "off" /\ at # 5
    <3>1. funded' = funded /\ at' = at + 1 /\ (x = "escrow" \/ x \in accounts')
      BY <1>3, <1>4, <1>7, <2>3
    <3> QED BY <1>1, <1>3, <1>7, <2>3, <3>1 DEF DeployInv, GonePast, Running
  <2> QED BY <2>1, <2>2, <2>3
<1> QED BY <1>3, <1>5, <1>9, <1>10 DEF DeployInv

\* A look leaves out what is there.
LEMMA LookKeeps == ASSUME DeployInv, Look PROVE DeployInv'
<1>1. /\ phase = "look" /\ at \in 1..9 /\ UNCHANGED <<accounts, held, funded, left, mintBridge>>
      /\ \/ phase' = "send" /\ at' = at
         \/ at = 3 /\ ~mintBridge /\ GoOn(6)
         \/ /\ Checked(Order[at]) /\ Order[at] \in accounts
            /\ GoOn(After(Order[at]))
  <2>1. Position("rcMint") = 6 /\ (\A i \in 1..9 : Order[i] = "bridge" => i = 3)
    BY OrderIs
  <2> QED BY <2>1 DEF Look, Current, chain, DeployInv, ScriptTypes, Running
<1>2. Checked(Order[at]) => at \notin {3, 5}
  BY OrderIs DEF Checked
<1>3. After(Order[at]) = IF at = 1 THEN 3 ELSE IF at = 6 THEN 8 ELSE at + 1
  <2>1. Position("bridge") = 3 /\ Position("renderCredits") = 8
        /\ Position(Order[at]) = at
    BY <1>1, OrderIs
  <2>2. (Order[at] = "rndrMint" <=> at = 1) /\ (Order[at] = "rcMint" <=> at = 6)
    <3>1. at \in {1, 2, 3, 4, 5, 6, 7, 8, 9}
      BY <1>1
    <3> QED BY <3>1, OrderIs
  <2> QED BY <2>1, <2>2 DEF After
<1>4. CASE phase' = "send" /\ at' = at
  BY <1>1, <1>4 DEF DeployInv, ScriptTypes, FundsOnce, Authorities, Handed, GonePast, Funding, Running
<1>5. CASE at = 3 /\ ~mintBridge /\ GoOn(6)
  <2>1. at' = 6 /\ phase' = "look"
    BY <1>5, OrderIs DEF GoOn
  <2> QED BY <1>1, <1>5, <2>1
          DEF DeployInv, ScriptTypes, FundsOnce, Authorities, Handed, GonePast, Funding, Running
<1>6. CASE /\ Checked(Order[at]) /\ Order[at] \in accounts
           /\ GoOn(After(Order[at]))
  <2>1. /\ at \notin {3, 5}
        /\ at' = IF at = 1 THEN 3 ELSE IF at = 6 THEN 8 ELSE at + 1
        /\ phase' = IF at' > 9 THEN "done" ELSE "look"
    BY <1>2, <1>3, <1>6, OrderIs DEF GoOn
  <2>2. /\ at = 1 => "rndrMint" \in accounts
        /\ at = 6 => "rcMint" \in accounts
        /\ at = 8 => "renderCredits" \in accounts
        /\ at = 9 => "distributor" \in accounts
    BY <1>6, OrderIs
  <2>3. ScriptTypes' /\ Authorities'
    BY <1>1, <2>1 DEF DeployInv, ScriptTypes, Authorities, Handed, Running
  <2>4. Funding' = Funding
    BY <1>1, <2>1 DEF Funding, Running
  <2>5. FundsOnce'
    BY <1>1, <2>4 DEF DeployInv, FundsOnce
  <2>6. GonePast'
    BY <1>1, <2>1, <2>2 DEF DeployInv, GonePast, Running
  <2> QED BY <2>3, <2>5, <2>6 DEF DeployInv
<1> QED BY <1>1, <1>4, <1>5, <1>6

\* A run that ends takes what it sent with it, or leaves it to land late.
LEMMA EndKeeps == ASSUME DeployInv, Interrupted \/ Lose PROVE DeployInv'
<1>1. /\ phase' = "off" /\ UNCHANGED <<accounts, held, funded, mintBridge>>
      /\ \/ left' = left
         \/ phase = "await" /\ at \in 1..9
            /\ left' = [left EXCEPT ![Order[at]] = left[Order[at]] + 1]
  BY DEF Interrupted, Lose, GiveUp, Fault, Current, chain,
         DeployInv, ScriptTypes, Running
<1>2. "fund" \in Transactions /\ left["fund"] \in Nat /\ funded \in Nat
  BY OrderIs DEF DeployInv, ScriptTypes
<1>3. /\ left' \in [Transactions -> Nat]
      /\ left'["fund"] = left["fund"] \/ (Funding /\ left'["fund"] = left["fund"] + 1)
  <2>1. CASE left' = left
    BY <2>1 DEF DeployInv, ScriptTypes
  <2>2. CASE /\ phase = "await" /\ at \in 1..9
             /\ left' = [left EXCEPT ![Order[at]] = left[Order[at]] + 1]
    <3>1. Order[at] \in Transactions /\ (Order[at] = "fund" => at = 5)
      <4>1. at \in {1, 2, 3, 4, 5, 6, 7, 8, 9}
        BY <2>2
      <4> QED BY <4>1, OrderIs
    <3> QED BY <1>2, <2>2, <3>1 DEF DeployInv, ScriptTypes, Funding, Running
  <2> QED BY <1>1, <2>1, <2>2
<1> QED BY <1>1, <1>2, <1>3
        DEF DeployInv, ScriptTypes, FundsOnce, Authorities, Handed, GonePast, Funding, Running

LEMMA DeploymentKeeps == ASSUME DeployInv, [DeploymentNext]_deployment PROVE DeployInv'
<1>1. CASE UNCHANGED deployment
  BY <1>1 DEF deployment, chain, script, DeployInv, ScriptTypes, FundsOnce, Authorities,
     Handed, GonePast, Funding, Running
<1>2. ASSUME Start(FALSE) \/ StartBridge PROVE DeployInv'
  <2>1. /\ phase = "off" /\ phase' = "upload" /\ mintBridge' \in BOOLEAN
        /\ UNCHANGED <<accounts, held, funded, left>>
    BY <1>2 DEF Start, StartBridge, chain
  <2>2. ScriptTypes' /\ Authorities' /\ GonePast'
    BY <2>1 DEF DeployInv, ScriptTypes, Authorities, Handed, GonePast, Running
  <2>3. ~Funding /\ ~Funding'
    BY <2>1 DEF Funding, Running
  <2>4. FundsOnce'
    BY <2>1, <2>3 DEF DeployInv, FundsOnce
  <2> QED BY <2>2, <2>4 DEF DeployInv
<1>3. ASSUME Upload PROVE DeployInv'
  <2>1. /\ \/ phase' = "look" /\ at' = 1
           \/ phase' = "upload" /\ at' = at
        /\ phase = "upload"
        /\ UNCHANGED <<accounts, held, funded, left, mintBridge>>
    BY <1>3, OrderIs DEF Upload, GoOn
  <2> QED BY <2>1 DEF DeployInv, ScriptTypes, FundsOnce, Authorities, Handed, GonePast, Funding,
          Running
<1>4. ASSUME Send PROVE DeployInv'
  BY <1>4 DEF Send, chain, DeployInv, ScriptTypes, FundsOnce, Authorities, Handed,
     GonePast, Funding, Running
<1>5. ASSUME NEW x \in Transactions, LoseLate(x) PROVE DeployInv'
  <2>1. /\ left[x] > 0 /\ left' = [left EXCEPT ![x] = left[x] - 1]
        /\ UNCHANGED <<accounts, held, funded, phase, at, mintBridge>>
    BY <1>5 DEF LoseLate, chain, script
  <2>2. "fund" \in Transactions /\ left["fund"] \in Nat /\ funded \in Nat /\ left[x] \in Nat
        /\ left \in [Transactions -> Nat]
    BY OrderIs DEF DeployInv, ScriptTypes
  <2>3. left' \in [Transactions -> Nat] /\ left'["fund"] <= left["fund"]
        /\ left'["fund"] \in Nat
    BY <2>1, <2>2
  <2> QED BY <2>1, <2>2, <2>3 DEF DeployInv, ScriptTypes, FundsOnce, Authorities, Handed, GonePast,
          Funding, Running
<1> QED BY <1>1, <1>2, <1>3, <1>4, <1>5, LateKeeps, LandKeeps, LookKeeps, EndKeeps
        DEF DeploymentNext, Script

LEMMA DeploymentHolds == AdminSpec => []DeployInv
<1>1. AdminInit => DeployInv
  <2> SUFFICES ASSUME AdminInit PROVE DeployInv
    OBVIOUS
  <2>1. /\ accounts = {} /\ held = {} /\ funded = 0 /\ left = [x \in Transactions |-> 0]
        /\ phase = "off" /\ at = 1 /\ mintBridge = FALSE
    BY DEF AdminInit, DeploymentInit
  <2>2. left["fund"] = 0
    BY <2>1, OrderIs
  <2>3. ScriptTypes /\ Authorities /\ GonePast
    BY <2>1 DEF ScriptTypes, Authorities, Handed, GonePast, Running
  <2>4. FundsOnce
    BY <2>1, <2>2 DEF FundsOnce, Funding, Running
  <2> QED BY <2>3, <2>4 DEF DeployInv
<1>2. [Deploy \/ Administer]_(<<deployment, helper>>)
        => [DeploymentNext]_deployment
  BY DEF Deploy, Administer
<1> QED BY <1>1, <1>2, DeploymentKeeps, PTL DEF AdminSpec

\* However often the script is run, with mintBridge or without, wherever it is interrupted and
\* whatever lands late: the bridge's escrow gets its supply once at most (deploy.ts).
THEOREM EscrowIsFundedOnce == AdminSpec => []FundedOnce
<1>1. DeployInv => FundedOnce
  <2> SUFFICES ASSUME DeployInv PROVE funded <= 1
    BY DEF FundedOnce
  <2>1. "fund" \in Transactions /\ left["fund"] \in Nat /\ funded \in Nat
    BY OrderIs DEF DeployInv, ScriptTypes
  <2> QED BY <2>1 DEF DeployInv, FundsOnce
<1> QED BY <1>1, DeploymentHolds, PTL

\* A run of the script that comes to its end, after whatever others, leaves mints and programs in
\* place, each mint with its program, and with mintBridge a bridge that is funded (deploy.ts).
THEOREM EndMeansDeployed == AdminSpec => []DoneIsDeployed
<1>1. DeployInv => DoneIsDeployed
  BY DEF DeployInv, ScriptTypes, FundsOnce, Authorities, Handed, GonePast, Running,
     DoneIsDeployed
<1> QED BY <1>1, DeploymentHolds, PTL

-----------------------------------------------------------------------------
(* sendInstructionsOrCreateProposal and sendInstructionsOrSquads: the instructions of a call *)

\* What a call executes that returns; what a multisig's transaction holds.
Reach == Helper!All \ Helper!PassedOver
Addable == Helper!All \ Helper!SignedBy({"budget"})

AtGovernance == {"insert", "signOff", "vote", "execute", "relinquish", "withdraw"}
OfSquads == {"create", "add", "activate", "approve", "run"}

CallTypes ==
  /\ instructions \in Seq(Helper!Signers)
  /\ gov \in Nat \ {0} /\ idx \in Nat \ {0}
  /\ done \subseteq Reach /\ added \in Seq(Addable)
  /\ pc \in AtGovernance => gov \in DOMAIN Helper!Missing
  /\ pc \in {"start", "create"} => gov = 1 /\ idx = 1 /\ added = <<>>

\* Each function has its own steps, and its own part of the chain.
RouteInv ==
  /\ route \in {"governance", "squads", "direct"}
  /\ pc \in AtGovernance \cup {"propose"} => route = "governance"
  /\ pc \in OfSquads \/ status # "none" => route = "squads" /\ Helper!Missing # <<>>
  /\ pc = "own" /\ route = "squads" => Helper!Missing = <<>>
  /\ \A g \in DOMAIN Helper!Missing : route # "governance" => state[g] = "none"

\* A call that executes has executed what it has behind it.
BehindIsDone ==
  execute =>
    /\ pc \in AtGovernance \cup {"propose"} =>
         \A g \in DOMAIN Helper!Missing : g < gov => Helper!Members(g) \subseteq done
    /\ pc = "execute" =>
         \A j \in DOMAIN Helper!Relevant(gov) : j < idx => Helper!Relevant(gov)[j] \in done
    /\ pc \in {"relinquish", "withdraw"} => Helper!Members(gov) \subseteq done
    /\ pc = "own" /\ route = "governance" => \A g \in DOMAIN Helper!Missing : Helper!Members(g) \subseteq done
    /\ pc = "returned" => Reach \subseteq done

\* Between two governances the tokens that were found in the wallet are in it.
TokensAreBack ==
  /\ pc \in OfSquads \cup {"start"} => ~tokens
  /\ execute /\ pc \in {"propose", "own", "returned"} => (tokens => ~deposited)

\* The multisig's transaction has what was added so far, some of it twice, in its order.
AddedInOrder ==
  /\ pc = "add" => /\ status = "draft"
                   /\ \A i \in Addable : i < idx => i \in Helper!ToSet(added)
                   /\ \A k \in DOMAIN added : added[k] <= idx
  /\ pc = "activate" \/ status \notin {"none", "draft"} =>
       Addable \subseteq Helper!ToSet(added)
  /\ \A i, j \in DOMAIN added : i < j => added[i] <= added[j]

CallInv == CallTypes /\ BehindIsDone /\ TokensAreBack /\ AddedInOrder

\* The instructions of a call are what they are.
LEMMA CallStays ==
  ASSUME UNCHANGED <<instructions, route>>
  PROVE  /\ Helper!All' = Helper!All /\ Reach' = Reach /\ Addable' = Addable
         /\ Helper!Missing' = Helper!Missing
         /\ \A g : Helper!Members(g)' = Helper!Members(g)
         /\ \A g : Helper!Relevant(g)' = Helper!Relevant(g)
<1>1. Helper!All' = Helper!All
  BY DEF Helper!All
<1>2. \A kinds : Helper!SignedBy(kinds)' = Helper!SignedBy(kinds)
  BY <1>1 DEF Helper!SignedBy
<1>3. /\ \A kinds : Helper!SignedBy(kinds) = {i \in Helper!All : instructions[i].kind \in kinds}
      /\ Helper!All' = Helper!All /\ instructions' = instructions /\ route' = route
  BY <1>1 DEF Helper!SignedBy
<1>4. Helper!Wanting' = Helper!Wanting
  BY <1>3 DEF Helper!Wanting, Helper!SignedBy
<1>5. Helper!Met' = Helper!Met
  BY <1>3, <1>4 DEF Helper!Met
<1>6. Helper!Missing' = Helper!Missing
  BY <1>3, <1>5 DEF Helper!Missing
<1>7. \A g : Helper!Members(g)' = Helper!Members(g)
  BY <1>3, <1>6 DEF Helper!Members, Helper!SignedBy
<1>8. \A g : Helper!Relevant(g)' = Helper!Relevant(g)
  BY <1>3, <1>6 DEF Helper!Relevant, Helper!Members, Helper!SignedBy
<1>9. Helper!PassedOver' = Helper!PassedOver
  BY <1>3, <1>6 DEF Helper!PassedOver, Helper!SignedBy
<1>10. Addable' = Addable
  BY <1>3 DEF Addable, Helper!SignedBy
<1> QED BY <1>1, <1>6, <1>7, <1>8, <1>9, <1>10 DEF Reach

LEMMA SameSorted == \A A : Helper!Sorted(A) = Sorted(A)
<1>1. \A A : Helper!Cardinality(A) = Cardinality(A)
  BY DEF Helper!Cardinality, Cardinality
<1>2. \A A, a : Helper!Rank(A, a) = Rank(A, a)
  BY <1>1 DEF Helper!Rank, Rank
<1> QED BY <1>1, <1>2 DEF Helper!Sorted, Sorted

LEMMA AllIs ==
  ASSUME instructions \in Seq(Helper!Signers)
  PROVE  /\ Len(instructions) \in Nat
         /\ \A i \in Helper!All : instructions[i] \in Helper!Signers
         /\ Helper!All = 1..Len(instructions)
         /\ IsFiniteSet(Helper!All) /\ Helper!All \subseteq Nat \ {0}
<1>1. Len(instructions) \in Nat /\ Helper!All = 1..Len(instructions)
  BY LenProperties DEF Helper!All
<1>2. IsFiniteSet(1..Len(instructions))
  BY <1>1, FS_Interval
<1>3. \A i \in Helper!All : instructions[i] \in Helper!Signers
  BY <1>1, ElementOfSeq
<1> QED BY <1>1, <1>2, <1>3

\* A governance's instructions are those that want its signature, all of them.
LEMMA RelevantAreMembers ==
  ASSUME instructions \in Seq(Helper!Signers), NEW g
  PROVE  /\ Helper!Members(g) \subseteq Helper!All
         /\ Len(Helper!Relevant(g)) \in Nat
         /\ DOMAIN Helper!Relevant(g) = 1..Len(Helper!Relevant(g))
         /\ \A j \in DOMAIN Helper!Relevant(g) : Helper!Relevant(g)[j] \in Helper!Members(g)
         /\ \A i \in Helper!Members(g) :
              \E j \in DOMAIN Helper!Relevant(g) : Helper!Relevant(g)[j] = i
<1>1. PICK A : A = Helper!Members(g) /\ A \subseteq Helper!All
  BY DEF Helper!Members, Helper!SignedBy
<1>2. A \subseteq Int /\ IsFiniteSet(A)
  BY <1>1, AllIs, FS_Subset
<1>3. Helper!Relevant(g) = Sorted(A)
  BY <1>1, SameSorted DEF Helper!Relevant
<1>4. /\ Cardinality(A) \in Nat /\ Len(Sorted(A)) = Cardinality(A)
      /\ DOMAIN Sorted(A) = 1..Cardinality(A)
      /\ \A k \in 1..Cardinality(A) : Sorted(A)[k] \in A
      /\ \A a \in A : Rank(A, a) \in 1..Cardinality(A) /\ Sorted(A)[Rank(A, a)] = a
  BY <1>2, SortedByRank
<1> QED BY <1>1, <1>3, <1>4

\* Whose signature is missing is met, once.
LEMMA MissingIsMet ==
  ASSUME instructions \in Seq(Helper!Signers)
  PROVE  /\ Len(Helper!Missing) \in Nat
         /\ DOMAIN Helper!Missing = 1..Len(Helper!Missing)
         /\ Len(Helper!Missing) = 0 => Helper!Missing = <<>>
         /\ \A i \in Helper!Wanting :
              \E g \in DOMAIN Helper!Missing : Helper!Missing[g] = instructions[i]
         /\ \A g \in DOMAIN Helper!Missing :
              \E i \in Helper!Wanting : Helper!Missing[g] = instructions[i]
<1>0. Helper!Wanting \subseteq Helper!All
  BY DEF Helper!Wanting, Helper!SignedBy
<1>1. PICK A : A = Helper!Met /\ A \subseteq Helper!Wanting
  BY DEF Helper!Met
<1>2. A \subseteq Int /\ IsFiniteSet(A)
  BY <1>0, <1>1, AllIs, FS_Subset
<1>3. /\ Cardinality(A) \in Nat
      /\ DOMAIN Sorted(A) = 1..Cardinality(A)
      /\ \A n \in 1..Cardinality(A) : Sorted(A)[n] \in A
      /\ \A a \in A : Rank(A, a) \in 1..Cardinality(A) /\ Sorted(A)[Rank(A, a)] = a
  BY <1>2, SortedByRank
<1>4. Helper!Missing = [n \in 1..Cardinality(A) |-> instructions[Sorted(A)[n]]]
  BY <1>1, <1>3, SameSorted DEF Helper!Missing
<1>5. Len(Helper!Missing) = Cardinality(A) /\ DOMAIN Helper!Missing = 1..Cardinality(A)
  BY <1>3, <1>4
<1>6. ASSUME NEW i \in Helper!Wanting
      PROVE  \E g \in DOMAIN Helper!Missing : Helper!Missing[g] = instructions[i]
  <2> DEFINE Same == {j \in Helper!Wanting : instructions[j] = instructions[i]}
  <2>1. Same \subseteq Nat /\ Same # {}
    BY <1>0, AllIs
  <2>2. PICK j \in Same : \A k \in Same : j <= k
    <3> HIDE DEF Same
    <3> QED BY <2>1, MinIsLeast
  <2>3. \A k \in 1 .. j - 1 : instructions[k] # instructions[j]
    <3> SUFFICES ASSUME NEW k \in 1 .. j - 1, instructions[k] = instructions[j] PROVE FALSE
      OBVIOUS
    <3>1. j \in Nat /\ k \in Nat /\ k < j /\ k \in Helper!All
      BY <1>0, AllIs, <2>2
    <3>2. k \in Helper!Wanting
      BY <2>2, <3>1 DEF Helper!Wanting, Helper!SignedBy
    <3>3. k \in Same
      BY <2>2, <3>2
    <3> QED BY <2>2, <3>1, <3>3
  <2>4. j \in A
    BY <1>1, <2>2, <2>3 DEF Helper!Met
  <2>5. PICK g \in 1..Cardinality(A) : Sorted(A)[g] = j
    BY <1>3, <2>4
  <2>6. Helper!Missing[g] = instructions[i]
    BY <1>4, <2>2, <2>5
  <2> QED BY <1>5, <2>5, <2>6
<1>7. \A g \in DOMAIN Helper!Missing :
        \E i \in Helper!Wanting : Helper!Missing[g] = instructions[i]
  BY <1>1, <1>3, <1>4, <1>5
<1>8. Len(Helper!Missing) = 0 => Helper!Missing = <<>>
  BY <1>4, <1>5
<1> QED BY <1>3, <1>5, <1>6, <1>7, <1>8

\* An instruction is of a governance that was met, is the wallet's, or is passed over.
LEMMA GovernanceReaches ==
  ASSUME instructions \in Seq(Helper!Signers), route = "governance"
  PROVE  /\ Helper!Own \subseteq Reach
         /\ \A g \in DOMAIN Helper!Missing : Helper!Members(g) \subseteq Reach
         /\ \A i \in Reach : i \in Helper!Own
                            \/ \E g \in DOMAIN Helper!Missing : i \in Helper!Members(g)
<1>1. PICK K : K = [i \in Helper!All |-> instructions[i].kind]
  OBVIOUS
<1>2. PICK X : X = [i \in Helper!All |-> instructions[i].key]
  OBVIOUS
<1>3. \A i \in Helper!All :
        K[i] \in {"wallet", "keypair", "budget", "governance", "treasury", "other"}
  BY <1>1, AllIs DEF Helper!Signers
<1>4. \A i : i \in Reach <=> /\ i \in Helper!All
                             /\ K[i] \notin {"keypair", "other"}
                             /\ K[i] = "treasury" =>
                                  \E j \in Helper!All : K[j] = "governance" /\ X[j] = X[i]
  BY <1>1, <1>2 DEF Reach, Helper!PassedOver, Helper!SignedBy
<1>5. \A i : i \in Helper!Own <=> i \in Helper!All /\ K[i] \in {"wallet", "budget"}
  BY <1>1 DEF Helper!Own, Helper!SignedBy
<1>6. \A i : i \in Helper!Wanting <=> i \in Helper!All /\ K[i] = "governance"
  BY <1>1 DEF Helper!Wanting, Helper!SignedBy
<1>7. \A g, i : i \in Helper!Members(g) <=> /\ i \in Helper!All
                                            /\ K[i] \in {"governance", "treasury"}
                                            /\ X[i] = Helper!Missing[g].key
  BY <1>1, <1>2 DEF Helper!Members, Helper!SignedBy
<1>8. \A g \in DOMAIN Helper!Missing :
        \E j \in Helper!All : K[j] = "governance" /\ Helper!Missing[g].key = X[j]
  BY <1>2, <1>6, MissingIsMet
<1>9. \A j \in Helper!All : K[j] = "governance" =>
        \E g \in DOMAIN Helper!Missing : Helper!Missing[g].key = X[j]
  BY <1>2, <1>6, MissingIsMet
<1> QED BY <1>3, <1>4, <1>5, <1>7, <1>8, <1>9

\* Without a proposal or a multisig's transaction what is sent is all but what is passed over.
LEMMA OwnReaches ==
  ASSUME instructions \in Seq(Helper!Signers),
         route = "direct" \/ (route = "squads" /\ Helper!Missing = <<>>)
  PROVE  Helper!Own = Reach
<1>1. CASE route = "direct"
  BY <1>1 DEF Helper!Own, Reach, Helper!PassedOver
<1>2. CASE route = "squads" /\ Helper!Missing = <<>>
  <2>1. \A i \in Helper!All : i \notin Helper!SignedBy({"governance", "treasury", "other"})
    <3>1. Helper!Wanting = Helper!SignedBy({"governance", "treasury", "other"})
      BY <1>2 DEF Helper!Wanting
    <3>2. DOMAIN Helper!Missing = {}
      BY <1>2
    <3> QED BY <3>1, <3>2, MissingIsMet
  <2>2. Helper!PassedOver = Helper!SignedBy({"keypair"})
    BY <1>2 DEF Helper!PassedOver
  <2>3. \A i \in Helper!All :
          instructions[i].kind \in {"wallet", "keypair", "budget", "governance", "treasury", "other"}
    BY AllIs DEF Helper!Signers
  <2> QED BY <1>2, <2>1, <2>2, <2>3 DEF Helper!Own, Reach, Helper!SignedBy
<1> QED BY <1>1, <1>2

\* What a multisig is asked for is all but what is passed over.
LEMMA AddableReaches ==
  ASSUME route = "squads", Helper!Missing # <<>>
  PROVE  Addable = Reach
BY DEF Addable, Reach, Helper!PassedOver

\* A call stays with its function.
LEMMA RouteKeeps == ASSUME CallTypes, RouteInv, Helper!Next PROVE RouteInv'
<1>1. /\ UNCHANGED <<instructions, route>> /\ Helper!Missing' = Helper!Missing
      /\ DOMAIN Helper!Missing = 1..Len(Helper!Missing)
      /\ Len(Helper!Missing) \in Nat
      /\ Len(Helper!Missing) = 0 => Helper!Missing = <<>>
      /\ Helper!Missing = <<>> => Len(Helper!Missing) = 0
  <2>1. UNCHANGED <<instructions, route>>
    BY DEF Helper!Next, Helper!Start, Helper!Propose, Helper!Insert, Helper!InsertLate,
       Helper!SignOff, Helper!CastVote, Helper!Execute, Helper!Relinquish, Helper!Withdraw,
       Helper!SendOwn, Helper!Others, Helper!CreateTransaction, Helper!AddInstruction,
       Helper!ActivateTransaction, Helper!ApproveTransaction, Helper!ExecuteTransaction,
       Helper!call
  <2> QED BY <2>1, CallStays, MissingIsMet DEF CallTypes
<1>2. ASSUME Helper!Start PROVE RouteInv'
  BY <1>1, <1>2 DEF Helper!Start, Helper!Goto, Helper!Throw, Helper!chain, Helper!proposals,
     RouteInv, AtGovernance, OfSquads
<1>3. ASSUME \/ Helper!CreateTransaction \/ Helper!AddInstruction \/ Helper!ActivateTransaction
             \/ Helper!ApproveTransaction \/ Helper!ExecuteTransaction
      PROVE  RouteInv'
  <2>1. /\ pc \in OfSquads /\ pc' \in OfSquads \cup {"returned", "failed"}
        /\ UNCHANGED state
    BY <1>3 DEF Helper!CreateTransaction, Helper!AddInstruction, Helper!ActivateTransaction,
       Helper!ApproveTransaction, Helper!ExecuteTransaction, Helper!Sent, Helper!Retry,
       Helper!At, Helper!Goto, Helper!Throw, Helper!chain, Helper!proposals, OfSquads
  <2> QED BY <1>1, <2>1 DEF RouteInv, AtGovernance, OfSquads
<1>4. ASSUME \/ Helper!Propose \/ Helper!Insert \/ Helper!SignOff \/ Helper!CastVote
             \/ Helper!Execute \/ Helper!Relinquish \/ Helper!Withdraw
      PROVE  RouteInv'
  <2>1. /\ pc \in AtGovernance \cup {"propose"}
        /\ pc' \in AtGovernance \cup {"propose", "own", "failed"}
        /\ UNCHANGED status
    BY <1>4 DEF Helper!Propose, Helper!Insert, Helper!SignOff, Helper!CastVote, Helper!Execute,
       Helper!Relinquish, Helper!Withdraw, Helper!NextGovernance, Helper!InsertedAt,
       Helper!Executed, Helper!Unreadable, Helper!Sent, Helper!At, Helper!Goto, Helper!Throw,
       Helper!chain, Helper!proposals, AtGovernance
  <2> QED BY <1>1, <2>1 DEF RouteInv, AtGovernance, OfSquads
<1>5. ASSUME Helper!SendOwn PROVE RouteInv'
  <2>1. pc' \in {"returned", "failed"} /\ UNCHANGED <<state, status>>
    BY <1>5 DEF Helper!SendOwn, Helper!Executed, Helper!Sent, Helper!Goto, Helper!Throw,
       Helper!chain, Helper!proposals
  <2> QED BY <1>1, <2>1 DEF RouteInv, AtGovernance, OfSquads
<1>6. ASSUME Helper!InsertLate \/ Helper!Others PROVE RouteInv'
  <2>1. /\ pc' = pc /\ (status' = status \/ status = "active")
        /\ \/ UNCHANGED state
           \/ \E g \in DOMAIN Helper!Missing : state[g] = "voting"
    BY <1>6 DEF Helper!InsertLate, Helper!Others, Helper!InsertedAt, Helper!Executed,
       Helper!chain, Helper!proposals, Helper!script
  <2> QED BY <1>1, <2>1 DEF RouteInv, AtGovernance, OfSquads
<1> QED BY <1>2, <1>3, <1>4, <1>5, <1>6 DEF Helper!Next

\* What a step towards a governance leaves alone: everything of the multisig.
LEMMA MultisigKeeps ==
  ASSUME CallInv, UNCHANGED <<instructions, route, status, added>>,
         pc' \notin {"start", "create", "add", "activate"}
  PROVE  AddedInOrder' /\ added' \in Seq(Addable')
BY CallStays DEF CallInv, AddedInOrder, CallTypes

\* sendInstructionsOrCreateProposal: a governance after another.
LEMMA ProposeKeeps == ASSUME CallInv, RouteInv, Helper!Propose PROVE CallInv'
<1>1. /\ pc = "propose" /\ UNCHANGED <<instructions, route, execute, status, added, done, gov, idx>>
      /\ \/ ~ (gov \in DOMAIN Helper!Missing) /\ pc' = "own" /\ UNCHANGED <<tokens, deposited>>
         \/ gov \in DOMAIN Helper!Missing /\ pc' \in {"insert", "failed"}
  BY MissingIsMet DEF Helper!Propose, Helper!Sent, Helper!Goto, Helper!Throw,
     Helper!chain, Helper!proposals, Helper!call, CallInv, CallTypes
<1>2. AddedInOrder' /\ added' \in Seq(Addable')
  BY <1>1, MultisigKeeps
<1>3. CallTypes'
  BY <1>1, <1>2, CallStays DEF CallInv, CallTypes, AtGovernance
<1>4. TokensAreBack'
  BY <1>1 DEF CallInv, TokensAreBack, OfSquads
<1>5. pc' = "own" => \A g \in DOMAIN Helper!Missing : g < gov
  BY <1>1, MissingIsMet DEF CallInv, CallTypes
<1>6. BehindIsDone'
  BY <1>1, <1>5, CallStays DEF CallInv, BehindIsDone, AtGovernance
<1> QED BY <1>2, <1>3, <1>4, <1>6 DEF CallInv

LEMMA InsertKeeps == ASSUME CallInv, RouteInv, Helper!Insert PROVE CallInv'
<1>1. /\ pc = "insert" /\ UNCHANGED <<instructions, route, execute, status, added, done, gov, tokens, deposited>>
      /\ pc' \in {"insert", "signOff", "failed"} /\ idx' \in Nat \ {0}
  BY DEF Helper!Insert, Helper!InsertedAt, Helper!Sent, Helper!Goto,
     Helper!At, Helper!Throw, Helper!chain, Helper!proposals,
     Helper!call, CallInv, CallTypes
<1>2. AddedInOrder' /\ added' \in Seq(Addable')
  BY <1>1, MultisigKeeps
<1>3. CallTypes'
  BY <1>1, <1>2, CallStays DEF CallInv, CallTypes, AtGovernance
<1>4. TokensAreBack' /\ BehindIsDone'
  BY <1>1, CallStays DEF CallInv, TokensAreBack, BehindIsDone, AtGovernance, OfSquads
<1> QED BY <1>2, <1>3, <1>4 DEF CallInv

LEMMA SignOffKeeps == ASSUME CallInv, RouteInv, Helper!SignOff PROVE CallInv'
<1>1. /\ pc = "signOff" /\ UNCHANGED <<instructions, route, execute, status, added, done, tokens, deposited>>
      /\ gov' \in Nat \ {0} /\ idx' \in Nat \ {0}
      /\ pc' \in {"vote", "propose", "failed"}
      /\ pc' = "vote" => gov' = gov
      /\ pc' = "propose" => ~execute
  BY DEF Helper!SignOff, Helper!Sent, Helper!Goto, Helper!NextGovernance,
     Helper!Throw, Helper!chain, Helper!proposals, Helper!call,
     CallInv, CallTypes
<1>2. AddedInOrder' /\ added' \in Seq(Addable')
  BY <1>1, MultisigKeeps
<1>3. CallTypes'
  BY <1>1, <1>2, CallStays DEF CallInv, CallTypes, AtGovernance
<1>4. TokensAreBack' /\ BehindIsDone'
  BY <1>1, CallStays DEF CallInv, TokensAreBack, BehindIsDone, AtGovernance, OfSquads
<1> QED BY <1>2, <1>3, <1>4 DEF CallInv

LEMMA CastVoteKeeps == ASSUME CallInv, RouteInv, Helper!CastVote PROVE CallInv'
<1>1. /\ pc = "vote" /\ UNCHANGED <<instructions, route, execute, status, added, done, gov, tokens, deposited>>
      /\ pc' \in {"execute", "failed"} /\ idx' \in Nat \ {0}
      /\ pc' = "execute" => idx' = 1
  BY DEF Helper!CastVote, Helper!Sent, Helper!At, Helper!Goto,
     Helper!Throw, Helper!chain, Helper!proposals, Helper!call,
     CallInv, CallTypes
<1>2. AddedInOrder' /\ added' \in Seq(Addable')
  BY <1>1, MultisigKeeps
<1>3. CallTypes'
  BY <1>1, <1>2, CallStays DEF CallInv, CallTypes, AtGovernance
<1>4. TokensAreBack'
  BY <1>1 DEF CallInv, TokensAreBack, OfSquads
<1>5. \A j \in DOMAIN Helper!Relevant(gov) : ~ (j < 1)
  BY RelevantAreMembers DEF CallInv, CallTypes
<1>6. BehindIsDone'
  BY <1>1, <1>5, CallStays DEF CallInv, BehindIsDone, AtGovernance
<1> QED BY <1>2, <1>3, <1>4, <1>6 DEF CallInv

\* The proposal's instructions are executed in their order, and none is passed over.
LEMMA ExecuteKeeps == ASSUME CallInv, RouteInv, Helper!Execute PROVE CallInv'
<1> DEFINE R == Helper!Relevant(gov)
<1>1. /\ pc = "execute" /\ UNCHANGED <<instructions, route, execute, status, added, gov, tokens, deposited>>
      /\ idx \in Nat \ {0} /\ idx' \in Nat \ {0}
      /\ \/ idx > Len(R) /\ pc' = "relinquish" /\ UNCHANGED <<done, idx>>
         \/ ~ (idx > Len(R)) /\ pc' \in {"execute", "failed"} /\ idx' = idx + 1 /\ done' = done \cup {R[idx]}
         \/ pc' = "failed" /\ (UNCHANGED done \/ (~ (idx > Len(R)) /\ done' = done \cup {R[idx]}))
  BY DEF Helper!Execute, Helper!Unreadable, Helper!Executed, Helper!Sent,
     Helper!At, Helper!Goto, Helper!Throw, Helper!chain,
     Helper!proposals, Helper!call, CallInv, CallTypes
<1>2. /\ Len(R) \in Nat /\ DOMAIN R = 1..Len(R)
      /\ \A j \in DOMAIN R : R[j] \in Helper!Members(gov)
      /\ \A i \in Helper!Members(gov) : \E j \in DOMAIN R : R[j] = i
  BY RelevantAreMembers DEF CallInv, CallTypes
<1>3. R' = R
  BY <1>1, CallStays
<1> HIDE DEF R
<1>4. AddedInOrder' /\ added' \in Seq(Addable')
  BY <1>1, MultisigKeeps
<1>5. done \subseteq done' /\ done' \subseteq Reach
  <2>1. Helper!Members(gov) \subseteq Reach
    BY <1>1, GovernanceReaches DEF CallInv, CallTypes, RouteInv, AtGovernance
  <2> QED BY <1>1, <1>2, <2>1 DEF CallInv, CallTypes
<1>6. CallTypes'
  BY <1>1, <1>4, <1>5, CallStays DEF CallInv, CallTypes, AtGovernance
<1>7. TokensAreBack'
  BY <1>1 DEF CallInv, TokensAreBack, OfSquads
<1>8. execute => \A g \in DOMAIN Helper!Missing : g < gov => Helper!Members(g) \subseteq done
  BY <1>1 DEF CallInv, BehindIsDone, AtGovernance
<1>9. execute => \A j \in DOMAIN R : j < idx => R[j] \in done
  BY <1>1 DEF CallInv, BehindIsDone, R
<1>10. execute /\ pc' = "relinquish" => Helper!Members(gov) \subseteq done
  <2> SUFFICES ASSUME execute, pc' = "relinquish", NEW i \in Helper!Members(gov) PROVE i \in done
    OBVIOUS
  <2>1. PICK j \in DOMAIN R : R[j] = i
    BY <1>2
  <2>2. j < idx
    BY <1>1, <1>2
  <2> QED BY <1>9, <2>1, <2>2
<1>11. execute /\ pc' = "execute" => \A j \in DOMAIN R : j < idx' => R[j] \in done'
  <2> SUFFICES ASSUME execute, pc' = "execute", NEW j \in DOMAIN R, j < idx' PROVE R[j] \in done'
    OBVIOUS
  <2>1. idx' = idx + 1 /\ done' = done \cup {R[idx]}
    BY <1>1
  <2>2. j < idx \/ j = idx
    BY <1>1, <1>2, <2>1
  <2> QED BY <1>5, <1>9, <2>1, <2>2
<1>12. gov' = gov /\ execute' = execute /\ pc' \in {"relinquish", "execute", "failed"}
  BY <1>1
<1>13. BehindIsDone'
  <2>1. /\ DOMAIN Helper!Missing' = DOMAIN Helper!Missing
        /\ \A g : Helper!Members(g)' = Helper!Members(g) /\ Helper!Members(gov)' = Helper!Members(gov)
        /\ Helper!Relevant(gov)' = R
    BY <1>1, <1>3, CallStays DEF R
  <2> QED BY <1>5, <1>8, <1>10, <1>11, <1>12, <2>1 DEF BehindIsDone
<1> QED BY <1>4, <1>6, <1>7, <1>13 DEF CallInv

\* The wallet's tokens are taken back, if it had deposited them, before the next governance.
LEMMA RelinquishKeeps ==
  ASSUME CallInv, RouteInv, Helper!Relinquish \/ Helper!Withdraw PROVE CallInv'
<1>1. /\ pc \in {"relinquish", "withdraw"}
      /\ UNCHANGED <<instructions, route, execute, status, added, done, tokens>>
      /\ gov' \in Nat \ {0} /\ idx' \in Nat \ {0}
      /\ pc' \in {"withdraw", "propose", "failed"}
      /\ pc' = "withdraw" => gov' = gov
      /\ pc' = "propose" => gov' = gov + 1 /\ (tokens => ~deposited')
  BY DEF Helper!Relinquish, Helper!Withdraw, Helper!Sent, Helper!Goto,
     Helper!NextGovernance, Helper!Throw, Helper!chain, Helper!proposals,
     Helper!call, CallInv, CallTypes
<1>2. AddedInOrder' /\ added' \in Seq(Addable')
  BY <1>1, MultisigKeeps
<1>3. CallTypes'
  BY <1>1, <1>2, CallStays DEF CallInv, CallTypes, AtGovernance
<1>4. TokensAreBack'
  BY <1>1 DEF CallInv, TokensAreBack, OfSquads
<1>5. execute => /\ Helper!Members(gov) \subseteq done
                 /\ \A g \in DOMAIN Helper!Missing : g < gov => Helper!Members(g) \subseteq done
  BY <1>1 DEF CallInv, BehindIsDone, AtGovernance
<1>6. \A g \in DOMAIN Helper!Missing : g < gov + 1 => g < gov \/ g = gov
  BY MissingIsMet DEF CallInv, CallTypes
<1>7. execute /\ pc' = "propose" =>
        \A g \in DOMAIN Helper!Missing : g < gov' => Helper!Members(g) \subseteq done
  BY <1>1, <1>5, <1>6
<1>8. BehindIsDone'
  <2>1. /\ DOMAIN Helper!Missing' = DOMAIN Helper!Missing
        /\ \A g : Helper!Members(g)' = Helper!Members(g)
        /\ gov' = gov => Helper!Members(gov)' = Helper!Members(gov)
    BY <1>1, CallStays DEF Helper!Members, Helper!SignedBy
  <2>2. CASE pc' = "withdraw"
    BY <1>1, <1>5, <2>1, <2>2 DEF BehindIsDone, AtGovernance
  <2>3. CASE pc' = "propose"
    BY <1>1, <1>7, <2>1, <2>3 DEF BehindIsDone, AtGovernance
  <2>4. CASE pc' = "failed"
    BY <2>4 DEF BehindIsDone, AtGovernance
  <2> QED BY <1>1, <2>2, <2>3, <2>4
<1> QED BY <1>2, <1>3, <1>4, <1>8 DEF CallInv

\* Last come the instructions that want no signature but the wallet's.
LEMMA SendOwnKeeps == ASSUME CallInv, RouteInv, Helper!SendOwn PROVE CallInv'
<1>1. /\ pc = "own" /\ UNCHANGED <<instructions, route, execute, status, added, gov, idx, tokens, deposited>>
      /\ \/ pc' \in {"returned", "failed"} /\ done' = done \cup Helper!Own
         \/ pc' = "failed" /\ done' = done
  BY DEF Helper!SendOwn, Helper!Executed, Helper!Sent, Helper!Goto,
     Helper!Throw, Helper!chain, Helper!proposals, Helper!call
<1>2. AddedInOrder' /\ added' \in Seq(Addable')
  BY <1>1, MultisigKeeps
<1>3. \/ /\ route = "governance" /\ Helper!Own \subseteq Reach
         /\ \A i \in Reach : i \in Helper!Own
                            \/ \E g \in DOMAIN Helper!Missing : i \in Helper!Members(g)
      \/ Helper!Own = Reach
  BY <1>1, GovernanceReaches, OwnReaches DEF CallInv, CallTypes, RouteInv
<1>4. done' \subseteq Reach
  BY <1>1, <1>3 DEF CallInv, CallTypes
<1>5. CallTypes'
  BY <1>1, <1>2, <1>4, CallStays DEF CallInv, CallTypes, AtGovernance
<1>6. TokensAreBack'
  BY <1>1 DEF CallInv, TokensAreBack, OfSquads
<1>7. execute /\ pc' = "returned" => Reach \subseteq done'
  BY <1>1, <1>3 DEF CallInv, BehindIsDone
<1>8. BehindIsDone'
  BY <1>1, <1>7, CallStays DEF BehindIsDone, AtGovernance
<1> QED BY <1>1, <1>2, <1>5, <1>6, <1>8 DEF CallInv

\* An insertion that comes late, others who vote and execute: what was done stays done.
LEMMA OthersKeep ==
  ASSUME CallInv, RouteInv, Helper!Others \/ Helper!InsertLate PROVE CallInv'
<1>1. /\ UNCHANGED <<instructions, route, execute, added, pc, gov, idx, tokens, deposited>>
      /\ done \subseteq done'
      /\ status' = status \/ (status = "active" /\ status' = "ready")
      /\ \A x \in done' : x \in done \/ \E g \in DOMAIN Helper!Missing, i \in Helper!All :
                                          /\ state[g] = "succeeded"
                                          /\ i <= Len(Helper!Relevant(g))
                                          /\ x = Helper!Relevant(g)[i]
  BY DEF Helper!Others, Helper!InsertLate, Helper!InsertedAt, Helper!Executable,
     Helper!Executed, Helper!chain, Helper!proposals, Helper!call,
     Helper!script
<1>2. done' \subseteq Reach
  <2> SUFFICES ASSUME NEW x \in done' PROVE x \in Reach
    OBVIOUS
  <2>1. CASE x \in done
    BY <2>1 DEF CallInv, CallTypes
  <2>2. ASSUME NEW g \in DOMAIN Helper!Missing, NEW i \in Helper!All, state[g] = "succeeded",
               i <= Len(Helper!Relevant(g)), x = Helper!Relevant(g)[i]
        PROVE  x \in Reach
    <3>1. i \in Nat \ {0}
      BY AllIs DEF CallInv, CallTypes
    <3>2. x \in Helper!Members(g)
      BY <2>2, <3>1, RelevantAreMembers DEF CallInv, CallTypes
    <3>3. route = "governance"
      BY <2>2 DEF CallInv, RouteInv
    <3> QED BY <3>2, <3>3, GovernanceReaches DEF CallInv, CallTypes
  <2> QED BY <1>1, <2>1, <2>2
<1>3. CallTypes'
  BY <1>1, <1>2, CallStays DEF CallInv, CallTypes, AtGovernance
<1>4. TokensAreBack'
  BY <1>1 DEF CallInv, TokensAreBack, OfSquads
<1>5. AddedInOrder'
  BY <1>1, CallStays DEF CallInv, AddedInOrder
<1>6. BehindIsDone'
  <2>1. /\ DOMAIN Helper!Missing' = DOMAIN Helper!Missing
        /\ Helper!All' = Helper!All /\ Reach' = Reach
        /\ \A g : Helper!Members(g)' = Helper!Members(g)
        /\ Helper!Members(gov)' = Helper!Members(gov)
        /\ Helper!Relevant(gov)' = Helper!Relevant(gov)
    BY <1>1, CallStays DEF Helper!Members, Helper!SignedBy
  <2> QED BY <1>1, <2>1 DEF CallInv, BehindIsDone
<1> QED BY <1>3, <1>4, <1>5, <1>6 DEF CallInv

\* sendInstructionsOrSquads: from the start to the multisig's transaction, or to what needs none.
LEMMA StartKeeps ==
  ASSUME CallInv, RouteInv, Helper!Start \/ Helper!CreateTransaction PROVE CallInv'
<1>1. /\ pc \in {"start", "create"} /\ gov = 1 /\ idx = 1 /\ added = <<>> /\ ~tokens
      /\ UNCHANGED <<instructions, route, execute, gov, idx, tokens, deposited, added, done>>
  BY DEF Helper!Start, Helper!CreateTransaction, Helper!Sent, Helper!Goto,
     Helper!Throw, Helper!chain, Helper!proposals, Helper!call,
     CallInv, CallTypes, TokensAreBack, OfSquads
<1>2. /\ pc' \in {"propose", "own", "create", "add", "failed"}
      /\ pc' = "add" => status' = "draft"
      /\ status' = status \/ status' = "draft"
  BY DEF Helper!Start, Helper!CreateTransaction, Helper!Sent, Helper!Goto,
     Helper!Throw, Helper!chain, Helper!proposals
<1>3. CallTypes'
  BY <1>1, <1>2, CallStays DEF CallInv, CallTypes, AtGovernance
<1>4. TokensAreBack'
  BY <1>1 DEF TokensAreBack
<1>5. AddedInOrder'
  <2>1. Addable \subseteq Nat \ {0}
    BY AllIs DEF CallInv, CallTypes, Addable
  <2>2. Addable' = Addable /\ DOMAIN added' = {} /\ added' = added
    BY <1>1, CallStays
  <2> QED BY <1>1, <1>2, <2>1, <2>2 DEF CallInv, AddedInOrder
<1>6. BehindIsDone'
  <2>1. DOMAIN Helper!Missing' = DOMAIN Helper!Missing
    BY <1>1, CallStays
  <2>2. \A g \in DOMAIN Helper!Missing : ~ (g < 1)
    BY MissingIsMet DEF CallInv, CallTypes
  <2>3. pc' = "own" => route' # "governance"
    BY DEF Helper!Start, Helper!CreateTransaction, Helper!Sent, Helper!Goto, Helper!Throw,
       Helper!call, RouteInv
  <2>4. gov' = 1
    BY <1>1
  <2> QED BY <1>2, <2>1, <2>2, <2>3, <2>4 DEF BehindIsDone, AtGovernance
<1> QED BY <1>3, <1>4, <1>5, <1>6 DEF CallInv

\* Whatever was told of it, the instruction at hand is added, once more or not at all: the call
\* goes on to the next one only when it is.
LEMMA AddKeeps == ASSUME CallInv, RouteInv, Helper!AddInstruction PROVE CallInv'
<1>1. /\ pc = "add" /\ status = "draft"
      /\ UNCHANGED <<instructions, route, execute, gov, tokens, deposited, status, done>>
      /\ idx \in Nat \ {0} /\ added \in Seq(Addable) /\ Addable \subseteq Helper!All
      /\ Addable = Helper!All \ Helper!SignedBy({"budget"})
      /\ Len(instructions) \in Nat /\ Helper!All = 1..Len(instructions)
  BY AllIs DEF Helper!AddInstruction, Helper!Sent, Helper!Retry, Helper!At,
     Helper!Throw, Helper!Goto, Helper!chain, Helper!proposals,
     Helper!call, CallInv, CallTypes, AddedInOrder, Addable
<1>2. \/ idx > Len(instructions) /\ pc' = "activate" /\ idx' = 1 /\ UNCHANGED added
      \/ /\ idx <= Len(instructions) /\ idx \notin Addable
         /\ pc' = "add" /\ idx' = idx + 1 /\ UNCHANGED added
      \/ /\ idx \in Addable /\ added' = Append(added, idx)
         /\ \/ pc' = "add" /\ (idx' = idx \/ idx' = idx + 1)
            \/ pc' = "failed" /\ idx' = idx
      \/ pc' \in {"add", "failed"} /\ UNCHANGED <<added, idx>>
  BY <1>1 DEF Helper!AddInstruction, Helper!Sent, Helper!Retry, Helper!At,
     Helper!Throw, Helper!Goto, Helper!chain, Helper!proposals
<1>3. idx' \in Nat \ {0} /\ pc' \in {"add", "activate", "failed"}
  BY <1>1, <1>2
<1>4. /\ \A i \in Addable : i < idx => i \in Helper!ToSet(added)
      /\ \A k \in DOMAIN added : added[k] \in Nat /\ added[k] <= idx
      /\ \A i, j \in DOMAIN added : i < j => added[i] <= added[j]
      /\ Len(added) \in Nat /\ DOMAIN added = 1..Len(added)
  <2>1. \A k \in DOMAIN added : added[k] \in Nat
    BY <1>1, ElementOfSeq, LenProperties
  <2> QED BY <1>1, <2>1, LenProperties DEF CallInv, AddedInOrder
<1>5. ASSUME idx \in Addable, added' = Append(added, idx)
      PROVE  AddedInOrder' /\ added' \in Seq(Addable')
  <2>1. /\ added' \in Seq(Addable) /\ DOMAIN added' = 1..Len(added) + 1
        /\ \A k \in 1..Len(added) : added'[k] = added[k]
        /\ added'[Len(added) + 1] = idx
    <3>1. added' = Append(added, idx)
      BY <1>5
    <3> QED BY <1>1, <1>4, <1>5, <3>1, AppendProperties, LenProperties
  <2>2. \A x \in Helper!ToSet(added) : x \in Helper!ToSet(added')
    BY <1>4, <2>1 DEF Helper!ToSet
  <2>3. idx \in Helper!ToSet(added')
    BY <1>4, <2>1 DEF Helper!ToSet
  <2>4. pc' = "add" => idx' = idx \/ idx' = idx + 1
    BY <1>2
  <2>5. /\ \A i \in Addable : i < idx + 1 => i \in Helper!ToSet(added')
        /\ \A k \in DOMAIN added' : added'[k] \in Nat /\ added'[k] <= idx
    <3>1. \A i \in Addable : i < idx + 1 => i < idx \/ i = idx
      BY <1>1
    <3>2. \A k \in DOMAIN added' : k \in 1..Len(added) \/ k = Len(added) + 1
      BY <1>4, <2>1
    <3>3. \A i \in Addable : i < idx + 1 => i \in Helper!ToSet(added')
      BY <1>4, <2>2, <2>3, <3>1
    <3>4. \A k \in DOMAIN added' : added'[k] \in Nat /\ added'[k] <= idx
      BY <1>1, <1>4, <2>1, <3>2
    <3> QED BY <3>3, <3>4
  <2>6. \A i, j \in DOMAIN added' : i < j => added'[i] <= added'[j]
    <3> SUFFICES ASSUME NEW i \in DOMAIN added', NEW j \in DOMAIN added', i < j
                 PROVE  added'[i] <= added'[j]
      OBVIOUS
    <3>1. i \in 1..Len(added) /\ added'[i] = added[i] /\ added[i] <= idx
      BY <1>4, <2>1
    <3>2. CASE j = Len(added) + 1
      BY <2>1, <3>1, <3>2
    <3>3. CASE j \in 1..Len(added)
      BY <1>4, <2>1, <3>1, <3>3
    <3> QED BY <1>4, <2>1, <3>2, <3>3
  <2>7. pc' # "activate" /\ status' = "draft" /\ Addable' = Addable
    BY <1>1, <1>2, <1>5, CallStays
  <2>8. pc' = "add" => /\ \A i \in Addable : i < idx' => i \in Helper!ToSet(added')
                       /\ \A k \in DOMAIN added' : added'[k] <= idx'
    <3> SUFFICES ASSUME pc' = "add"
                 PROVE  /\ \A i \in Addable : i < idx' => i \in Helper!ToSet(added')
                        /\ \A k \in DOMAIN added' : added'[k] <= idx'
      OBVIOUS
    <3>1. CASE idx' = idx
      BY <1>1, <2>5, <3>1
    <3>2. CASE idx' = idx + 1
      BY <1>1, <2>5, <3>2
    <3> QED BY <2>4, <3>1, <3>2
  <2>9. Helper!ToSet(added)' = Helper!ToSet(added')
    BY DEF Helper!ToSet
  <2>10. AddedInOrder'
    BY <2>6, <2>7, <2>8, <2>9 DEF AddedInOrder
  <2> QED BY <1>1, <2>1, <2>10, CallStays
<1>6. ASSUME UNCHANGED added
      PROVE  AddedInOrder' /\ added' \in Seq(Addable')
  <2>1. AddedInOrder'
    <3>1. Addable' = Addable /\ Helper!ToSet(added)' = Helper!ToSet(added)
      BY <1>1, <1>6, CallStays DEF Helper!ToSet
    <3>2. pc' = "add" => idx' = idx \/ (idx' = idx + 1 /\ idx \notin Addable)
      <4>1. Len(added') # Len(added) \/ ~ (idx \in Addable /\ added' = Append(added, idx))
        BY <1>1, <1>4, AppendProperties
      <4> QED BY <1>2, <1>6, <4>1
    <3>3. pc' = "activate" => idx > Len(instructions)
      BY <1>2
    <3>4. pc' = "activate" => Addable \subseteq Helper!ToSet(added)
      BY <1>1, <1>4, <3>3
    <3>5. pc' = "add" => /\ \A i \in Addable : i < idx' => i \in Helper!ToSet(added)
                         /\ \A k \in DOMAIN added : added[k] <= idx'
      <4>1. CASE idx' = idx
        BY <1>4, <4>1
      <4>2. CASE idx' = idx + 1 /\ idx \notin Addable
        <5>1. \A i \in Addable : i < idx + 1 => i < idx
          BY <1>1, <4>2
        <5> QED BY <1>1, <1>4, <4>2, <5>1
      <4> QED BY <3>2, <4>1, <4>2
    <3> QED BY <1>1, <1>4, <1>6, <3>1, <3>4, <3>5 DEF AddedInOrder
  <2> QED BY <1>1, <1>6, <2>1, CallStays
<1>7. AddedInOrder' /\ added' \in Seq(Addable')
  BY <1>2, <1>5, <1>6
<1>8. CallTypes'
  BY <1>1, <1>3, <1>7, CallStays DEF CallInv, CallTypes, AtGovernance
<1>9. TokensAreBack'
  BY <1>1, <1>3 DEF CallInv, TokensAreBack, OfSquads
<1>10. BehindIsDone'
  BY <1>3 DEF BehindIsDone, AtGovernance
<1> QED BY <1>7, <1>8, <1>9, <1>10 DEF CallInv

\* The transaction that is activated, approved and executed is the one that was filled.
LEMMA HandOverKeeps ==
  ASSUME CallInv, RouteInv,
                  \/ Helper!ActivateTransaction \/ Helper!ApproveTransaction
                  \/ Helper!ExecuteTransaction
  PROVE  CallInv'
<1>1. /\ pc \in {"activate", "approve", "run"}
      /\ UNCHANGED <<instructions, route, execute, gov, tokens, deposited, added>>
      /\ idx' = idx \/ idx' = 1
      /\ pc' \in {"activate", "approve", "run", "returned", "failed"}
  BY DEF Helper!ActivateTransaction, Helper!ApproveTransaction,
     Helper!ExecuteTransaction, Helper!Sent, Helper!Retry, Helper!At,
     Helper!Throw, Helper!Goto, Helper!chain, Helper!proposals,
     Helper!call
<1>2. /\ status' = status \/ pc = "activate" \/ status \notin {"none", "draft"}
      /\ pc' = "activate" => pc = "activate"
  BY DEF Helper!ActivateTransaction, Helper!ApproveTransaction,
     Helper!ExecuteTransaction, Helper!Sent, Helper!Retry, Helper!At,
     Helper!Throw, Helper!Goto, Helper!chain, Helper!proposals
<1>3. /\ done' = done \/ (status = "ready" /\ done' = Helper!ToSet(added))
      /\ pc' = "returned" /\ execute => status = "ready" /\ done' = Helper!ToSet(added)
  BY DEF Helper!ActivateTransaction, Helper!ApproveTransaction,
     Helper!ExecuteTransaction, Helper!Sent, Helper!Retry, Helper!At,
     Helper!Throw, Helper!Goto, Helper!chain, Helper!proposals
<1>4. Helper!ToSet(added) \subseteq Addable
  BY ElementOfSeq, LenProperties DEF CallInv, CallTypes, Helper!ToSet
<1>5. /\ status = "ready" => Addable \subseteq Helper!ToSet(added)
      /\ Addable = Reach
  BY <1>1, AddableReaches DEF CallInv, AddedInOrder, RouteInv, OfSquads
<1>6. AddedInOrder'
  <2>1. Addable' = Addable /\ Helper!ToSet(added)' = Helper!ToSet(added)
    BY <1>1, CallStays DEF Helper!ToSet
  <2>2. pc' # "add" /\ added' = added
    BY <1>1
  <2>3. pc' = "activate" \/ status' \notin {"none", "draft"} =>
          pc = "activate" \/ status \notin {"none", "draft"}
    BY <1>2
  <2> QED BY <2>1, <2>2, <2>3 DEF CallInv, AddedInOrder
<1>7. CallTypes'
  <2>1. idx' \in Nat \ {0} /\ done' \subseteq Reach
    BY <1>1, <1>3, <1>4, <1>5 DEF CallInv, CallTypes
  <2> QED BY <1>1, <2>1, CallStays DEF CallInv, CallTypes, AtGovernance
<1>8. TokensAreBack'
  BY <1>1 DEF CallInv, TokensAreBack, OfSquads
<1>9. BehindIsDone'
  BY <1>1, <1>3, <1>5, CallStays DEF BehindIsDone, AtGovernance
<1> QED BY <1>6, <1>7, <1>8, <1>9 DEF CallInv

LEMMA CallKeeps == ASSUME CallInv, RouteInv, [Helper!Next]_(Helper!vars) PROVE CallInv'
<1>1. ASSUME UNCHANGED Helper!vars PROVE CallInv'
  <2>1. UNCHANGED <<instructions, route, execute, status, added, done, pc, gov, idx, tokens, deposited>>
    BY <1>1 DEF Helper!vars, Helper!chain, Helper!proposals, Helper!call,
       Helper!script
  <2>2. /\ Helper!All' = Helper!All /\ Reach' = Reach /\ Addable' = Addable
        /\ DOMAIN Helper!Missing' = DOMAIN Helper!Missing
        /\ \A g : Helper!Members(g)' = Helper!Members(g)
        /\ Helper!Members(gov)' = Helper!Members(gov)
        /\ Helper!Relevant(gov)' = Helper!Relevant(gov)
        /\ Helper!ToSet(added)' = Helper!ToSet(added)
    BY <2>1, CallStays DEF Helper!Members, Helper!SignedBy, Helper!ToSet
  <2>3. CallTypes'
    BY <2>1, <2>2 DEF CallInv, CallTypes, AtGovernance
  <2>4. BehindIsDone'
    BY <2>1, <2>2 DEF CallInv, BehindIsDone, AtGovernance
  <2>5. TokensAreBack' /\ AddedInOrder'
    BY <2>1, <2>2 DEF CallInv, TokensAreBack, AddedInOrder, OfSquads
  <2> QED BY <2>3, <2>4, <2>5 DEF CallInv
<1> QED BY <1>1, ProposeKeeps, InsertKeeps, SignOffKeeps, CastVoteKeeps, ExecuteKeeps,
           RelinquishKeeps, SendOwnKeeps, OthersKeep, StartKeeps, AddKeeps, HandOverKeeps
        DEF Helper!Next

\* A call that was to execute what it proposes, and returns, has, for every list of instructions,
\* however many governances sign them and whichever answers are lost: every instruction was
\* executed but those that its function passes over (what a keypair signs, or the treasury of a
\* governance that signs nothing, or an account the governance program does not own; a
\* multisig's compute budget), and those never are; the deposited tokens are back, and what a
\* multisig is asked to approve holds every other instruction in their order
\* (sendInstructionsOrCreateProposal, sendInstructionsOrSquads).
THEOREM CallsAreComplete == AdminSpec => []ReturnedIsComplete
<1>1. AdminInit => CallInv /\ RouteInv
  <2> SUFFICES ASSUME AdminInit PROVE CallInv /\ RouteInv
    OBVIOUS
  <2>1. /\ instructions \in Seq(Helper!Signers) /\ gov = 1 /\ idx = 1 /\ added = <<>> /\ done = {}
        /\ pc = "start" /\ tokens = FALSE /\ status = "none"
        /\ route \in {"governance", "squads", "direct"}
        /\ state = [g \in DOMAIN Helper!Missing |-> "none"]
    BY CallsAssumption DEF AdminInit, Helper!Init
  <2>2. CallTypes
    BY <2>1 DEF CallTypes, AtGovernance
  <2>3. BehindIsDone /\ TokensAreBack /\ AddedInOrder
    BY <2>1 DEF BehindIsDone, TokensAreBack, AddedInOrder, AtGovernance
  <2>4. RouteInv
    BY <2>1 DEF RouteInv, AtGovernance, OfSquads
  <2> QED BY <2>2, <2>3, <2>4 DEF CallInv
<1>2. [Deploy \/ Administer]_(<<deployment, helper>>)
        => [Helper!Next]_(Helper!vars)
  BY DEF Deploy, Administer, helper, Helper!vars, Helper!chain,
     Helper!proposals, Helper!call, Helper!script
<1>3. CallInv /\ RouteInv => ReturnedIsComplete
  <2> SUFFICES ASSUME CallInv, RouteInv PROVE ReturnedIsComplete
    OBVIOUS
  <2>1. Helper!ToSet(added) \subseteq Addable
    BY ElementOfSeq, LenProperties DEF CallInv, CallTypes, Helper!ToSet
  <2>2. pc = "returned" /\ execute => done = Reach /\ (tokens => ~deposited)
    BY DEF CallInv, CallTypes, BehindIsDone, TokensAreBack
  <2>3. status \notin {"none", "draft"} =>
          /\ Helper!ToSet(added) = Addable
          /\ \A i, j \in DOMAIN added : i < j => added[i] <= added[j]
    BY <2>1 DEF CallInv, AddedInOrder
  <2> QED BY <2>2, <2>3 DEF ReturnedIsComplete, Helper!NothingIsSkipped, Reach, Addable
<1>4. CallInv /\ RouteInv /\ [Helper!Next]_(Helper!vars) => (CallInv /\ RouteInv)'
  <2> SUFFICES ASSUME CallInv, RouteInv, [Helper!Next]_(Helper!vars) PROVE CallInv' /\ RouteInv'
    OBVIOUS
  <2>1. RouteInv'
    <3>1. CASE Helper!Next
      BY <3>1, RouteKeeps DEF CallInv
    <3>2. CASE UNCHANGED Helper!vars
      <4>1. UNCHANGED <<instructions, route, pc, status, state>>
        BY <3>2 DEF Helper!vars, Helper!chain, Helper!proposals, Helper!call, Helper!script
      <4> QED BY <4>1, CallStays DEF RouteInv
    <3> QED BY <3>1, <3>2
  <2> QED BY <2>1, CallKeeps
<1> QED BY <1>1, <1>2, <1>3, <1>4, PTL DEF AdminSpec
=============================================================================
