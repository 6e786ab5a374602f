----------------------------- MODULE ClientCode -----------------------------
(***************************************************************************)
(* The TypeScript code beside the programs: the sender of transactions and *)
(* the helpers of @helium/spl-utils, the clients' account resolvers,       *)
(* createSwitchboardAggregator of the admin command line, and what the     *)
(* bridge's page shows.                                                    *)
(*                                                                         *)
(* They share no state but the chain's and are used one at a time: a       *)
(* behaviour is one use of one part, by as many callers as that part       *)
(* allows, and the other parts stay in an initial state of theirs.         *)
(***************************************************************************)
EXTENDS TransactionSender, Sequences, FiniteSets

CONSTANTS
  Mints, Existing, Owners, Wallet, Callers, Requests, MaxTries,   \* see TokenHelpers
  Instructions,                                                   \* see AccountResolution
  Batches, Client, IdlErrors, Codes,                              \* see ErrorTranslation
  Assets, Trees, Buffer, MaxAccounts, Lag, MaxChanges,            \* see AssetProof
  Mantissa, Scale, Decimals, ShownDigits, MaxAmount,              \* see Amounts
  Runs,                                                           \* see Aggregator
  Transfers, Inputs, IsWhole(_), Balance,                         \* see BridgeDisplay
  MaxFaults   \* bound of the model: faults in one use of a part

ASSUME HelpersAssumption ==
  /\ Wallet \in Owners /\ Existing \subseteq Mints
  /\ MaxTries \in Nat \ {0} /\ MaxFaults \in Nat
\* The helpers that token.ts exports are what a request asks for.
ASSUME RequestsAssumption ==
  /\ IsFiniteSet(Owners) /\ IsFiniteSet(Callers)
  /\ Requests \subseteq
       [op : {"mintTo", "createAta", "createAtaAndMint", "createAtaAndTransfer", "createMint",
              "createNft"},
        mint : Mints, from : Owners, to : Owners, amount : Nat, collection : Mints \cup {"none"}]
ASSUME IdlAssumption == \A code \in IdlErrors : code >= 6000 \* where Anchor numbers them from
ASSUME TreesAssumption == \A t \in Trees : t.depth \in Nat /\ t.canopy \in 0..t.depth
ASSUME ReadsAssumption == Buffer \in Nat \ {0} /\ Lag \in Nat /\ MaxChanges \in Nat
ASSUME FloatAssumption ==
  /\ Mantissa \in Nat /\ Mantissa >= 2 /\ Scale \in Nat /\ MaxAmount \in Nat
  /\ \A d \in Decimals \cup {ShownDigits} : d \in Nat /\ 10 ^ d * 2 ^ (Mantissa - 1) <= 2 ^ Scale
\* What is true of any powers of ten: they are positive, and the smaller divides the larger.
ASSUME PowersAssumption ==
  \A d, e \in Decimals \cup {ShownDigits} :
    10 ^ d > 0 /\ \E k \in 1 .. (10 ^ d + 10 ^ e) : 10 ^ d = 10 ^ e * k \/ 10 ^ e = 10 ^ d * k

VARIABLES
  part,   \* the part that is used
  ledger, flight, request, helperPc, found, helperTries, helperFaults,
  instruction, given, wallet, accounts, resolverPc, resolver, account, resolved,
  batch, position, program, status, thrown,
  tree, log, proofPc, id, asset, proof, canopy, used,
  amount, decimals, way, number, back, shown,
  feed, history, handed, feedPc, feedFlight, feedFaults,
  erc20ToBurn, currentStep, error, submittedSolTx, clickPc, captured, last, unpackaged, overlapped

token == <<ledger, flight, request, helperPc, found, helperTries, helperFaults>>
resolution == <<instruction, given, wallet, accounts, resolverPc, resolver, account, resolved>>
errors == <<batch, position, program, status, thrown>>
proofs == <<tree, log, proofPc, id, asset, proof, canopy, used>>
amounts == <<amount, decimals, way, number, back, shown>>
aggregator == <<feed, history, handed, feedPc, feedFlight, feedFaults>>
display == <<erc20ToBurn, currentStep, error, submittedSolTx, clickPc, captured, last, unpackaged,
             overlapped>>
clientVars == <<part, vars, token, resolution, errors, proofs, amounts, aggregator, display>>

Token == INSTANCE TokenHelpers
  WITH pc <- helperPc, tries <- helperTries, faults <- helperFaults
Resolution == INSTANCE AccountResolution WITH pc <- resolverPc
Errors == INSTANCE ErrorTranslation WITH Calls <- Batches, call <- batch, next <- position
Proof == INSTANCE AssetProof WITH pc <- proofPc
Amount == INSTANCE Amounts
Feed == INSTANCE Aggregator WITH pc <- feedPc, flight <- feedFlight, faults <- feedFaults
Display == INSTANCE BridgeDisplay WITH pc <- clickPc, failed <- unpackaged

\* Anchor derives no account that a resolver is for, and the purchase of credits is the one
\* instruction with an account of a recipient's.
ASSUME AccountsAssumption ==
  \A i \in Instructions :
    /\ i.accounts \in Seq(Seq(STRING) \ {<<>>}) /\ i.client \in DOMAIN Resolution!Clients
    /\ \A p \in DOMAIN i.derived :
         /\ p \notin {<<"recipient">>, <<"recipientTokenAccount">>, <<"burner">>}
         /\ Resolution!Name(p) \notin Resolution!HeliumCommon \cup {"circuitBreakerProgram"}
    /\ i.name = "mintRenderCreditsV0" => i.client = "renderCredits"
    /\ (\E k \in DOMAIN i.accounts :
           i.accounts[k] \in {<<"recipient">>, <<"recipientTokenAccount">>})
         => i.name = "mintRenderCreditsV0"

Parts == {"sender", "token", "resolution", "errors", "proof", "amounts", "aggregator", "display"}
Some(S) == CHOOSE x \in S : TRUE

\* The part that is used is in any of its initial states, the others are in one and the same.
ClientInit ==
  /\ part \in Parts
  /\ part = "sender" \/ (height = 0 /\ call = Some(Calls \ {"bulk"}))
  /\ Init
  /\ part = "token" \/ request = [c \in Callers |-> Some(Requests)]
  /\ Token!Init
  /\ part = "token" \/ \A m \in Existing : ledger.mint[m] = Token!None
  /\ part = "resolution" \/ (instruction = Some(Instructions) /\ wallet = TRUE)
  /\ Resolution!Init
  /\ part = "resolution" \/ Resolution!Named(given) = {}
  /\ part = "errors" \/ batch = Some(Batches)
  /\ Errors!Init
  /\ part = "proof" \/ (tree = Some(Trees) /\ id = Some(Assets))
  /\ Proof!Init
  /\ part = "amounts" \/ (amount = 0 /\ decimals = Some(Decimals) /\ way = "typed")
  /\ Amount!Init
  /\ Feed!Init
  /\ part = "display" \/ erc20ToBurn = Some(Inputs)
  /\ Display!Init

ClientNext ==
  /\ UNCHANGED part
  /\ \/ /\ part = "sender" /\ Next
        /\ UNCHANGED <<token, resolution, errors, proofs, amounts, aggregator, display>>
     \/ /\ part = "token" /\ Token!Next
        /\ UNCHANGED <<vars, resolution, errors, proofs, amounts, aggregator, display>>
     \/ /\ part = "resolution" /\ Resolution!Next
        /\ UNCHANGED <<vars, token, errors, proofs, amounts, aggregator, display>>
     \/ /\ part = "errors" /\ Errors!Next
        /\ UNCHANGED <<vars, token, resolution, proofs, amounts, aggregator, display>>
     \/ /\ part = "proof" /\ Proof!Next
        /\ UNCHANGED <<vars, token, resolution, errors, amounts, aggregator, display>>
     \/ /\ part = "amounts" /\ Amount!Next
        /\ UNCHANGED <<vars, token, resolution, errors, proofs, aggregator, display>>
     \/ /\ part = "aggregator" /\ Feed!Next
        /\ UNCHANGED <<vars, token, resolution, errors, proofs, amounts, display>>
     \/ /\ part = "display" /\ Display!Next
        /\ UNCHANGED <<vars, token, resolution, errors, proofs, amounts, aggregator>>

\* The fairness of the sender, when it is the sender that is used.
ClientSpec ==
  /\ ClientInit /\ [][ClientNext]_clientVars
  /\ WF_vars(part = "sender" /\ NewBlock) /\ WF_vars(part = "sender" /\ Caller)

-----------------------------------------------------------------------------
(* Properties of the parts; an unused one has them too, in its initial state *)

\* See TokenHelpers: effects are had as often as calls return, and at most once for each.
EffectsAreCounted == Token!EffectsAreCounted /\ Token!NftIsUnique

\* See AccountResolution: what can be known is filled in with the key that is meant.
ResolvedAsMeant == Resolution!ResolvedAsMeant

\* See ErrorTranslation: a code keeps its value and, if it is the client's, gets its message.
CodesAreTold == Errors!CodesAreTold

\* See AssetProof: three reads are overtaken by nothing but changes they could not know of.
ReadsAreConsistent == Proof!RefusedOnlyIfOvertaken /\ Proof!AcceptedAsRead

\* See Amounts: below the bound no unit is lost, and no more is shown than there is.
UnitsAreKept == Amount!UnitsAreKept /\ Amount!NeverOverstated

\* See Aggregator: what was handed over is complete, whichever runs fail or overlap.
HandedOverComplete == Feed!HandedOverComplete

\* See BridgeDisplay: what the page marks as done, failed or succeeded is.
MarksAreTrue == Display!MarksAreTrue /\ Display!SuccessIsReal
=============================================================================
