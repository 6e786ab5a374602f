# Formal models of the Render Network programs

TLA+ models of the Solana programs that sell, emit, guard and bridge RNDR and render credits (RC),
and of the TypeScript around them: the bridge's page and API, the transaction sender, the account
cache and the other helpers the clients share, and the administration scripts. TLC configurations check them on small
instances, and TLAPS proofs show what matters most for every value of the constants.

- To check a model: `tlc -config MCMintBreaker.cfg MCMintBreaker` (one `.cfg` per run, table below).
- To check a proof: `tlapm MintBreakerProofs.tla` (each `*Proofs` module).
- `PROJECT.json` names, for every definition, the lines it models, and lists runs, theorems,
  findings, hazards, and for every property a plausible slip in the code that breaks it.

## 1. The system

`README.md` of the repository names four contracts. The programs live in `programs/`, the
TypeScript around them in `packages/` and `bridge/`; `deps/` is vendored (Clockwork, mpl, ...).

| component | state it keeps | operations | interacts with |
|---|---|---|---|
| circuit-breaker | one breaker PDA per mint or token account: authority, config (window seconds, Percent/Absolute threshold), last window (aggregate, time) | initialize, update, delete (mint only), `mint_v0`, `transfer_v0` | takes over the mint authority / the token account's owner; called by the programs below |
| emission-schedule | a list of items: start time, emissions per epoch, emitted flag | initialize (`init_if_needed`: overwrites), update | read by the distributor and burn-rewards |
| emission-distributor | rewards accounts with percentages; the mint's breaker; a Clockwork thread | initialize, `distribute_emission_v0`, update | schedule, breaker, thread |
| Clockwork thread (vendored) | next instruction, time of the last kickoff; with each worker, whether the thread is executable and how often its simulation failed | kickoff by a cron trigger, one exec per instruction; giving a thread up after too many failures, taking it up when its account changes | calls the distributor |
| render-credits | authority and price oracle; mint and freeze authority of RC | initialize, update, `mint_render_credits_v0`, `burn_render_credits_v0` | Pyth price, RNDR burn, breaker of the RC mint, freeze/thaw of credit accounts, burn-rewards |
| burn-rewards | RC burned per epoch and owner | initialize, distribute | render-credits raises its counters (in vain, see findings) |
| price-oracle | oracles, their last prices, the current price | initialize, submit, update | consumers read the account |
| bridge program | escrow; one account per Ethereum transaction | initialize, close, `bridge_mint_rndr_v0` | the API co-signs |
| bridge page and API | the balance and input shown; of each transfer the step it is at, and the packaged transaction | burn on Ethereum, sign the intent, package, send | Ethereum node, API, Solana node |
| account cache (spl-utils) | cached entries, watcher counts, subscriptions, pending promises, the batch being filled | search, watch, dispose, delete, close; poll for missing accounts | RPC node, websocket, every caller in the page |
| transaction sender (spl-utils) | of each call: what is sent, confirmed, resent; blockhash and tries left | `sendInstructions`, `sendMultipleInstructions`, `execute`, `executeBig`, `executeRemoteTxn`, `bulkSendTransactions` | RPC node, websocket, a server that makes transactions |
| admin CLI | none: what it knows it looks up on the chain | the deployment script; proposing instructions to a governance or a multisig | transaction sender, all programs' initializers, SPL governance, Squads |
| token helpers (spl-utils) | none: the call's own await | make token accounts, mints and NFTs, mint, transfer, each in one transaction | RPC node, token and metadata programs, deployment script |
| account resolution (spl-utils, SDK packages) | the table of accounts of one call | resolvers, one after the other, as long as they find something | Anchor |
| error translation (spl-utils) | none | `ProgramError.parse` | sender, whoever catches |
| compressed assets (spl-utils) | none: what the call has read so far | asset, proof, `proofArgsAndAccounts`; listings, a page a call | an indexer, the tree's program |
| amounts (spl-utils) | none | `toNumber`, `toBN`, `humanReadable` | `createAndMint`, readers |
| shared-utils, Ethereum contracts, tests | none of their own that others depend on | | |

What is hard, and what would make each component correct:

- **Circuit breaker.** The decay is re-based at every call and rounded down, a Percent threshold
  moves with the balance, and the configuration may change: *over every span of time the amount
  let through is bounded*, and *there is no way around the breaker* through an older authority,
  delegate, close authority, or an account created anew. Boundaries: idle longer than the window,
  a window of zero, an empty supply, 100 percent.
- **Emissions.** One pass is several instructions, each retried until it succeeds or the workers give
  up; between two of them the schedule may be replaced, a token account may be missing or given to
  another, the breaker may refuse; the cron trigger fires late and skips. *Every recipient gets its share
  once per pass for each time it is named; a pass of different recipients with token accounts of their own
  never pays more than an epoch; passes follow the cron; a pass that can be paid, and is not forgotten, ends.*
- **Render credits.** Two exact divisions in opposite directions, at a price published earlier, with
  a confidence that may exceed it; accounts that are thawed to be written. *What is sold is worth
  what was burned for it; rounding gives nothing away; sold credits do not circulate.*
- **Account cache.** One JavaScript thread, but every `await` and timer is an interleaving point:
  answers come late, in another order, or as errors; polls, callers and requeries share one promise
  per account. *Every subscription has a watcher and every watcher a subscription or a poll; every
  promise has a request under way; a missing account that appears is noticed.*
- **Bridge.** Page, API, Ethereum and Solana each go on by themselves; the page may be closed and any
  await rejected, the input and the button stay enabled while a transfer is under way, packages are
  lost, come late, or are asked for again, and the bridge's account is closed and made anew. *An
  Ethereum transaction is released at most once, in its amount, and by way of the page only after it was
  mined.*
- **Transaction sender.** A cluster that drops, delays and refuses, notifications that do not come,
  blockhashes that expire, and a transaction signed again with another one. *Ordered transactions
  take effect in order; what is returned was executed; no transaction has two signatures alive at
  once; a call ends.*
- **Deployment.** Nine transactions, sent one after the other by a script that can stop anywhere and
  is then run again, while something of the earlier run may still land. *The supply is minted to the
  bridge at most once; a run that ends leaves everything deployed; running it again gets to the end.*
- **Proposals.** Many transactions for one list of instructions, with errors that are dropped in one
  place and retried in another, and filters on who signs. *A call that was to execute what it was given, and
  returns, has left out nothing but what its filters pass over.*
- **Bridge's display.** All transfers set the same state of the page, and nothing disables the button
  or the input. *What is shown is true of the transfer it is of.*
- **Token helpers.** They look before they send, another caller may be in between, and an error does not
  tell whether the transaction was executed. *Effects are neither lost nor more than was asked
  for; an NFT is one for good.*
- **Account resolution.** Several resolvers and Anchor write into one table in several passes. *Everything
  that can be known is found, and is what the caller meant.*
- **Error translation.** Indexes, codes of several programs and the runtime's errors meet in one number
  space. *A code keeps its value, and nothing else is told as one.*
- **Compressed assets.** Three reads of a tree that changes in between, from an indexer that lags. *What is refused was overtaken, what is accepted was seen.*
- **Amounts.** Exact integers become floats and integers again. *No unit is lost on the way.*
- **Aggregator.** Three calls in a row that may stop anywhere, be repeated and overlap. *What is handed over
  is complete.*
- **Price oracle** (not modelled). Quorum, one-day freshness and median; a price stays in place while
  there is no quorum.

On Solana one instruction is atomic: a failing check or call aborts the transaction. So the actions
of the program modules are whole instructions, with all calls to other programs they make, and
concurrency is the order of transactions of different signers. In the TypeScript an action is one
turn of the event loop: an await with what follows it, up to the next.

## 2. The modules

| module | models | extends / instantiates |
|---|---|---|
| `Window` | `window.rs`: decay, threshold, enforcement; the history variable `obs` of the breakers | |
| `MintBreaker` | the breaker of a mint, the mint, the clock | extends `Window` |
| `AccountBreaker` | the breaker of a token account, the account, the clock | extends `Window` |
| `EmissionDistribution` | both emission programs, the Clockwork thread, recipients | `Breaker == INSTANCE MintBreaker` |
| `RenderCredits` | render-credits, credit accounts, Pyth quotes, RNDR, burn-rewards initialization | `Breaker == INSTANCE MintBreaker` |
| `AccountFetchCache` | `accountFetchCache.ts` | |
| `TransactionSender` | `transaction.ts` and `executeRemoteTxn.ts`, one call at a time, and the cluster | |
| `BridgeLedger` | abstract specification: an Ethereum transaction is released once, in the amount it names | |
| `Bridge` | page, API, bridge program and both chains | `Ledger == INSTANCE BridgeLedger WITH ...` |
| `Deployment` | `deploy.ts`, `createAndMint`, and the chain | |
| `Proposals` | `sendInstructionsOrCreateProposal`, `sendInstructionsOrSquads`, SPL governance and Squads | |
| `AdminCli` | the package: deployments until one is complete, then a call of a helper | extends `Deployment`, `Helper == INSTANCE Proposals` |
| `BridgeDisplay` | what the page shows of its transfers | |
| `TokenHelpers` | `token.ts`, its callers, and the token programs | |
| `AccountResolution` | `accountsResolver/`, the SDKs' resolvers, and Anchor's passes | |
| `ErrorTranslation` | `anchorError.ts` and who calls it | |
| `AssetProof` | `proofArgsAndAccounts.ts`, and of `mplAssetAPI.ts` the two reads it makes | |
| `Amounts` | `utils.ts` of spl-utils | |
| `SortedSets` | a set of numbers in order, and the rank of each: what `Proposals` sorts by | |
| `Aggregator` | `createSwitchboardAggregator` | |
| `ClientCode` | the sender, the helpers, the aggregator and the display, one of them at a time | extends `TransactionSender`, instantiates `TokenHelpers`, `AccountResolution`, `ErrorTranslation`, `AssetProof`, `Amounts`, `Aggregator`, `BridgeDisplay` |
| `ArithmeticProofs` | lemmas for the others: minima, ranks, sums, the window's arithmetic | extends `Window`, `SortedSets`, `TLAPS` |
| `BridgeProofs` | theorems about the bridge and its administration | extends `Bridge`, `AdminCli`, `ArithmeticProofs` |
| other `*Proofs` | theorems about the module of that name | extends it and `ArithmeticProofs` or `TLAPS` |
| `MC*` | values of the constants for TLC | extends the module |

`ClientCode` puts together what runs in a client beside the programs. These parts share no state but
the chain's, so that a behaviour is one use of one of them (`part`), by as many callers as it allows,
while the others stay in an initial state of theirs. It states the assumptions on their constants.

State and actions carry the source's names (in CamelCase for handlers). How they correspond:

- **Window.** The `Option`/`Result` of the Rust functions become guards (`DecayDefined`,
  `Enforceable`) and value operators (`TimeDecayPreviousValue`, `GetThreshold`,
  `EnforcedWindow`). A u64 is `0 .. U64Max`; the u128 products cannot overflow and are plain.
  100 percent is `u64::MAX`, so a Percent threshold is a fraction of `U64Max`.
- **The breakers.** `breaker` is the PDA account or `None`; `Pda` signs only inside `mint_v0` and
  `transfer_v0`, which is how nobody else can use it. Beside the instructions there are the token
  program's own steps (direct mint, burn, deposit, transfer by owner or delegate, close, approve,
  authority change, a new account), by whoever may take them. `Observe` starts the observer `obs`
  afresh at any moment: what holds of it holds of every span. An update of the configuration also
  restarts it (spans under one configuration).
- **EmissionDistribution.** `ThreadKickoff` and `ThreadExec` are the vendored thread's steps as the
  distributor sets it up; an exec that fails changes nothing of the chain. A token account is named after the
  rewards account the thread's instruction was made for, and `owner` says whose it is now: `Escrow` finds
  the percentage by that owner, the first one if it is named twice, as the program does, and there is none
  for a stranger (`MissingRewardsAccountInfo`). `tries` is the workers' count of simulation failures:
  `SimulationFails` raises it, beyond `MaxFailures` the thread is forgotten, and `TakeUp` is what
  makes it executable anew (its account changes, a worker is started again, or finds what it sent was
  lost). The workers are one: each counts for itself, and the thread is forgotten when all of them have
  given up. `pass` is a history variable; its `strayed` are the recipients whose token account was another's when
  it was paid. `update_emission_distributor_v0` is no
  action: its seeds name no account the initializer creates. Anchor stores an account only if the
  executing program owns it, hence `schedule` is unchanged by `DistributeEmissionV0`.
- **RenderCredits.** `MintRenderCreditsV0` takes an amount of RNDR or of RC, computes the other,
  burns, thaws, mints through `Breaker!MintV0`, freezes. `quotes` hold price, confidence and publish
  time. `book` is a history variable: what was bought since it was opened, and every rate usable
  since; `outside` counts credits minted by others than the program. The mint's and freeze
  authorities have to be handed over by the initializer with both signers.
- **AccountFetchCache.** `Search` runs a call to its first await; `FetchBatch` the batch timer;
  `Read` is the moment the node reads; `Respond` and `Fail` are everything an answer settles;
  `FetchMissing` the poll; `RequeryMissing` the requery after a transaction
  sent over the cache's connection; `Notify` a websocket message.
  Subscriptions are numbered from 0 by the connection, and the cache's truthiness test takes id 0
  for none: listeners are `"none"`, `"zero"` or `"some"`.
- **TransactionSender.** A signature is a transaction and the height its blockhash is from; the
  cluster executes it at most once and not after its blockhash expired. `Begin` is one of
  three ways of getting signed transactions: signing them here (`SignHere`, sent in `NextInOrder`),
  by a server (`SignRemote`), or in bulk; `Send`, `Resend` and `Notified`
  are `sendAndConfirmWithRetry`; `Round`, `Check`, `SendChunk`, `Query` and `Returned` the two nested
  loops of the bulk calls. `Reject` rejects any await, and may have forwarded what it was to send.
  There is no action for the timeout or the polling of the status: the code gives both up in the
  turn in which it subscribes.
- **Bridge.** `step` of a transfer is the await it is at; `captured` is the value of the input in the
  closure of its click, `erc20ToBurn` the input now. `Fail` is every rejection and error answer:
  `getBalance` and `signMessage` are not caught, and after an error of the API the page fails on
  `res.tx`. `AskByHand` is a request made without the page, the way left to a user whose page was closed; the API reads
  the transaction and neither its receipt nor its destination, so that it may be for one that is pending or
  was reverted, or for a transfer of the token to anywhere (`TransferElsewhere`). `early` is a history variable: the requests by hand
  for what was no mined burn. `TransferInit` is Anchor's `init` of the account derived from the burn.
- **Deployment.** `Order` is the script's list of transactions, `Look` its `exists` tests (not before
  the bridge and its funding), `After` what is left out when an account is found: `createAndMint` as a
  whole, metadata included. `left` counts what ended runs have left in flight; a run whose answer was
  lost is `Interrupted` with its transaction left, which may land or not.
- **Proposals.** `Sent(can, Effect, Then, Otherwise)` is one awaited transaction: executed and
  confirmed, executed with its answer lost, or not executed. `Insert` goes on after errors, as the
  code does, unless the instruction needs the lookup table; `Retry` is `withRetries`. An instruction is given by
  the kind of account that signs it: `Wanting` is what the helpers look for signatures for, of a governance's call only accounts
  that the governance program owns (`utils.ts:323`), `Members` what a governance's proposal gets, those its native treasury signs
  included, and what neither finds is passed over. `route` is which helper runs, `"direct"` being `sendInstructionsOrSquads`
  without a multisig. SPL governance
  (insertion at the next index only and into drafts, execution after success) and Squads
  (instructions into drafts, activation, approval) are modelled from how the code uses them.

- **BridgeDisplay.** The states of the page that are rendered, and of each transfer the await it is at;
  `Check`, `Cross`, `Spinner` and `Success` are the conditions of the rendering. Why an await fails is left to
  `Bridge`. It shares `captured`, `erc20ToBurn` and the awaits with `Bridge`; the two are kept apart because the one
  needs chains and packages, the other none of them.
- **TokenHelpers.** A call is `Look` (the await of `getAccountInfo`), `Send`, and the answer it is told;
  `Instructions` says what each helper sends after what it saw. `Land` executes a transaction, all of it
  or nothing. `Told` reaches the call that still waits. A call of `mintTo`, `createMint` or `transfer` without a look
  has the step all the same, which then decides nothing.
- **AccountResolution.** A path is a sequence of names; keys are told apart by where they come from.
  `ResolveIndividual` is one account and one resolver, `NextResolver` the loop of `combineResolvers`,
  `Derive` and `Return` Anchor before and after them.
- **ErrorTranslation.** `status` is the error as the cluster or an await tells it, `thrown` what the caller
  catches.
- **AssetProof.** A version is the number of changes so far; an indexer answers from one of the last
  `Lag + 1` of them. The tree's program accepts a path that is complete with its canopy and a leaf as it is
  now, for certain if it remembers all changes since the proof.
- **Amounts.** A float is an integer in units of `2^-Scale`; `Float` rounds to the mantissa, to even, after every
  operation, as ECMAScript does.
- **Aggregator.** `Steps` are the calls in the order of the code, with the two transactions of `createFeed` apart.

### Abstractions

- Public keys are model values; names, logs, serialization and account sizes are left out, except
  the space limit of the schedule account. Rent and fees are left out.
- Circuit breaker: frozen token accounts and the size of a delegate's allowance are left out.
- Emissions: fees, rate limits, pausing and other triggers of the thread are left out, and of the workers their
  pool, their back-off and the time a transaction takes to be confirmed. Several instructions in one
  transaction are steps that follow at once.
- Credits: the exponent of the Pyth price and the mints' decimals are the constant `Factor`
  (10^11 as deployed).
- Cache: an account is present or absent, its contents are found or missing; accounts are created
  and change, and are not closed. Parsers, events, the second connection of xNFT and the size at
  which a batch is sent early are left out. A caller disposes once. Nothing is claimed about how
  recent the data of a watched account is: the code may overwrite a notification by an older
  answer.
- Sender: one call at a time, on transactions of its own; preflight is skipped, as in every call of
  the code but the bulk sender's last try, whose rejection is `Reject`. Empty groups are left out.
- Bridge: one user, whose signatures are his own, on one page at a time. The token is transferred by the
  page's button or, anywhere, by hand. Ethereum's receipts are final, as the page assumes. Amounts are counted in the least unit a user can
  type; `Exact` is the largest amount that survives `Number` times `10^decimals`, beyond which the API
  throws. Frozen accounts and the co-signer's key are left out.
- Deployment: the initializers' own checks succeed when their accounts are there (other modules model
  them). The distributor's initializer is an older program than the repository's; it takes the mint's
  authority. Nobody closes the bridge between the runs: after `delete_bridge_v0` initializing succeeds again, and
  `FundedOnce` is about the script alone. `RerunCompletes` is about runs without `mintBridge`: one that is given
  it again stops at a bridge that is there.
- Proposals: an instruction has one signer besides the wallet. Both helpers are
  exported and called by nothing in the repository.
- Token helpers: who pays is the wallet; a mint has no decimals; metadata are there or not, verified or not.
- Compressed assets: an asset's content is how often it was changed, so that hashes never collide.
- Amounts: no negative numbers and none that is not finite.

## 3. What the runs show

Runs marked (violation) refute a statement of the repository's comments, assertions or tests (§5).

| run (`.cfg`) | shows |
|---|---|
| `MCMintBreaker` | `SpanBound`: over every span, minted ≤ the largest threshold in force + its decay in the span (+ < 1 token a second of rounding). `NoMintAroundBreaker`: the supply grows only by amounts the window counted. `DeletionIsFinal`: a mint whose breaker is deleted is frozen for ever. `EmptyPercentMintStaysEmpty`. `WindowReopens`: after a whole window every amount within the threshold passes. |
| `MCAccountBreaker` | `SpanBound`, `NoTransferAroundBreaker` (whatever delegate, close authority or re-created account there was) |
| `MCEmissionDistribution` | `FairShares`: a recipient gets its percentage once for each time it is named, at most the largest one where its token account was another's. `PassWithinEpoch`, `EmissionsFollowTheCron`: an epoch's emissions a pass, and a pass for each moment of the cron, with different recipients and token accounts of their own; in any case the largest share for each instruction. `MintIsGuarded` (refinement of `MintBreaker`), `PassCompletes` (liveness) |
| `MCRenderCredits` | `OnlyOutsideCreditsCirculate`, `SoldCreditsStay`, `MintIsGuarded` |
| `MCRenderCreditsPrice` | `DollarEquivalent`, `NothingForFree` |
| `MCRenderCreditsBurn` (violation) | `BurnIsRecorded` |
| `MCAccountFetchCache` | `ListenersMatchWatchers`: one listener for an account that is watched, none for one that is not; `FollowedOrPolled` |
| `MCAccountFetchCacheSettles` | `AskedIsUnderWay`, `SettledOrOvertaken`, `MissingIsNoticed` (liveness) |
| `MCClientCode` | of the sender, `LandsInOrder`: no gap, and nothing after a failure; `ReturnsWhatLanded`: what is returned was executed, one signature a transaction, all of them; `NoTwoAlive`; `BulkEnds` (liveness). Of the helpers, `EffectsAreCounted`: what callers were told and what is unknown add up to what the ledger holds, and an NFT is one for good; `ResolvedAsMeant`; `CodesAreTold`; `ReadsAreConsistent`: a proof is refused only if it was overtaken, accepted only if it was read whole; `UnitsAreKept`: below 2^51 units (scaled) none is lost, and no more is shown than there is. `HandedOverComplete` of the aggregator. Of the page, `MarksAreTrue`: success is real under any overlap, the marks are true of transfers that do not overlap |
| `MCTransactionSenderHang` (violation) | `EveryCallEnds` |
| `MCBridge` | `RequestsMatchBurns`: the page makes a request only for a mined burn, in its amount. `ReleasedIsBurned`: what is released was burned, unless somebody asked by hand for what was no mined burn. `LedgerSpec`: refinement of `BridgeLedger`, whoever asks |
| `MCAdminCli` | `FundedOnce`, `DoneIsDeployed`, `RerunCompletes` (liveness) of the deployment; `ReturnedIsComplete` of the helpers: after a call that was to execute what it proposes, exactly the instructions its filters pass over were not executed |

Type invariants are theorems (`TypeCorrect`, `SenderTypes`, §4) rather than runs. The parts of `ClientCode` but the
sender state none of their own: the types their proofs need are conjuncts of their invariants.

### Bounds

| instance | bounds | why they are enough |
|---|---|---|
| mint, account breaker | u64 of 6 / 5, clock to 6 / 5, two principals, configurations of both threshold types with windows shorter than the clock, and of zero | several mints or transfers fit into a window and more than one window into the clock; sums overflow the u64; shares of a Percent threshold round down; two keys let an authority differ from a stranger |
| emissions | u64 of 470, emissions 5 and 6, splits 60/40, 80/20 with one account twice, and 90/90 (refused), window of 3 s, cron at 1 and 3, `Horizon` 3, clock to 8, no failure of simulation forgiven | cron moments come faster than the window, as in a 28-day month; 80 · 6 overflows; shares round down; a token account given to the other recipient, or to a stranger. After `Horizon` only the thread and the clock go on. A share within the threshold passes once the window is empty; `Payable` asks that the clock's end leaves time for that. How many failures are forgiven makes no difference to what may happen between them: with `MaxFailures = 0` the thread is forgotten at the first, with more a failure may also have no effect |
| credits, custody | two symmetric owners, one price, supply ≤ 3, two purchases in the book, one credit minted by others | transfers, closing and re-creating need two owners; a credit of another minter must be told from a sold one |
| credits, price | one owner, rates 2, 5, 0, −1 with `Factor` 3, u64 of 5, prices usable for 1 s | rates below and above a credit, worthless, and negative after the confidence; two purchases at different rates; quotes expire |
| cache | two accounts (one static), one caller, one request; and one account, two callers, two requests | the first has batches of several keys and answers for part of them; the second has callers sharing a promise and answers in the wrong order. `Requests` is the bound, one request per batch in flight |
| sender | three transactions in batches of two, two tries, blockhashes valid for one more block, a server's up to one block old | a chunk that is not full, a second chunk, a chunk that goes into a second round with some of it confirmed, an expiry between sending and seeing, the last try |
| bridge | two symmetric transfers, 6 tokens, inputs of 2, 3 and 4 with 2 to a whole RNDR, an escrow of 4, packages valid in their block only, two blocks | both transfers overlap, or one is made without the page; an input that is not whole; a burn without the balance, which reverts; an escrow that pays one burn and not both; a package that expires and is asked for again |
| admin | one file, two failures, two runs with `mintBridge`; four lists: of one governance, its treasury, the wallet and a keypair; of two governances and the treasury of a third; of an account a multisig may sign for, twice, with a compute budget; of nobody whose signature is missing; three tries | a failure while an earlier run's transaction is still on its way; an insertion that fails before, and after, another; answers lost in every try but the last, or in all; every kind of signer, found and passed over, by each of the three routes |
| display | three clicks, inputs of 1, 1.5 and 4 counted in halves, a balance of 3 | a transfer that ends before two that overlap; an input that is not whole |
| token helpers | two callers, nine requests, two tries, two faults | both race for one account or one mint; a lost answer and a second race in one history |
| resolution | five instructions, every subset of their accounts named, wallet or not | accounts that are needed before they are resolved, twice in a row; a group of accounts |
| errors | one transaction of up to three instructions, or one of one and one of two, three programs, eleven codes | every table, its ends, 0, and codes beyond |
| assets | trees of depth 2 to 4 with a canopy of none to all, two changes remembered, four made, indexers up to `Lag` behind | proofs are overtaken by one change, by two and by more than the tree remembers, before and after each read |
| amounts | a mantissa of 10 bits, 0 to 2 decimals, one shown, every amount to beyond the mantissa | amounts below and above the exact bound, those that throw; fractions of ten and of a hundred are no floats |
| aggregator | three runs, two faults | overlapping runs, one of which fails with a transaction in flight |

`MaxTime`, `Horizon`, `MaxPurchases`, `MaxOutside`, `MaxAge`, `MaxHeight`, `MaxBridge`, `MaxFaults`, `MaxTries`,
`MaxChanges`, `Lag`, `MaxAmount` and the cache's set `Requests` are the only bounds that the code does not have; they appear in guards by name.
The sender counts blocks only until its blockhash has expired, after which they make no difference.
`CHECK_DEADLOCK FALSE` is set where the system may really stop: the emissions (no further cron moment
and the bounded clock at its end), and everything whose calls are over: the sender, the administration, the
helpers.

### Fairness

- `EmissionDistribution`: `SF(ThreadExec)` and `WF(Tick)`. A worker comes back to an executable thread every few
  slots, and its node does not refuse for ever what the cluster would accept; but the thread is executable only while
  the worker has not given it up, hence strong fairness of an action that `tries <= MaxFailures` guards. The cluster's clock goes on. Kickoffs,
  administration, failures of simulation and `TakeUp` are under no fairness: nobody has to make the workers take a
  thread up again. `PassCompletes` has both in its premise, that the pass stays *payable*
  (breaker present, every token account there and somebody's with a percentage, each share within the threshold) and that the
  thread is taken up again whenever it has been given up (`[]<>(tries = 0)`). Without the second
  a pass that the breaker holds up for longer than the workers' patience stays where it is until the thread's account
  changes or the workers are started again, and no later kickoff comes: TLC refutes the property without it.
- `AccountFetchCache`: `WF` of the batch timer and of the poll interval while it runs (JavaScript
  timers fire), and of the node's reading and answering, one way or the other: a request ends in
  an answer or an error. A caller need never dispose or search again. `MissingIsNoticed` assumes
  in its premise a node that works from some time on, an interval that was not closed, and no caller
  whose own search takes the answer of the poll for itself: an account has one callback.
  A batch that is put off for ever by calls that keep coming within its delay is outside this.
- `TransactionSender`: `WF(NewBlock)`, since the cluster makes blocks, and `WF(Caller)`: the code goes
  on when its await has an answer, and an await of the node ends in an answer or an error. Nothing is
  assumed of landing, of notifications or of the background loop. Under it `BulkEnds` holds, and
  `EveryCallEnds` does not. In `ClientCode` it applies when the sender is the part that is used.
- `Deployment`: `WF(Script)` and `WF(Land)`, since the script goes on and what it waits for lands
  unless it is lost, and `SF(Start(FALSE))`: whoever deploys runs the script again after a failure.
  Failures end after `MaxFaults`: without a run that is not interrupted there is no end.
- The breakers, the credits, the bridge, the proposals and the helpers are checked for safety only and state no
  fairness. The bridge has no liveness to state: nothing resumes a transfer.

## 4. What is proved

Every theorem holds for every value of the constants that satisfies the modules' named
assumptions: any u64, any window, clock, keys, configurations, schedules, splits, prices, callers,
accounts, requests, transactions, batches, tries, transfers and amounts. The assumptions say that addresses
are different, numbers are naturals in range, inputs have their types, callers and
owners are finitely many, an emission schedule has an item, a tree's canopy is no deeper than the tree, calls are
sequences of instructions, that Anchor derives no account a resolver is for, and that floats have the fractions that
tokens' decimals need.

- **`ArithmeticProofs`.** A set of numbers has its minimum, a bounded one its maximum; sorting by ranks is a bijection;
  a sum of naturals is a cardinality (`Total`: each term counted out), which changes by what a term changes, grows with
  its terms, and is what the folds of the community modules compute. Induction over a set being out of reach, these are proved by minimal
  counterexamples: of the subsets of a finite set that could refute a sum's recursion one is the least.
  Of floats: powers of two add their exponents, and what one, two or three roundings, a cut and a rounding to digits
  can lose of an amount in units (`RoundedTwice`, `RoundedThrice`, `CutToUnits`, `DigitsOf...`).
  `DecayStep` bounds what one decay can lose: `w` times the loss is at most
  `(a + w - 1) · e` for an aggregate `a`, `e` seconds and a window of `w` seconds. `SpanStep` (theorem):
  one enforcement keeps `SpanAccounting`; `AccountingIsBudget` turns that into the budget.
- **`MintBreakerProofs`, `AccountBreakerProofs`.** `SpanBound` is not inductive: it says nothing of
  the aggregate that the next call is compared with. `IInv == TypeOK /\ Custody /\ Accounting` adds
  *Accounting* (what the observer saw is still in the aggregate or has decayed at the budgeted pace)
  and *Custody* (while there is a breaker the PDA holds the mint authority, or owns the account with
  no other close authority or delegate). From it: `TypeCorrect`, `SpanIsBounded`,
  `GrowthThroughWindowOnly`, `DeletedForGood`, `ReopensAfterWindow`, `EmptyStaysEmpty`;
  `ShrinksThroughWindowOnly`.
- **`EmissionDistributionProofs`.** `EmissionsImplementMintBreaker`: every step of the programs and
  the thread is a step of `MintBreaker` or leaves its variables alone, so what is proved of a guarded
  mint holds of RNDR. It needs `IInv == Numbers /\ HandedIn`: the schedule and the rewards accounts
  were handed in by somebody, so that the breaker's threshold is a configuration `MintBreaker` knows.
  `SharesAreFair` adds `SharesInv == Books /\ Fresh /\ Fair`: what is remembered of the pass belongs to
  accounts there are, before there is a distributor nobody has anything, and of a running pass every account
  has its share once for each of its turns that are over (`Turns`): its first percentage, or the largest
  at most where its token account was another's (`ExecDraws`, `ExecGot`).
  `EmissionsAreBounded` composes the refinement with `MintBreakerProofs!SpanIsBounded`: that module is
  instantiated with its theorems as `Rndr`, whose assumptions are proved (`RndrAssumptions`), and
  `Same...` say that its definitions are `Breaker`'s. `TypeCorrect` takes the mint's types from there.
  `PassesAreWithinEpoch` needs *Drawn*: what a pass has emitted is at most the largest share of the largest
  item it has met, for each instruction before the current one; and, as long as no account is named twice and none
  was another's, at most the percentages of those before it, which are 100 in sum, so that rounding down cannot
  exceed the item (`EscrowIsOwn`: the percentage that is looked up is then the instruction's own). `EmissionsFollow` adds
  *Followed*: passes that are over, and the one that runs, belong to different moments of the cron, each of which
  has passed.
- **`RenderCreditsProofs`.** `SoldAtTheirWorth`, `NeverForFree`, `SoldCreditsNeverMove`,
  `CreditsImplementMintBreaker` from
  `IInv == Numbers /\ Records /\ Holdings /\ Sealer /\ Booked /\ Worth`. *Booked*: a rate that can
  be used now is in the book, without which `DollarEquivalent` could break at the next purchase.
  *Sealer*: the freeze authority is the program's once it is initialized. `FairForRndr` and
  `FairForCredits` bound the two roundings of one purchase, one for each way of naming the amount.
  `CreditsAreBounded` is the budget of the RC mint, composed as for the emissions.
  `OthersCreditsCirculate`, `CreditsAreConserved` and `TypeCorrect` add
  `Sums == Ledger /\ Conserved /\ Circulating`: the accounts are finitely many, the amounts in them sum up to the supply
  (so none exceeds a u64), and those of the thawed accounts to no more than others have minted.
- **`AccountFetchCacheProofs`.** `ListenersAreKnown`, `WatchersAreServed`, `PromisesAreUnderWay`,
  `TypeCorrect` from one invariant that joins the properties with *Counted*: the number
  kept for an account is the number of callers that hold its dispose. The properties alone do not
  exclude that somebody else's dispose brings the count to zero. Cardinalities come from the
  library's facts on finite sets.
- **`ClientCodeProofs`.** A behaviour of `ClientCode` is a behaviour of every part (`ClientIs...`), so each theorem
  rests on an invariant of one part.
  - *Sender*: `SenderTypes`, `Ordered`, `ReturnsLanded`, `OneAlive`, `SenderInUse` from
    `SenderInv == TypeOK /\ ReturnsWhatLanded /\ NoTwoAlive /\ Chain /\ Serial /\ Bulk`. *Serial*: all of
    a call's transactions have its one blockhash, everything before the current one was executed and
    counted, nothing after it was sent. *Bulk*: what the current chunk still holds is not among the
    returned, and a blockhash older than the round's has expired, without which signing again could
    make a second signature alive.
  - *Token helpers*: `EffectsAreHadOnce`. `TokenInv` says that there is a count `n` of effects such that every supply, and
    every account but the wallet's, is the sum of what its callers asked for, `n` times each (`AddUp`), and that
    `n[c]` and the transactions of `c` still under way are together no more than the transactions it has sent,
    and `n[c]` at least one when it has returned (`Paced`). Neither what was returned nor what is in flight determines `n`: a transaction whose answer was
    lost may have been executed. A step adds one effect or none: `RunDoes` follows a transaction instruction by
    instruction (`DoIs`), knowing that it pays once at most and what its request says (`ScriptIs`). `Sealed` and
    `NftsStay`: of a mint closed by an edition there is one token, whatever helper runs with it.
  - *Account resolution*: `AccountsAreResolved` from `ResolutionInv`: what is in the table is what the caller means by it
    (`Sound`), the resolvers asked in vain since the last find have nothing to give (`Fruitless`), and what is left out
    cannot be derived (`Underivable`).
  - *Error translation*: `CodesKeepTheirValues`; the invariant is that what was thrown is `Parse` of what came, and
    the work is in the case analysis of the tables.
  - *Compressed assets*: `ReadsHold` from `ProofInv`, in which `Read` relates each of the three reads to a version of the tree no older
    than the indexer's lag.
  - *Aggregator*: `HandedOver` from `FeedInv`: a run goes on to a call only when those before it took effect.
  - *Bridge's page*: `MarksOfThePage` from `DisplayInv`, in which `Shown` says what the page's state is of the latest
    transfer as long as none was begun during another one.
  - *Amounts*: `AmountsAreKept`. The invariant is small (what was computed is what the conversions give); the work is
    in what a float is. `FloatIs`: its exponent is the least its mantissa has room for, so that a rounding costs at most
    one part in `2^Mantissa` (`FloatNear`), and a float is not rounded again (`FloatOfFloat`). `IsWorth`: both ways
    of making a number give one that, whole and fraction apart and the fraction rounded once more, is less than half a unit off; three
    roundings of a quarter of a unit would be too many, and it is because the fraction is smaller than the whole it is added
    to that they fit (`RoundedThrice`). `BackAgain` and `ShownIsLess` are toBN and humanReadable. `FloatAssumption` asks that the
    smallest fraction is small enough for the decimals, `10^d * 2^(Mantissa - 1) <= 2^Scale`: with the 53 and 1074 bits of
    ECMAScript's floats, for decimals up to 307. `PowersAssumption` states what is true of powers of ten and the provers do not know: of `x^n`
    with a variable `n` they know only that it is a number. Powers of two are proved (`PowerOfSum`, in
    `ArithmeticProofs`) from the library's count of a set's subsets.
- **`BridgeProofs`.** `RequestsAreHonest`, `ReleasesAreBurned`, `BridgeImplementsLedger` and `TypeCorrect` from
  `IInv == TypeOK /\ RequestsMatchBurns /\ ReleasedIsBurned /\ Signed /\ Held /\ Covered`: what is on its way to Solana is of an
  Ethereum transaction and in its amount, and of a mined burn unless it was asked for by hand when it was none; a package the page
  holds is of its own burn. `SignRefines` and `MintRefines` map the steps that count, a transaction that is signed and one that is
  released, to the ledger's, `OthersStutter` all the others to a stutter.
  The administration: `EscrowIsFundedOnce` and `EndMeansDeployed` from
  `DeployInv == ScriptTypes /\ FundsOnce /\ Authorities /\ GonePast`. *FundsOnce* relates who may still fund the escrow (a
  run at that place, or a transaction in flight) to whether it is funded; *GonePast*: what a run has gone past is
  there. `CallsAreComplete` from
  `CallInv == CallTypes /\ BehindIsDone /\ TokensAreBack /\ AddedInOrder` and `RouteInv`: each helper has its own steps, and everything
  behind the current place is done. `GovernanceReaches` and `OwnReaches` say that what the helpers' filters find
  and what `PassedOver` names are all the instructions, for every list of them.

One thing about the prover had to be worked around in the model: tlapm 1.4.5 reads the second `@` of
`[f EXCEPT ![a] = @ - n, ![b] = @ + n]` as `f[b]`, which is wrong when `a = b`. A transfer of an account to itself is
possible in `TokenHelpers`, whose transfer is therefore two updates, one after the other; the other transfer, in `RenderCredits`, is
between different accounts.

Checked by TLC only: the liveness properties (`PassCompletes`, `SettledOrOvertaken`,
`MissingIsNoticed`, `BulkEnds`, `RerunCompletes`), which are out of the provers' reach. Every invariant and every
action property of the passing runs is a theorem, and so is every refinement.

## 5. Findings

| property | the repository says | the code does |
|---|---|---|
| `EveryCallEnds` | "If you never get anything back, that means it's definitely been dropped" (`transaction.ts:365`), "Timed out awaiting confirmation on transaction" (`transaction.ts:413`) | `finally { done = true; clearTimeout(t) }` (line 281) runs when the subscription is made: neither timeout nor polling is left, and a call whose transaction was dropped waits for ever. (The background loop's own limit compares seconds with a timeout in milliseconds.) |
| `BurnIsRecorded` | `rcBurned` is 1 after a burn (`tests/render-credits.ts:326`) | the counters belong to other programs and stay 0: no reward is ever due |

What the models make visible besides, without a run of its own:

- *Breakers.* Updates store any configuration, a window of zero included, which the initializers refuse
  (`initialize_mint_windowed_breaker_v0.rs:40`); every mint or transfer then fails until the next
  update.
- *Emissions.* A recipient that gives its token account to another one is paid the other's percentage
  from then on, and an account that is named twice is paid its first percentage twice
  (`distribute_emission_v0.rs:103`): such a pass may exceed an epoch's emissions. A pass that the breaker holds up for longer than
  the workers' patience is forgotten, and the passes after it with it, until the thread's account changes (`tx.rs:103`). A month shorter than the breaker's window, or a pass that ran late, makes the breaker
  refuse the next pass until it has decayed, though "this should never get triggered"
  (`initialize_emission_distributor_v0.rs:124`). `schedule.emitted = true`
  (`distribute_emission_v0.rs:134`) is set in an account of another program and not stored: the first
  due item stays in force.
- *Cache.* An entry outlives its watching and answers every later call ("cache for 30s",
  `accountFetchCache.ts:121`). The first subscription of a connection has id 0 and is never given up
  (an exception spelled out in `NothingKeptForNobody`). A search overtaken by a forced requery of the
  same account before its answer never settles (the caller is then `lost`, the one other way a search
  ends in `SettledOrOvertaken`).
- *Sender.* A bulk transaction that was executed and not seen before its blockhash expired is executed
  again; the two are never alive at once, and one signature is returned.
- *Bridge.* The API looks up the transaction, neither its receipt nor its destination (`transfer.ts:66`):
  that what is released was burned depends on who asks, and is so of the page. A burn may be left without a release: the page is closed, a rejected `getBalance` or
  `signMessage` is not caught, the receipt takes longer than web3 waits, or the amount exceeds what the API
  can convert. The API goes on after answering an error, and its second answer throws. An input that is
  not whole throws before anything is burned. The page reports success when the transaction was sent.
- *Deployment.* A run that stops between a mint and its metadata leaves a mint that no later run gives
  metadata (`deploy.ts:164` skips `createAndMint`, which would look for it). A run that stops between
  initializing the bridge and funding it or that is given `mintBridge` after the distributor took the
  mint's authority, leaves an escrow the script never funds; `DoneIsDeployed` says so only of runs
  that end.
- *Display.* A transfer whose packaging failed shows a check at the packaging and the cross at the step after
  it. After a rejected signature, and for an input that is not whole, the spinner turns for ever. Confirmations of an
  earlier burn are shown with a later one's hash. "successfully transferred {erc20ToBurn} {erc20Symbol}!"
  (`index.tsx:420`) tells what the input holds now: type another amount during or after the transfer,
  and that is what was transferred.
- *Token helpers.* Who calls again after an error whose transaction landed mints or transfers twice. `createAta`
  sends an empty transaction when the account is there.
- *Errors.* `errorCode = err.InstructionError[0]` (`anchorError.ts:244`) is the instruction's index, unless a
  code other than 0 takes its place (line 246): an error of the runtime in the second instruction is told
  as the program's error 1. The first error of another program in the transaction is told with the client's message for
  6000.
- *Amounts.* -1.5 is converted to -2.5: the whole part is rounded down, the fraction towards zero. A reader may see one or
  two of the last digit less than there is (29 units of a token of 2 decimals are shown as 0.28). A token of fewer decimals than the four
  that are shown may be shown with digits it does not have once there are more of them than a mantissa tells: `NeverOverstated` is
  bounded by the digits, too. Of a token of 16 decimals or more neither way works, since `10^16` is no BN
  (`utils.ts:25`, `utils.ts:47`). 2^51 units are 22.5 million tokens of 8 decimals, less than
  RNDR's supply.
- *Compressed assets.* A listing is undefined when the answer tells of an error in its body (`mplAssetAPI.ts:161`, 204).
- *Aggregator.* Run again after it stopped between its calls, the function returns the key of a feed without
  history and authority, and does not go on.
- *Proposals.* Without `executeProposal` a proposal that lost insertions is signed off for others to
  vote on, and the call returns. An instruction signed by a given keypair, by an account the governance program
  does not own, or by a native treasury whose governance signs nothing itself is in no proposal (`utils.ts:323`) and not
  among those sent at the end. A lost answer of `addInstruction` puts an instruction into the
  multisig's transaction twice. The lookup table made for a large insertion is never closed: the
  instruction that would is built and not sent (`utils.ts:490`).

## 6. Plan

Done, in this order: `Window`, the two breakers, `EmissionDistribution`, `RenderCredits`,
`AccountFetchCache`, `TransactionSender`, `Bridge` with `BridgeLedger`, each with its proofs;
`Deployment`, `Proposals` and `AdminCli`; in `ClientCode`, the helpers (`TokenHelpers`, `AccountResolution`, `ErrorTranslation`,
`AssetProof`, `Amounts`), `Aggregator` and `BridgeDisplay`. What could follow:

1. `PriceOracle`: quorum and median against a reference definition on bounded inputs; the price that
   stays without quorum; oracles replaced while others submit by index.
2. The distribution of burn rewards, once its counters are raised.

## 7. Not modelled

- The price oracle: no program of the repository reads it (credits are priced by Pyth), and what it
  computes is one sequential function of one account.
- The distribution of burn rewards: as the code stands it can pay nothing, for the counters it divides
  by stay 0 and the thread cannot sign for the owner.
- Of the administration the command's options, `createCloseBufferInstruction` and
  `parseEmissionsSchedule`, which nothing calls; of the bridge's page connecting wallets and layout; of the sender
  `simulateTransaction` and two conversions; of spl-utils Helium addresses, the extension of the
  serializer and constants, and the listings of `mplAssetAPI.ts`, each one request for one page by a caller that
  is not in the repository.
- `shared-utils` (no program calls it); of the SDK packages derivations of addresses and constants; the IDLs and
  contract types (generated), the Ethereum test contracts, and everything in `deps/` but the
  Clockwork thread, to the extent the distributor depends on it. The generated types alone are more than
  half of the repository's TypeScript and contain nothing a model could say something about.
