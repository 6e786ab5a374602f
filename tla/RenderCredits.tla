---------------------------- MODULE RenderCredits ----------------------------
(***************************************************************************)
(* The render-credits program: it sells render credits (RC) for burned     *)
(* RNDR at the price of a Pyth feed, mints them through the circuit        *)
(* breaker of the RC mint (MintBreaker, instantiated as Breaker) and keeps *)
(* every account it touches frozen, so that credits cannot be traded.      *)
(* Around it: the token program, the oracle, the breaker's authority and   *)
(* the burn-rewards accounts burn_render_credits_v0 asks for.              *)
(*                                                                         *)
(* A rate is the price of one unit of RNDR in units of a credit, times     *)
(* Factor (decimals_factor, 10^11 for the deployed mints and feed).        *)
(***************************************************************************)
EXTENDS Window, FiniteSets, Functions

CONSTANTS
  Keys,        \* keys that can sign a transaction
  Credits,     \* the render-credits program-derived address
  Pda,         \* the mint breaker's program-derived address
  None,        \* no account, and the absent value of an Option argument
  Owners,      \* the owners of credit accounts
  Oracles,     \* the accounts that may be named as the price oracle
  Prices,      \* what Pyth may publish: [price, conf]
  Factor,      \* decimals_factor
  MaxAge,      \* the oldest price that is accepted, 10 minutes
  Configs,     \* the breaker configurations an initializer or an update may pass
  Amounts,     \* the amounts a transaction may name
  Starts,      \* the start times of the emission schedule's items
  Rndr,        \* the RNDR that buyers hold at first
  MaxPurchases,\* bound of the model: the purchases the book counts
  MaxOutside,  \* bound of the model: the credits minted by others than the program
  MaxTime      \* bound of the model: the last second of the clock

ASSUME AddressAssumption ==
  /\ Pda \notin Keys \cup {Credits}
  /\ Credits \notin Keys
  /\ None \notin Keys \cup {Pda, Credits} \cup Oracles \cup Configs
ASSUME PricesAssumption == Prices \subseteq [price: Int, conf: Nat]
ASSUME NumbersAssumption ==
  /\ Factor \in Nat \ {0} /\ MaxAge \in Nat /\ MaxTime \in Nat
  /\ MaxPurchases \in Nat /\ MaxOutside \in Nat
  /\ Amounts \subseteq U64 /\ Rndr \in U64 /\ Configs \subseteq ConfigType

VARIABLES
  now, supply, mint_authority, breaker, obs,  \* of MintBreaker, for the RC mint
  freeze_authority,  \* the RC mint's FreezeAccount authority
  render_credits,    \* the RenderCreditsV0 account, or None
  accounts,          \* the credit account of every owner that has one
  rndr,              \* the RNDR in the hands of buyers
  quotes,            \* what every oracle account holds: a Pyth price, or None
  rewards,           \* rc_burned of every item, for every owner with a BurnRewardsV0
  book,              \* history: what was bought since the book was opened, and the rates
  outside            \* history: the credits minted by others than this program

breakerVars == <<now, supply, mint_authority, breaker, obs>>
vars == <<breakerVars, freeze_authority, render_credits, accounts, rndr, quotes,
          rewards, book, outside>>

Breaker == INSTANCE MintBreaker WITH Principals <- Keys \cup {Credits}, Amounts <- U64

RenderCreditsType == [authority: Keys, rndr_price_oracle: Oracles]
AccountType == [amount: U64, frozen: BOOLEAN]
QuoteType == [price: Int, conf: Nat, publish_time: Nat]
BookType == [burned: Nat, credited: Nat, purchases: Nat, rates: SUBSET Nat]

ASSUME AbsentAssumption == None \notin RenderCreditsType \cup QuoteType \cup Breaker!BreakerType

TypeOK ==
  /\ Breaker!TypeOK
  /\ freeze_authority \in Keys \cup {Credits}
  /\ render_credits \in RenderCreditsType \cup {None}
  /\ DOMAIN accounts \subseteq Owners /\ \A o \in DOMAIN accounts : accounts[o] \in AccountType
  /\ rndr \in U64
  /\ quotes \in [Oracles -> QuoteType \cup {None}]
  /\ DOMAIN rewards \subseteq Owners /\ \A o \in DOMAIN rewards : rewards[o] \in [DOMAIN Starts -> U64]
  /\ book \in BookType
  /\ outside \in Nat

OpenedBook(rates) == [burned |-> 0, credited |-> 0, purchases |-> 0, rates |-> rates]

Init ==
  /\ Breaker!Init
  /\ mint_authority \in Keys
  /\ freeze_authority \in Keys
  /\ render_credits = None
  /\ accounts = [o \in {} |-> [amount |-> 0, frozen |-> FALSE]]
  /\ rndr = Rndr
  /\ quotes = [oracle \in Oracles |-> None]
  /\ rewards = [o \in {} |-> [i \in DOMAIN Starts |-> 0]]
  /\ book = OpenedBook({})
  /\ outside = 0

-----------------------------------------------------------------------------
(* The price *)

\* A plausible slip: the age of the price is not looked at.
AnyAge(quote, t) == quote # None

Fresh(quote, t) == quote # None /\ t - quote.publish_time <= MaxAge

\* The price less twice its confidence.
Rate(quote) == quote.price - 2 * quote.conf

\* The handler's arithmetic: a price that is not positive is refused, and the rate
\* is converted to a u128, which panics below zero.
Priced(quote) == Fresh(quote, now) /\ quote.price > 0 /\ Rate(quote) >= 0

CreditsFor(rndr_amount, rate) == (rndr_amount * rate) \div Factor

\* A plausible slip: the division is the wrong way up.
RndrForUpsideDown(rc_amount, rate) == (rc_amount * rate) \div Factor

RndrFor(rc_amount, rate) == (rc_amount * Factor) \div rate

Live(quote, t) == quote # None /\ t - quote.publish_time <= MaxAge /\ Rate(quote) >= 0

LiveRates == {Rate(quotes[oracle]) : oracle \in {x \in Oracles : Live(quotes[x], now)}}

-----------------------------------------------------------------------------
(* The program's instructions *)

\* The breaker takes the mint over, the program its freeze authority; the oracle
\* must hold a price, of any age.
InitializeRenderCreditsV0(minter, freezer, authority, oracle, config) ==
  /\ render_credits = None
  /\ quotes[oracle] # None
  /\ Breaker!InitializeMintWindowedBreakerV0(minter, authority, Credits, config)
  /\ freezer = freeze_authority
  /\ freeze_authority' = Credits
  /\ render_credits' = [authority |-> authority, rndr_price_oracle |-> oracle]
  /\ UNCHANGED <<accounts, rndr, quotes, rewards, book, outside>>

\* The new oracle is not looked at.
UpdateRenderCreditsV0(signer, new_authority, new_oracle) ==
  /\ render_credits # None
  /\ signer = render_credits.authority
  /\ render_credits' =
       [authority         |-> Breaker!Given(new_authority, render_credits.authority),
        rndr_price_oracle |-> Breaker!Given(new_oracle, render_credits.rndr_price_oracle)]
  /\ UNCHANGED <<breakerVars, freeze_authority, accounts, rndr, quotes, rewards, book, outside>>

Held(owner) == IF owner \in DOMAIN accounts THEN accounts[owner].amount ELSE 0

With(owner, account) ==
  [o \in DOMAIN accounts \cup {owner} |-> IF o = owner THEN account ELSE accounts[o]]

\* A plausible slip: the account is left as thawed as the token program needs it.
AccountLeftThawed(owner, amount) == With(owner, [amount |-> amount, frozen |-> FALSE])

\* init_if_needed, thaw_account when it is frozen, the mint or burn, freeze_account.
SealedWith(owner, amount) == With(owner, [amount |-> amount, frozen |-> TRUE])

\* A plausible slip: mint_to of the token program instead of mint_v0.
ExchangeAroundBreaker(recipient, rndr_amount, dc_amount) ==
  /\ rndr_amount <= rndr
  /\ supply + dc_amount <= U64Max
  /\ rndr' = rndr - rndr_amount
  /\ supply' = supply + dc_amount
  /\ accounts' = SealedWith(recipient, Held(recipient) + dc_amount)
  /\ book' = [book EXCEPT !.burned = @ + rndr_amount, !.credited = @ + dc_amount,
                          !.purchases = @ + 1]
  /\ UNCHANGED <<now, mint_authority, breaker, obs, freeze_authority, render_credits,
                 quotes, rewards, outside>>

\* The part both kinds of purchase share: burn RNDR, mint credits through the
\* breaker, freeze the recipient.  Anyone may pay for any recipient.
Exchange(recipient, rndr_amount, dc_amount) ==
  /\ freeze_authority = Credits
  /\ dc_amount <= U64Max
  /\ rndr_amount <= rndr
  /\ rndr' = rndr - rndr_amount
  /\ Breaker!MintV0(Credits, dc_amount)
  /\ accounts' = SealedWith(recipient, Held(recipient) + dc_amount)
  /\ book' = [book EXCEPT !.burned = @ + rndr_amount, !.credited = @ + dc_amount,
                          !.purchases = @ + 1]
  /\ UNCHANGED <<freeze_authority, render_credits, quotes, rewards, outside>>

\* rndr_amount is given; a rate of zero sells nothing for it.
MintForRndr(recipient, rndr_amount) ==
  /\ render_credits # None
  /\ LET quote == quotes[render_credits.rndr_price_oracle]
     IN /\ Priced(quote)
        /\ Exchange(recipient, rndr_amount, CreditsFor(rndr_amount, Rate(quote)))

\* rc_amount is given; checked_div refuses a rate of zero.
MintForCredits(recipient, rc_amount) ==
  /\ render_credits # None
  /\ LET quote == quotes[render_credits.rndr_price_oracle]
     IN /\ Priced(quote)
        /\ Rate(quote) # 0
        /\ Exchange(recipient, RndrFor(rc_amount, Rate(quote)), rc_amount)

MintRenderCreditsV0(recipient, rndr_amount, rc_amount) ==
  /\ book.purchases < MaxPurchases
  /\ \/ rndr_amount # None /\ rc_amount = None /\ MintForRndr(recipient, rndr_amount)
     \/ rndr_amount = None /\ rc_amount # None /\ MintForCredits(recipient, rc_amount)

\* A plausible slip: the burner is thawed for the burn and not frozen again.
BurnLeavingThawed(owner, amount) ==
  /\ render_credits # None
  /\ owner \in DOMAIN rewards
  /\ amount <= Held(owner)
  /\ Breaker!Burn(amount)
  /\ accounts' = AccountLeftThawed(owner, Held(owner) - amount)
  /\ UNCHANGED <<freeze_authority, render_credits, rndr, quotes, rewards, book, outside>>

\* The counters rc_burned and total_rc_burned are raised in accounts of other
\* programs, which Anchor does not store.
BurnRenderCreditsV0(owner, amount) ==
  /\ render_credits # None
  /\ owner \in DOMAIN rewards
  /\ freeze_authority = Credits
  /\ amount <= Held(owner)
  /\ Breaker!Burn(amount)
  /\ accounts' = SealedWith(owner, Held(owner) - amount)
  /\ UNCHANGED <<freeze_authority, render_credits, rndr, quotes, rewards, book, outside>>

\* initialize_burn_rewards_v0, which makes the account once: its thread exists then.
InitializeBurnRewardsV0(owner) ==
  /\ owner \notin DOMAIN rewards
  /\ rewards' = [o \in DOMAIN rewards \cup {owner} |->
                   IF o = owner THEN [i \in DOMAIN Starts |-> 0] ELSE rewards[o]]
  /\ UNCHANGED <<breakerVars, freeze_authority, render_credits, accounts, rndr, quotes,
                 book, outside>>

-----------------------------------------------------------------------------
(* The token program *)

Thawed(owner) == owner \in DOMAIN accounts /\ ~accounts[owner].frozen

CreateAccount(owner) ==
  /\ owner \notin DOMAIN accounts
  /\ accounts' = With(owner, [amount |-> 0, frozen |-> FALSE])
  /\ UNCHANGED <<breakerVars, freeze_authority, render_credits, rndr, quotes, rewards,
                 book, outside>>

\* An empty account can be closed, a frozen one as well.
CloseAccount(owner) ==
  /\ owner \in DOMAIN accounts
  /\ accounts[owner].amount = 0
  /\ accounts' = [o \in DOMAIN accounts \ {owner} |-> accounts[o]]
  /\ UNCHANGED <<breakerVars, freeze_authority, render_credits, rndr, quotes, rewards,
                 book, outside>>

Transfer(from, to, amount) ==
  /\ from # to
  /\ Thawed(from) /\ Thawed(to)
  /\ amount <= accounts[from].amount
  /\ accounts' = [accounts EXCEPT ![from].amount = @ - amount, ![to].amount = @ + amount]
  /\ UNCHANGED <<breakerVars, freeze_authority, render_credits, rndr, quotes, rewards,
                 book, outside>>

BurnDirectly(owner, amount) ==
  /\ Thawed(owner)
  /\ amount <= accounts[owner].amount
  /\ Breaker!Burn(amount)
  /\ accounts' = [accounts EXCEPT ![owner].amount = @ - amount]
  /\ UNCHANGED <<freeze_authority, render_credits, rndr, quotes, rewards, book, outside>>

\* mint_to by the mint's authority, or mint_v0 by whoever the breaker's authority
\* named as the one to call it: a frozen account takes no credits.
MintAround(signer, owner, amount) ==
  /\ Thawed(owner)
  /\ outside + amount <= MaxOutside
  /\ Breaker!MintToDirectly(signer, amount) \/ Breaker!MintV0(signer, amount)
  /\ accounts' = [accounts EXCEPT ![owner].amount = @ + amount]
  /\ outside' = outside + amount
  /\ UNCHANGED <<freeze_authority, render_credits, rndr, quotes, rewards, book>>

\* freeze_account and thaw_account, signed by the freeze authority.
FreezeDirectly(signer, owner) ==
  /\ signer = freeze_authority
  /\ owner \in DOMAIN accounts
  /\ accounts' = [accounts EXCEPT ![owner].frozen = ~@]
  /\ UNCHANGED <<breakerVars, freeze_authority, render_credits, rndr, quotes, rewards,
                 book, outside>>

-----------------------------------------------------------------------------
(* The oracle, the breaker's authority, the clock and the observer *)

Publish(oracle, p) ==
  /\ quotes' = [quotes EXCEPT ![oracle] =
                  [price |-> p.price, conf |-> p.conf, publish_time |-> now]]
  /\ book' = [book EXCEPT !.rates = @ \cup ({Rate(p)} \cap Nat)]
  /\ UNCHANGED <<breakerVars, freeze_authority, render_credits, accounts, rndr, rewards, outside>>

UpdateBreaker(signer, new_mint_authority, config) ==
  /\ Breaker!UpdateMintWindowedBreakerV0(signer, None, new_mint_authority, config)
  /\ UNCHANGED <<freeze_authority, render_credits, accounts, rndr, quotes, rewards, book, outside>>

DeleteBreaker(signer) ==
  /\ Breaker!DeleteMintWindowedCircuitBreakerV0(signer)
  /\ UNCHANGED <<freeze_authority, render_credits, accounts, rndr, quotes, rewards, book, outside>>

Tick ==
  /\ Breaker!Tick
  /\ UNCHANGED <<freeze_authority, render_credits, accounts, rndr, quotes, rewards, book, outside>>

\* The book is opened anew: the rates that count are those that can be used now.
OpenBook ==
  /\ book.purchases > 0
  /\ Breaker!Observe
  /\ book' = OpenedBook(LiveRates)
  /\ UNCHANGED <<freeze_authority, render_credits, accounts, rndr, quotes, rewards, outside>>

Administration ==
  \/ \E m, f, a \in Keys, oracle \in Oracles, c \in Configs :
       InitializeRenderCreditsV0(m, f, a, oracle, c)
  \/ \E s \in Keys, a \in Keys \cup {None}, oracle \in Oracles \cup {None} :
       UpdateRenderCreditsV0(s, a, oracle)
  \/ \E s \in Keys, m \in Keys \cup {Credits, None}, c \in Configs \cup {None} :
       UpdateBreaker(s, m, c)
  \/ \E s \in Keys : DeleteBreaker(s)

TokenProgram ==
  \/ \E o \in Owners : CreateAccount(o) \/ CloseAccount(o)
  \/ \E o, p \in Owners, n \in Amounts : Transfer(o, p, n)
  \/ \E o \in Owners, n \in Amounts : BurnDirectly(o, n)
  \/ \E s \in Keys, o \in Owners, n \in Amounts : MintAround(s, o, n)
  \/ \E s \in Keys, o \in Owners : FreezeDirectly(s, o)

Next ==
  \/ Administration
  \/ TokenProgram
  \/ \E o \in Owners, r, c \in Amounts \cup {None} : MintRenderCreditsV0(o, r, c)
  \/ \E o \in Owners, n \in Amounts : BurnRenderCreditsV0(o, n)
  \/ \E o \in Owners : InitializeBurnRewardsV0(o)
  \/ \E oracle \in Oracles, p \in Prices : Publish(oracle, p)
  \/ Tick
  \/ OpenBook

Spec == Init /\ [][Next]_vars

-----------------------------------------------------------------------------
(* Properties *)

\* The README's "burns RNDR for RC at a dollar-equivalent value": over any span of
\* time, the credits sold are worth what was burned for them, at rates that were
\* quoted in the span or at most MaxAge before it, up to one unit rounded away per
\* purchase, on either side (mint_render_credits_v0).
DollarEquivalent ==
  book.purchases > 0 =>
    /\ \E high \in book.rates :
         book.credited * Factor <= (book.burned + book.purchases) * high
    /\ \E low \in book.rates :
         book.burned * low <= (book.credited + book.purchases) * Factor

\* As long as a unit of RNDR is worth no more than a credit, no rounding ever gives
\* a credit for less than a unit of RNDR, whichever amount the buyer names.
NothingForFree ==
  (\A rate \in book.rates : rate <= Factor) => book.credited <= book.burned

Balances == [o \in DOMAIN accounts |-> accounts[o].amount]

\* What the program sells stays frozen: all the credits that can change hands were
\* minted by others, before the hand-over or by a key the breaker's authority put
\* in the program's place (thaw_account and freeze_account in both handlers).
OnlyOutsideCreditsCirculate ==
  SumFunctionOnSet(Balances, {o \in DOMAIN accounts : Thawed(o)}) <= outside

\* Once the program runs, a frozen account that holds credits stays so until they
\* are burned, and its holdings change only as the supply does (mint_render_credits_v0,
\* burn_render_credits_v0): no transfer, no thaw and no close in between.
CreditsStay ==
  render_credits # None =>
    \A o \in DOMAIN accounts :
      accounts[o].frozen /\ accounts[o].amount > 0 =>
        /\ o \in DOMAIN accounts'
        /\ accounts'[o].frozen
        /\ \/ accounts'[o].amount = accounts[o].amount
           \/ accounts'[o].amount - accounts[o].amount = supply' - supply

SoldCreditsStay == [][CreditsStay]_vars

\* What MintBreaker promises of a mint is promised of the RC mint.
MintIsGuarded == Breaker!Spec

\* tests/render-credits.ts: a burn of one credit by an owner with burn rewards raises
\* rcBurned of an item that has started by one.
BurnIsRecorded ==
  [][\A o \in DOMAIN rewards, n \in Amounts :
       /\ n > 0
       /\ supply' = supply - n
       /\ o \in DOMAIN accounts /\ o \in DOMAIN accounts' /\ accounts'[o].frozen
       /\ accounts'[o].amount = accounts[o].amount - n
       => \E i \in DOMAIN Starts :
            Starts[i] <= now /\ rewards'[o][i] = rewards[o][i] + n]_vars
=============================================================================
