----------------------------- MODULE MintBreaker -----------------------------
(***************************************************************************)
(* The circuit-breaker program guarding one mint: the breaker account      *)
(* (a PDA derived from the mint, so there is one per mint), the mint it    *)
(* takes over, and the chain's clock.  Every instruction is one atomic     *)
(* transaction: a failing check aborts it and changes nothing.             *)
(***************************************************************************)
EXTENDS Window

CONSTANTS
  Principals,  \* keys that can sign a transaction
  Pda,         \* the breaker's program-derived address: it signs only for mint_v0
  None,        \* no account, and the absent value of an Option argument
  Configs,     \* the configurations an initializer or an update may pass
  Amounts,     \* the amounts of tokens a transaction may mint or burn
  MaxTime      \* bound of the model: the last second of the clock

ASSUME PdaAssumption == Pda \notin Principals /\ None \notin Principals \cup {Pda}
ASSUME ConfigsAssumption == Configs \subseteq ConfigType /\ None \notin Configs
ASSUME AmountsAssumption == Amounts \subseteq U64
ASSUME MaxTimeAssumption == MaxTime \in Nat

VARIABLES
  now,             \* Clock::get()?.unix_timestamp
  supply,          \* mint.supply
  mint_authority,  \* the mint's MintTokens authority, kept by the token program
  breaker,         \* the MintWindowedCircuitBreakerV0 account, or None
  obs              \* history: the observer of Window

vars == <<now, supply, mint_authority, breaker, obs>>

BreakerType ==
  [authority: Principals, mint_authority: Principals,
   config: ConfigType, last_window: WindowType]

ASSUME NoneAssumption == None \notin BreakerType

TypeOK ==
  /\ now \in Nat
  /\ supply \in U64
  /\ mint_authority \in Principals \cup {Pda}
  /\ breaker \in BreakerType \cup {None}
  /\ obs \in ObservationType

Init ==
  /\ now = 0
  /\ supply = 0
  /\ mint_authority \in Principals
  /\ breaker = None
  /\ obs = NothingSeen

-----------------------------------------------------------------------------
(* The program's instructions *)

\* Plausible slips: the CPI is left out, or the signer is not checked.
HandOverForgotten(signer) == signer = mint_authority /\ UNCHANGED mint_authority
HandOverUnsigned(signer) == mint_authority' = Pda

\* spl-token set_authority of MintTokens to the PDA: it needs the signature of the
\* mint's current authority, which the PDA itself gives to nobody.
HandOver(signer) == signer = mint_authority /\ mint_authority' = Pda

\* Anchor's `init' refuses a mint that has its breaker.
InitializeMintWindowedBreakerV0(signer, authority, new_mint_authority, config) ==
  /\ breaker = None
  /\ IsValid(config)
  /\ breaker' = [authority |-> authority, mint_authority |-> new_mint_authority,
                 config |-> config, last_window |-> FreshWindow]
  /\ HandOver(signer)
  /\ obs' = NothingSeen
  /\ UNCHANGED <<now, supply>>

\* The window is enforced on the supply before the mint; then the token program
\* mints with the PDA's signature, and refuses to overflow the supply.
MintV0(signer, amount) ==
  /\ breaker # None
  /\ signer = breaker.mint_authority
  /\ Enforceable(breaker.config, breaker.last_window, amount, supply, now)
  /\ mint_authority = Pda
  /\ supply + amount <= U64Max
  /\ breaker' = [breaker EXCEPT !.last_window =
                   EnforcedWindow(breaker.config, @, amount, now)]
  /\ supply' = supply + amount
  /\ obs' = Seeing(obs, amount, GetThreshold(breaker.config, supply), now)
  /\ UNCHANGED <<now, mint_authority>>

Given(option, current) == IF option = None THEN current ELSE option

\* Nothing here asks config.is_valid().
UpdateMintWindowedBreakerV0(signer, new_authority, new_mint_authority, config) ==
  /\ breaker # None
  /\ signer = breaker.authority
  /\ breaker' = [breaker EXCEPT
                   !.authority      = Given(new_authority, @),
                   !.mint_authority = Given(new_mint_authority, @),
                   !.config         = Given(config, @)]
  /\ obs' = IF config = None THEN obs ELSE NothingSeen
  /\ UNCHANGED <<now, supply, mint_authority>>

\* The account is closed; the mint keeps the PDA as its authority.
DeleteMintWindowedCircuitBreakerV0(signer) ==
  /\ breaker # None
  /\ signer = breaker.authority
  /\ breaker' = None
  /\ obs' = NothingSeen
  /\ UNCHANGED <<now, supply, mint_authority>>

-----------------------------------------------------------------------------
(* What happens around the program *)

\* spl-token mint_to, signed by the mint's authority: before the hand-over.
MintToDirectly(signer, amount) ==
  /\ signer = mint_authority
  /\ supply + amount <= U64Max
  /\ supply' = supply + amount
  /\ UNCHANGED <<now, mint_authority, breaker, obs>>

\* spl-token burn, signed by a holder.
Burn(amount) ==
  /\ amount <= supply
  /\ supply' = supply - amount
  /\ UNCHANGED <<now, mint_authority, breaker, obs>>

\* The cluster's clock never runs backwards.
Tick ==
  /\ now < MaxTime
  /\ now' = now + 1
  /\ UNCHANGED <<supply, mint_authority, breaker, obs>>

\* The observer starts afresh.
Observe ==
  /\ obs' = NothingSeen
  /\ UNCHANGED <<now, supply, mint_authority, breaker>>

Next ==
  \/ \E s, a, m \in Principals, c \in Configs :
       InitializeMintWindowedBreakerV0(s, a, m, c)
  \/ \E s \in Principals, n \in Amounts : MintV0(s, n)
  \/ \E s \in Principals, a, m \in Principals \cup {None}, c \in Configs \cup {None} :
       UpdateMintWindowedBreakerV0(s, a, m, c)
  \/ \E s \in Principals : DeleteMintWindowedCircuitBreakerV0(s)
  \/ \E s \in Principals, n \in Amounts : MintToDirectly(s, n)
  \/ \E n \in Amounts : Burn(n)
  \/ Tick
  \/ Observe

Spec == Init /\ [][Next]_vars

-----------------------------------------------------------------------------
(* Properties *)

\* "prevents large movements of tokens" (README.md): over any span of time under
\* one configuration, the breaker mints at most the largest threshold in force
\* plus what that threshold decays by in the span.  Re-basing the decay at every
\* mint, rounding it down, and a Percent threshold that moves with the supply
\* must not add up to more.
SpanBound ==
  obs.passed > 0 =>
    LET w == breaker.config.window_size_seconds
    IN w * obs.passed
         <= Budget(w, obs.cap, breaker.last_window.last_unix_timestamp - obs.since)

\* From the moment a mint has its breaker, its supply grows only by amounts the
\* window has counted, in full and at the current time (mint_v0, the hand-over in
\* the initializer).
GrowsThroughWindow ==
  breaker # None /\ supply' > supply =>
    /\ breaker' # None
    /\ breaker'.last_window.last_unix_timestamp = now
    /\ breaker'.last_window.last_aggregated_value >= supply' - supply

NoMintAroundBreaker == [][GrowsThroughWindow]_vars

\* Deleting the breaker of a mint is final: the PDA stays the mint's authority,
\* no breaker can be set up again and the supply never grows any more
\* (delete_mint_windowed_circuit_breaker_v0, the initializer's set_authority).
OrphanStaysOrphan ==
  breaker = None /\ mint_authority = Pda =>
    breaker' = None /\ mint_authority' = Pda /\ supply' <= supply

DeletionIsFinal == [][OrphanStaysOrphan]_vars

\* A Percent threshold of an empty supply is zero: a mint handed over empty stays
\* empty until its breaker is given another configuration (get_threshold).
EmptyPercentMintStaysEmpty ==
  [][/\ breaker # None
     /\ breaker.config.threshold_type = "Percent"
     /\ supply = 0
     => supply' = 0]_vars

\* "Wait til the window passes" (tests/circuit-breaker.ts): a whole window after
\* the last mint, every amount within the threshold can be minted again.
WindowReopens ==
  /\ breaker # None
  /\ IsValid(breaker.config)
  /\ now - breaker.last_window.last_unix_timestamp
       >= breaker.config.window_size_seconds
  => \A amount \in 0 .. GetThreshold(breaker.config, supply) :
       Enforceable(breaker.config, breaker.last_window, amount, supply, now)
=============================================================================
