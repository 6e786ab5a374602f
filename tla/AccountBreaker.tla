--------------------------- MODULE AccountBreaker ---------------------------
(***************************************************************************)
(* The circuit-breaker program guarding one token account: the breaker     *)
(* (a PDA derived from the account's address), the token account it takes  *)
(* over, and the chain's clock.  The token account lives in the token      *)
(* program, which knows three ways around an owner: a close authority, a   *)
(* delegate, and closing an empty account so that its address (an          *)
(* associated token account's is derived from a wallet) can be created     *)
(* anew.  The initializer must leave none of them open.                    *)
(***************************************************************************)
EXTENDS Window

CONSTANTS
  Principals,  \* keys that can sign a transaction
  Pda,         \* the breaker's program-derived address: it signs only for transfer_v0
  None,        \* no account, no authority, and the absent value of an Option
  Configs,     \* the configurations an initializer or an update may pass
  MaxTime      \* bound of the model: the last second of the clock

ASSUME PdaAssumption == Pda \notin Principals /\ None \notin Principals \cup {Pda}
ASSUME ConfigsAssumption == Configs \subseteq ConfigType /\ None \notin Configs
ASSUME MaxTimeAssumption == MaxTime \in Nat

VARIABLES
  now,            \* Clock::get()?.unix_timestamp
  token_account,  \* the guarded spl-token account, or None
  breaker,        \* the AccountWindowedCircuitBreakerV0 account, or None
  obs             \* history: the observer of Window

vars == <<now, token_account, breaker, obs>>

TokenAccountType ==
  [amount: U64, owner: Principals \cup {Pda},
   close_authority: Principals \cup {Pda, None}, delegate: Principals \cup {None}]

BreakerType ==
  [authority: Principals, owner: Principals,
   config: ConfigType, last_window: WindowType]

ASSUME NoneAssumption == None \notin TokenAccountType \cup BreakerType

TypeOK ==
  /\ now \in Nat
  /\ token_account \in TokenAccountType \cup {None}
  /\ breaker \in BreakerType \cup {None}
  /\ obs \in ObservationType

Init ==
  /\ now = 0
  /\ token_account = None
  /\ breaker = None
  /\ obs = NothingSeen

-----------------------------------------------------------------------------
(* The token program, as far as a token account's control goes *)

\* The key that may close the account: its close authority, or else its owner.
Closer == IF token_account.close_authority = None
          THEN token_account.owner
          ELSE token_account.close_authority

CreateAccount(owner) ==
  /\ token_account = None
  /\ token_account' = [amount |-> 0, owner |-> owner,
                       close_authority |-> None, delegate |-> None]
  /\ UNCHANGED <<now, breaker, obs>>

CloseAccount(signer) ==
  /\ token_account # None
  /\ token_account.amount = 0
  /\ signer = Closer
  /\ token_account' = None
  /\ UNCHANGED <<now, breaker, obs>>

SetCloseAuthority(signer, new_authority) ==
  /\ token_account # None
  /\ signer = Closer
  /\ token_account' = [token_account EXCEPT !.close_authority = new_authority]
  /\ UNCHANGED <<now, breaker, obs>>

Approve(signer, delegate) ==
  /\ token_account # None
  /\ signer = token_account.owner
  /\ token_account' = [token_account EXCEPT !.delegate = delegate]
  /\ UNCHANGED <<now, breaker, obs>>

\* Anyone may send tokens to the account; its owner and its delegate may send
\* tokens from it.
Deposit(amount) ==
  /\ token_account # None
  /\ token_account.amount + amount <= U64Max
  /\ token_account' = [token_account EXCEPT !.amount = @ + amount]
  /\ UNCHANGED <<now, breaker, obs>>

TransferDirectly(signer, amount) ==
  /\ token_account # None
  /\ signer \in {token_account.owner, token_account.delegate}
  /\ amount <= token_account.amount
  /\ token_account' = [token_account EXCEPT !.amount = @ - amount]
  /\ UNCHANGED <<now, breaker, obs>>

-----------------------------------------------------------------------------
(* The program's instructions *)

\* A plausible slip: the close authority is left alone.
HandOverOwnerOnly(signer) ==
  /\ signer = token_account.owner
  /\ token_account' = [token_account EXCEPT !.owner = Pda, !.delegate = None]

\* Two set_authority calls signed by the owner: CloseAccount, which the token
\* program accepts only from the account's closer, then AccountOwner, which also
\* drops a delegate.
HandOver(signer) ==
  /\ signer = Closer
  /\ signer = token_account.owner
  /\ token_account' = [token_account EXCEPT
                         !.close_authority = Pda, !.owner = Pda, !.delegate = None]

\* The breaker's owner is an argument, not the owner who signs.
InitializeAccountWindowedBreakerV0(signer, authority, owner, config) ==
  /\ breaker = None
  /\ token_account # None
  /\ signer = token_account.owner
  /\ IsValid(config)
  /\ breaker' = [authority |-> authority, owner |-> owner,
                 config |-> config, last_window |-> FreshWindow]
  /\ HandOver(signer)
  /\ obs' = NothingSeen
  /\ UNCHANGED now

\* The window is enforced on the balance before the transfer; then the token
\* program transfers to another account with the PDA's signature.
TransferV0(signer, amount) ==
  /\ breaker # None
  /\ token_account # None
  /\ signer = breaker.owner
  /\ Enforceable(breaker.config, breaker.last_window, amount, token_account.amount, now)
  /\ Pda = token_account.owner
  /\ amount <= token_account.amount
  /\ breaker' = [breaker EXCEPT !.last_window =
                   EnforcedWindow(breaker.config, @, amount, now)]
  /\ token_account' = [token_account EXCEPT !.amount = @ - amount]
  /\ obs' = Seeing(obs, amount, GetThreshold(breaker.config, token_account.amount), now)
  /\ UNCHANGED now

Given(option, current) == IF option = None THEN current ELSE option

\* Nothing here asks config.is_valid().
UpdateAccountWindowedBreakerV0(signer, new_authority, config) ==
  /\ breaker # None
  /\ signer = breaker.authority
  /\ breaker' = [breaker EXCEPT !.authority = Given(new_authority, @),
                                !.config    = Given(config, @)]
  /\ obs' = IF config = None THEN obs ELSE NothingSeen
  /\ UNCHANGED <<now, token_account>>

-----------------------------------------------------------------------------

\* The cluster's clock never runs backwards.
Tick ==
  /\ now < MaxTime
  /\ now' = now + 1
  /\ UNCHANGED <<token_account, breaker, obs>>

\* The observer starts afresh.
Observe ==
  /\ obs' = NothingSeen
  /\ UNCHANGED <<now, token_account, breaker>>

Next ==
  \/ \E p \in Principals : CreateAccount(p)
  \/ \E p \in Principals : CloseAccount(p)
  \/ \E p \in Principals, q \in Principals \cup {None} : SetCloseAuthority(p, q)
  \/ \E p, q \in Principals : Approve(p, q)
  \/ \E n \in U64 : Deposit(n)
  \/ \E p \in Principals, n \in U64 : TransferDirectly(p, n)
  \/ \E s, a, o \in Principals, c \in Configs :
       InitializeAccountWindowedBreakerV0(s, a, o, c)
  \/ \E s \in Principals, n \in U64 : TransferV0(s, n)
  \/ \E s \in Principals, a \in Principals \cup {None}, c \in Configs \cup {None} :
       UpdateAccountWindowedBreakerV0(s, a, c)
  \/ Tick
  \/ Observe

Spec == Init /\ [][Next]_vars

-----------------------------------------------------------------------------
(* Properties *)

\* "prevents large movements of tokens" (README.md): over any span of time under
\* one configuration, the breaker lets at most the largest threshold in force out
\* of the account plus what that threshold decays by in the span, however often
\* it is used and however deposits move a Percent threshold meanwhile.
SpanBound ==
  obs.passed > 0 =>
    LET w == breaker.config.window_size_seconds
    IN w * obs.passed
         <= Budget(w, obs.cap, breaker.last_window.last_unix_timestamp - obs.since)

\* Once an account has its breaker nothing else lowers its balance: not a delegate
\* or a closer appointed earlier, and not a new account at the same address.
ShrinksThroughWindow ==
  breaker # None =>
    /\ token_account' # None
    /\ token_account'.owner = token_account.owner
    /\ token_account'.amount < token_account.amount =>
         /\ breaker'.last_window.last_unix_timestamp = now
         /\ breaker'.last_window.last_aggregated_value
              >= token_account.amount - token_account'.amount

NoTransferAroundBreaker == [][ShrinksThroughWindow]_vars
=============================================================================
