------------------------- MODULE AccountBreakerProofs -------------------------
(***************************************************************************)
(* AccountBreaker for every u64, every set of configurations and every     *)
(* clock.  The inductive invariant adds to the types who controls the      *)
(* token account (Custody) and the accounting of the observer (Window).    *)
(***************************************************************************)
EXTENDS AccountBreaker, ArithmeticProofs

Custody ==
  /\ breaker # None => /\ token_account # None
                       /\ token_account.owner = Pda
                       /\ token_account.close_authority = Pda
                       /\ token_account.delegate = None
  /\ breaker = None => obs = NothingSeen

Accounting ==
  breaker # None => SpanAccounting(breaker.config, breaker.last_window, obs)

IInv == TypeOK /\ Custody /\ Accounting

LEMMA InitIInv == Init => IInv
  BY NothingSeenAccounts DEF Init, IInv, TypeOK, Custody, Accounting

LEMMA FreshWindowType == FreshWindow \in WindowType
  BY U64MaxAssumption DEF FreshWindow, WindowType, U64

\* The initializer takes the account over whole: owner, closer and delegate.
LEMMA InitializePreserves ==
  ASSUME IInv,
         NEW s \in Principals, NEW a \in Principals, NEW o \in Principals,
         NEW c \in Configs, InitializeAccountWindowedBreakerV0(s, a, o, c)
  PROVE  IInv'
<1>1. /\ breaker' \in BreakerType /\ breaker' # None /\ obs' = NothingSeen
      /\ breaker'.last_window = FreshWindow
  BY FreshWindowType, ConfigsAssumption, NoneAssumption
  DEF InitializeAccountWindowedBreakerV0, BreakerType
<1>2. /\ token_account' \in TokenAccountType
      /\ token_account'.owner = Pda
      /\ token_account'.close_authority = Pda
      /\ token_account'.delegate = None
  BY DEF InitializeAccountWindowedBreakerV0, HandOver, IInv, TypeOK, TokenAccountType
<1>3. TypeOK'
  BY <1>1, <1>2, NothingSeenAccounts
  DEF InitializeAccountWindowedBreakerV0, IInv, TypeOK
<1>4. Custody'
  BY <1>1, <1>2, NoneAssumption DEF Custody
<1>5. Accounting'
  BY <1>1, NothingSeenAccounts DEF Accounting
<1> QED BY <1>3, <1>4, <1>5 DEF IInv

\* What a transfer does: it moves the window by an enforcement of its amount, and
\* the balance by the same amount.
LEMMA TransferStep ==
  ASSUME IInv, NEW s \in Principals, NEW n \in U64, TransferV0(s, n)
  PROVE  LET new == EnforcedWindow(breaker.config, breaker.last_window, n, now)
         IN /\ breaker' \in BreakerType /\ breaker' # None
            /\ breaker'.config = breaker.config
            /\ breaker'.last_window = new
            /\ new.last_unix_timestamp = now
            /\ new.last_aggregated_value >= n
            /\ token_account' \in TokenAccountType /\ token_account' # None
            /\ token_account' = [token_account EXCEPT !.amount = @ - n]
            /\ token_account.amount - token_account'.amount = n
            /\ obs' \in ObservationType
            /\ SpanAccounting(breaker.config, new, obs')
<1> DEFINE new == EnforcedWindow(breaker.config, breaker.last_window, n, now)
<1>1. /\ breaker \in BreakerType /\ token_account \in TokenAccountType
      /\ now \in Nat /\ obs \in ObservationType
      /\ n <= token_account.amount
      /\ Enforceable(breaker.config, breaker.last_window, n, token_account.amount, now)
      /\ SpanAccounting(breaker.config, breaker.last_window, obs)
  BY DEF TransferV0, IInv, TypeOK, Accounting
<1>2. /\ breaker.config \in ConfigType /\ breaker.last_window \in WindowType
      /\ token_account.amount \in U64
  BY <1>1 DEF BreakerType, TokenAccountType
<1>3. /\ new \in WindowType
      /\ new.last_unix_timestamp = now
      /\ new.last_aggregated_value >= n
  BY <1>1, <1>2, Enforcement
<1>4. /\ obs' \in ObservationType
      /\ SpanAccounting(breaker.config, new, obs')
  BY <1>1, <1>2, SpanStep DEF TransferV0
<1>5. /\ breaker' \in BreakerType
      /\ breaker'.config = breaker.config
      /\ breaker'.last_window = new
  BY <1>1, <1>3 DEF TransferV0, BreakerType
<1>6. token_account.amount - n \in U64
  BY <1>1, <1>2, U64MaxAssumption DEF U64
<1>7. /\ token_account' = [token_account EXCEPT !.amount = @ - n]
      /\ token_account' \in TokenAccountType
      /\ token_account'.amount = token_account.amount - n
  BY <1>1, <1>6 DEF TransferV0, TokenAccountType
<1>8. token_account.amount - token_account'.amount = n
  BY <1>2, <1>7, U64MaxAssumption DEF U64
<1> QED BY <1>3, <1>4, <1>5, <1>7, <1>8, NoneAssumption

LEMMA TransferPreserves ==
  ASSUME IInv, NEW s \in Principals, NEW n \in U64, TransferV0(s, n)
  PROVE  IInv'
<1>1. TypeOK'
  BY TransferStep DEF TransferV0, IInv, TypeOK
<1>2. Custody'
  <2>1. /\ token_account \in TokenAccountType
        /\ token_account.owner = Pda
        /\ token_account.close_authority = Pda
        /\ token_account.delegate = None
    BY DEF TransferV0, IInv, TypeOK, Custody
  <2>2. /\ token_account'.owner = Pda
        /\ token_account'.close_authority = Pda
        /\ token_account'.delegate = None
    BY <2>1 DEF TransferV0, TokenAccountType
  <2> QED BY <2>2, TransferStep DEF Custody
<1>3. Accounting'
  BY TransferStep DEF Accounting
<1> QED BY <1>1, <1>2, <1>3 DEF IInv

LEMMA UpdatePreserves ==
  ASSUME IInv, NEW s \in Principals, NEW a \in Principals \cup {None},
         NEW c \in Configs \cup {None}, UpdateAccountWindowedBreakerV0(s, a, c)
  PROVE  IInv'
<1>1. /\ breaker \in BreakerType /\ breaker # None
      /\ obs \in ObservationType
      /\ SpanAccounting(breaker.config, breaker.last_window, obs)
  BY DEF UpdateAccountWindowedBreakerV0, IInv, TypeOK, Accounting
<1>2. /\ breaker' \in BreakerType
      /\ breaker'.last_window = breaker.last_window
      /\ c = None => breaker'.config = breaker.config
  BY <1>1, ConfigsAssumption DEF UpdateAccountWindowedBreakerV0, Given, BreakerType
<1>3. obs' \in ObservationType
  BY <1>1, NothingSeenAccounts DEF UpdateAccountWindowedBreakerV0
<1>4. TypeOK'
  BY <1>2, <1>3 DEF UpdateAccountWindowedBreakerV0, IInv, TypeOK
<1>5. Custody'
  BY <1>2, NoneAssumption DEF UpdateAccountWindowedBreakerV0, IInv, Custody
<1>6. Accounting'
  <2>1. CASE c = None
    BY <1>1, <1>2, <2>1 DEF UpdateAccountWindowedBreakerV0, Accounting
  <2>2. CASE c # None
    BY <2>2, NothingSeenAccounts DEF UpdateAccountWindowedBreakerV0, Accounting
  <2> QED BY <2>1, <2>2
<1> QED BY <1>4, <1>5, <1>6 DEF IInv

\* The steps of the token program.  On a guarded account only a deposit is left:
\* every other one needs a signature the PDA does not give.
TokenProgram ==
  \/ \E p \in Principals : CreateAccount(p)
  \/ \E p \in Principals : CloseAccount(p)
  \/ \E p \in Principals, q \in Principals \cup {None} : SetCloseAuthority(p, q)
  \/ \E p, q \in Principals : Approve(p, q)
  \/ \E n \in U64 : Deposit(n)
  \/ \E p \in Principals, n \in U64 : TransferDirectly(p, n)

LEMMA TokenProgramType ==
  ASSUME TypeOK, TokenProgram
  PROVE  TypeOK'
<1> USE DEF TypeOK
<1>1. CASE \E p \in Principals : CreateAccount(p)
  BY <1>1, U64MaxAssumption DEF CreateAccount, TokenAccountType, U64
<1>2. CASE \E p \in Principals : CloseAccount(p)
  BY <1>2 DEF CloseAccount
<1>3. CASE \E p \in Principals, q \in Principals \cup {None} : SetCloseAuthority(p, q)
  BY <1>3 DEF SetCloseAuthority, TokenAccountType
<1>4. CASE \E p, q \in Principals : Approve(p, q)
  BY <1>4 DEF Approve, TokenAccountType
<1>5. CASE \E n \in U64 : Deposit(n)
  BY <1>5, U64MaxAssumption DEF Deposit, TokenAccountType, U64
<1>6. CASE \E p \in Principals, n \in U64 : TransferDirectly(p, n)
  BY <1>6, U64MaxAssumption DEF TransferDirectly, TokenAccountType, U64
<1> QED BY <1>1, <1>2, <1>3, <1>4, <1>5, <1>6 DEF TokenProgram

LEMMA GuardedAccountOnlyReceives ==
  ASSUME IInv, breaker # None, TokenProgram
  PROVE  \E n \in U64 : Deposit(n)
<1>1. /\ token_account # None
      /\ token_account.owner = Pda
      /\ token_account.close_authority = Pda
      /\ token_account.delegate = None
      /\ Pda \notin Principals /\ Pda # None /\ None \notin Principals
  BY PdaAssumption DEF IInv, Custody
<1> QED
  BY <1>1 DEF TokenProgram, CreateAccount, CloseAccount, SetCloseAuthority, Approve,
              TransferDirectly, Closer

LEMMA TokenProgramPreserves ==
  ASSUME IInv, TokenProgram
  PROVE  IInv'
<1>1. TypeOK' /\ UNCHANGED <<now, breaker, obs>>
  BY TokenProgramType
  DEF IInv, TokenProgram, CreateAccount, CloseAccount, SetCloseAuthority, Approve,
      Deposit, TransferDirectly
<1>2. Custody'
  <2>1. CASE breaker = None
    BY <1>1, <2>1 DEF IInv, Custody
  <2>2. CASE breaker # None
    <3>1. PICK n \in U64 : Deposit(n)
      BY <2>2, GuardedAccountOnlyReceives
    <3>2. token_account \in TokenAccountType /\ token_account' \in TokenAccountType \cup {None}
      BY <1>1, <3>1 DEF IInv, TypeOK, Deposit
    <3>3. /\ token_account' \in TokenAccountType
          /\ token_account'.owner = token_account.owner
          /\ token_account'.close_authority = token_account.close_authority
          /\ token_account'.delegate = token_account.delegate
      BY <3>1, <3>2, U64MaxAssumption DEF Deposit, TokenAccountType, U64
    <3> QED BY <1>1, <2>2, <3>3, NoneAssumption DEF IInv, Custody
  <2> QED BY <2>1, <2>2
<1>3. Accounting'
  BY <1>1 DEF IInv, Accounting
<1> QED BY <1>1, <1>2, <1>3 DEF IInv

LEMMA NextPreserves == IInv /\ [Next]_vars => IInv'
<1> SUFFICES ASSUME IInv, [Next]_vars PROVE IInv'
  OBVIOUS
<1>1. CASE TokenProgram
  BY <1>1, TokenProgramPreserves
<1>2. CASE Tick
  BY <1>2 DEF Tick, IInv, TypeOK, Custody, Accounting
<1>3. CASE Observe
  BY <1>3, NothingSeenAccounts DEF Observe, IInv, TypeOK, Custody, Accounting
<1>4. CASE UNCHANGED vars
  BY <1>4 DEF vars, IInv, TypeOK, Custody, Accounting
<1> QED
  BY <1>1, <1>2, <1>3, <1>4, InitializePreserves, TransferPreserves, UpdatePreserves
  DEF Next, TokenProgram

\* The inductive invariant holds in every state of every behaviour.
THEOREM Invariance == Spec => []IInv
  BY InitIInv, NextPreserves, PTL DEF Spec

\* Type correctness, for the record types of state.rs with u64 fields.
THEOREM TypeCorrect == Spec => []TypeOK
<1>1. IInv => TypeOK
  BY DEF IInv
<1> QED BY <1>1, Invariance, PTL

\* Over any span of time under one configuration, transfer_v0 lets out at most the
\* largest threshold in force plus what it decays by in that span.
THEOREM SpanIsBounded == Spec => []SpanBound
<1>1. IInv => SpanBound
  <2> SUFFICES ASSUME IInv, obs.passed > 0
               PROVE  LET w == breaker.config.window_size_seconds
                      IN w * obs.passed <=
                           Budget(w, obs.cap,
                                  breaker.last_window.last_unix_timestamp - obs.since)
    BY DEF SpanBound
  <2>1. breaker # None
    BY DEF IInv, Custody, NothingSeen
  <2>2. /\ breaker.config \in ConfigType /\ breaker.last_window \in WindowType
        /\ obs \in ObservationType
        /\ SpanAccounting(breaker.config, breaker.last_window, obs)
    BY <2>1 DEF IInv, TypeOK, Accounting, BreakerType
  <2> QED BY <2>2, AccountingIsBudget
<1> QED BY <1>1, Invariance, PTL

\* Once guarded, an account keeps its owner and shrinks by transfer_v0 alone.
LEMMA ShrinkageIsCounted == IInv /\ [Next]_vars => [ShrinksThroughWindow]_vars
<1> SUFFICES ASSUME IInv, Next, breaker # None
             PROVE  ShrinksThroughWindow
  BY DEF ShrinksThroughWindow
<1>1. /\ token_account \in TokenAccountType /\ token_account # None
      /\ token_account.amount \in U64
  BY DEF IInv, TypeOK, Custody, TokenAccountType
<1>2. CASE token_account' = token_account
  BY <1>1, <1>2, U64MaxAssumption DEF ShrinksThroughWindow, U64
<1>3. ASSUME NEW n \in U64, Deposit(n)
      PROVE  ShrinksThroughWindow
  <2>1. /\ token_account'.owner = token_account.owner
        /\ token_account'.amount = token_account.amount + n
        /\ token_account' \in TokenAccountType
    BY <1>1, <1>3, U64MaxAssumption DEF Deposit, TokenAccountType, U64
  <2> QED BY <1>1, <2>1, NoneAssumption, U64MaxAssumption DEF ShrinksThroughWindow, U64
<1>4. ASSUME NEW s \in Principals, NEW n \in U64, TransferV0(s, n)
      PROVE  ShrinksThroughWindow
  <2>1. token_account'.owner = token_account.owner
    BY <1>1, <1>4 DEF TransferV0, TokenAccountType
  <2> QED BY <1>4, <2>1, TransferStep DEF ShrinksThroughWindow
<1>5. CASE TokenProgram
  BY <1>3, <1>5, GuardedAccountOnlyReceives
<1> QED
  BY <1>2, <1>4, <1>5
  DEF Next, TokenProgram, InitializeAccountWindowedBreakerV0,
      UpdateAccountWindowedBreakerV0, Tick, Observe

THEOREM ShrinksThroughWindowOnly == Spec => NoTransferAroundBreaker
  BY Invariance, ShrinkageIsCounted, PTL DEF Spec, NoTransferAroundBreaker
=============================================================================
