-------------------------- MODULE MintBreakerProofs --------------------------
(***************************************************************************)
(* MintBreaker for every u64, every set of configurations and every clock. *)
(* TypeOK alone is not enough for SpanBound: IInv adds the accounting of   *)
(* the observer (Window) and that the PDA keeps a mint with a breaker.     *)
(***************************************************************************)
EXTENDS MintBreaker, ArithmeticProofs

Custody ==
  /\ breaker # None => mint_authority = Pda
  /\ breaker = None => obs = NothingSeen

Accounting ==
  breaker # None => SpanAccounting(breaker.config, breaker.last_window, obs)

IInv == TypeOK /\ Custody /\ Accounting

LEMMA InitIInv == Init => IInv
  BY NothingSeenAccounts, U64MaxAssumption, MaxTimeAssumption
  DEF Init, IInv, TypeOK, Custody, Accounting, U64

LEMMA FreshWindowType == FreshWindow \in WindowType
  BY U64MaxAssumption DEF FreshWindow, WindowType, U64

\* The initializer: the window is fresh and the observer starts with it.
LEMMA InitializePreserves ==
  ASSUME IInv,
         NEW s \in Principals, NEW a \in Principals, NEW m \in Principals,
         NEW c \in Configs, InitializeMintWindowedBreakerV0(s, a, m, c)
  PROVE  IInv'
<1> USE DEF InitializeMintWindowedBreakerV0, HandOver
<1>1. breaker' \in BreakerType /\ mint_authority' = Pda /\ obs' = NothingSeen
  BY FreshWindowType, ConfigsAssumption DEF BreakerType
<1>2. TypeOK'
  BY <1>1, NothingSeenAccounts DEF IInv, TypeOK
<1>3. Custody'
  BY <1>1, NoneAssumption DEF Custody
<1>4. Accounting'
  BY <1>1, NothingSeenAccounts DEF Accounting
<1> QED BY <1>2, <1>3, <1>4 DEF IInv

\* mint_v0: the window's aggregate and the observer move together (SpanStep).
LEMMA MintPreserves ==
  ASSUME IInv, NEW s \in Principals, NEW n \in Amounts, MintV0(s, n)
  PROVE  IInv'
<1> DEFINE new == EnforcedWindow(breaker.config, breaker.last_window, n, now)
<1>0. n \in U64
  BY AmountsAssumption
<1>1. /\ breaker \in BreakerType /\ breaker # None
      /\ now \in Nat /\ supply \in U64 /\ obs \in ObservationType
      /\ Enforceable(breaker.config, breaker.last_window, n, supply, now)
      /\ SpanAccounting(breaker.config, breaker.last_window, obs)
  BY DEF MintV0, IInv, TypeOK, Accounting
<1>2. breaker.config \in ConfigType /\ breaker.last_window \in WindowType
  BY <1>1 DEF BreakerType
<1>3. new \in WindowType
  BY <1>0, <1>1, <1>2, Enforcement
<1>4. /\ obs' \in ObservationType
      /\ SpanAccounting(breaker.config, new, obs')
  BY <1>0, <1>1, <1>2, SpanStep DEF MintV0
<1>5. /\ breaker' \in BreakerType
      /\ breaker'.config = breaker.config
      /\ breaker'.last_window = new
  BY <1>1, <1>3 DEF MintV0, BreakerType
<1>6. supply' \in U64
  BY <1>0, <1>1, U64MaxAssumption DEF MintV0, U64
<1>7. TypeOK'
  BY <1>4, <1>5, <1>6 DEF MintV0, IInv, TypeOK
<1>8. Custody'
  BY <1>5, NoneAssumption DEF MintV0, Custody
<1>9. Accounting'
  BY <1>4, <1>5 DEF Accounting
<1> QED BY <1>7, <1>8, <1>9 DEF IInv

\* update: the window survives; a new configuration starts a new observation.
LEMMA UpdatePreserves ==
  ASSUME IInv, NEW s \in Principals,
         NEW a \in Principals \cup {None}, NEW m \in Principals \cup {None},
         NEW c \in Configs \cup {None}, UpdateMintWindowedBreakerV0(s, a, m, c)
  PROVE  IInv'
<1>1. /\ breaker \in BreakerType /\ breaker # None
      /\ obs \in ObservationType
      /\ SpanAccounting(breaker.config, breaker.last_window, obs)
  BY DEF UpdateMintWindowedBreakerV0, IInv, TypeOK, Accounting
<1>2. /\ breaker' \in BreakerType
      /\ breaker'.last_window = breaker.last_window
      /\ c = None => breaker'.config = breaker.config
  BY <1>1, ConfigsAssumption DEF UpdateMintWindowedBreakerV0, Given, BreakerType
<1>3. obs' \in ObservationType
  BY <1>1, NothingSeenAccounts DEF UpdateMintWindowedBreakerV0
<1>4. TypeOK'
  BY <1>2, <1>3 DEF UpdateMintWindowedBreakerV0, IInv, TypeOK
<1>5. Custody'
  BY <1>2, NoneAssumption DEF UpdateMintWindowedBreakerV0, IInv, Custody
<1>6. Accounting'
  <2>1. CASE c = None
    BY <1>1, <1>2, <2>1 DEF UpdateMintWindowedBreakerV0, Accounting
  <2>2. CASE c # None
    BY <2>2, NothingSeenAccounts DEF UpdateMintWindowedBreakerV0, Accounting
  <2> QED BY <2>1, <2>2
<1> QED BY <1>4, <1>5, <1>6 DEF IInv

LEMMA NextPreserves == IInv /\ [Next]_vars => IInv'
<1> SUFFICES ASSUME IInv, [Next]_vars PROVE IInv'
  OBVIOUS
<1>1. ASSUME NEW s \in Principals, DeleteMintWindowedCircuitBreakerV0(s)
      PROVE  IInv'
  BY <1>1, NothingSeenAccounts
  DEF DeleteMintWindowedCircuitBreakerV0, IInv, TypeOK, Custody, Accounting
<1>2. ASSUME NEW s \in Principals, NEW n \in Amounts, MintToDirectly(s, n)
      PROVE  IInv'
  BY <1>2, U64MaxAssumption, AmountsAssumption DEF MintToDirectly, IInv, TypeOK, Custody, Accounting, U64
<1>3. ASSUME NEW n \in Amounts, Burn(n)
      PROVE  IInv'
  BY <1>3, U64MaxAssumption, AmountsAssumption DEF Burn, IInv, TypeOK, Custody, Accounting, U64
<1>4. CASE Tick
  BY <1>4 DEF Tick, IInv, TypeOK, Custody, Accounting
<1>5. CASE Observe
  BY <1>5, NothingSeenAccounts DEF Observe, IInv, TypeOK, Custody, Accounting
<1>6. CASE UNCHANGED vars
  BY <1>6 DEF vars, IInv, TypeOK, Custody, Accounting
<1> QED
  BY <1>1, <1>2, <1>3, <1>4, <1>5, <1>6,
     InitializePreserves, MintPreserves, UpdatePreserves
  DEF Next

\* The inductive invariant holds in every state of every behaviour.
THEOREM Invariance == Spec => []IInv
  BY InitIInv, NextPreserves, PTL DEF Spec

\* Type correctness, for the record types of state.rs with u64 fields.
THEOREM TypeCorrect == Spec => []TypeOK
<1>1. IInv => TypeOK
  BY DEF IInv
<1> QED BY <1>1, Invariance, PTL

\* Over any span of time under one configuration, mint_v0 lets through at most the
\* largest threshold in force plus what it decays by in that span.
THEOREM SpanIsBounded == Spec => []SpanBound
<1>1. IInv => SpanBound
  <2> SUFFICES ASSUME IInv, obs.passed > 0
               PROVE  LET w == breaker.config.window_size_seconds
                      IN w * obs.passed <=
                           Budget(w, obs.cap,
                                  breaker.last_window.last_unix_timestamp - obs.since)
    BY DEF SpanBound
  <2>1. breaker # None
    BY DEF IInv, Custody, NothingSeen
  <2>2. /\ breaker.config \in ConfigType /\ breaker.last_window \in WindowType
        /\ obs \in ObservationType
        /\ SpanAccounting(breaker.config, breaker.last_window, obs)
    BY <2>1 DEF IInv, TypeOK, Accounting, BreakerType
  <2> QED BY <2>2, AccountingIsBudget
<1> QED BY <1>1, Invariance, PTL

\* No transaction grows the supply of a mint with a breaker but mint_v0, and that
\* one leaves the amount in the window.
LEMMA GrowthIsCounted == IInv /\ [Next]_vars => [GrowsThroughWindow]_vars
<1> SUFFICES ASSUME IInv, Next, breaker # None, supply' > supply
             PROVE  GrowsThroughWindow
  BY DEF GrowsThroughWindow
<1> USE DEF GrowsThroughWindow
<1>1. mint_authority = Pda /\ supply \in U64
  BY DEF IInv, TypeOK, Custody
<1>2. ASSUME NEW s \in Principals, NEW n \in Amounts, MintV0(s, n)
      PROVE  GrowsThroughWindow
  <2> DEFINE new == EnforcedWindow(breaker.config, breaker.last_window, n, now)
  <2>1. /\ breaker \in BreakerType /\ now \in Nat
        /\ Enforceable(breaker.config, breaker.last_window, n, supply, now)
    BY <1>2 DEF MintV0, IInv, TypeOK
  <2>2. breaker.config \in ConfigType /\ breaker.last_window \in WindowType
    BY <2>1 DEF BreakerType
  <2>3. new.last_unix_timestamp = now /\ new.last_aggregated_value >= n
        /\ new \in WindowType
    BY <1>1, <2>1, <2>2, AmountsAssumption, Enforcement
  <2>4. breaker' \in BreakerType /\ breaker'.last_window = new
    BY <1>2, <2>1, <2>3 DEF MintV0, BreakerType
  <2>5. supply' - supply = n
    BY <1>1, <1>2, U64MaxAssumption, AmountsAssumption DEF MintV0, U64
  <2> QED BY <2>3, <2>4, <2>5, NoneAssumption
<1>3. ASSUME NEW s \in Principals, NEW n \in Amounts, MintToDirectly(s, n)
      PROVE  FALSE
  BY <1>1, <1>3, PdaAssumption DEF MintToDirectly
<1>4. ASSUME NEW n \in Amounts, Burn(n)
      PROVE  FALSE
  BY <1>1, <1>4, U64MaxAssumption, AmountsAssumption DEF Burn, U64
<1>5. CASE supply' = supply
  BY <1>1, <1>5, U64MaxAssumption DEF U64
<1>6. CASE supply' # supply
  BY <1>2, <1>3, <1>4, <1>6
  DEF Next, InitializeMintWindowedBreakerV0, UpdateMintWindowedBreakerV0,
      DeleteMintWindowedCircuitBreakerV0, Tick, Observe
<1> QED BY <1>5, <1>6

THEOREM GrowthThroughWindowOnly == Spec => NoMintAroundBreaker
  BY Invariance, GrowthIsCounted, PTL DEF Spec, NoMintAroundBreaker

\* Once its breaker is deleted nobody can sign for the mint: it is frozen for ever.
THEOREM DeletedForGood == Spec => DeletionIsFinal
<1>1. IInv /\ [Next]_vars => [OrphanStaysOrphan]_vars
  <2> SUFFICES ASSUME IInv, Next, breaker = None, mint_authority = Pda
               PROVE  breaker' = None /\ mint_authority' = Pda /\ supply' <= supply
    BY DEF OrphanStaysOrphan
  <2>1. supply \in U64 /\ Pda \notin Principals
    BY PdaAssumption DEF IInv, TypeOK
  <2>2. ASSUME NEW n \in Amounts, Burn(n)
        PROVE  breaker' = None /\ mint_authority' = Pda /\ supply' <= supply
    BY <2>1, <2>2, U64MaxAssumption, AmountsAssumption DEF Burn, U64
  <2> QED
    BY <2>1, <2>2, U64MaxAssumption, AmountsAssumption
    DEF Next, InitializeMintWindowedBreakerV0, HandOver, MintV0,
        UpdateMintWindowedBreakerV0, DeleteMintWindowedCircuitBreakerV0,
        MintToDirectly, Tick, Observe, U64
<1> QED BY <1>1, Invariance, PTL DEF Spec, DeletionIsFinal

\* A whole window after the last mint nothing of the aggregate is left, and every
\* amount within the threshold passes.
THEOREM ReopensAfterWindow == Spec => []WindowReopens
<1>1. IInv => WindowReopens
  <2> DEFINE w    == breaker.config.window_size_seconds
             last == breaker.last_window.last_unix_timestamp
             t    == GetThreshold(breaker.config, supply)
  <2> SUFFICES ASSUME IInv, breaker # None, IsValid(breaker.config), now - last >= w,
                      NEW amount \in 0 .. t
               PROVE  Enforceable(breaker.config, breaker.last_window, amount, supply, now)
    BY DEF WindowReopens
  <2>1. breaker.config \in ConfigType /\ breaker.last_window \in WindowType
    BY DEF IInv, TypeOK, BreakerType
  <2>2. /\ w \in Nat \ {0} /\ last \in Nat /\ now \in Nat
        /\ breaker.last_window.last_aggregated_value \in Nat
    BY <2>1, U64MaxAssumption DEF IInv, TypeOK, IsValid, ConfigType, WindowType, U64
  <2>3. t \in U64
    BY <2>1, ThresholdBound DEF IInv, TypeOK
  <2>4. DecayDefined(breaker.config, breaker.last_window, now)
    BY <2>2 DEF DecayDefined
  <2>5. Remaining(breaker.config, breaker.last_window, now) = 0
    BY <2>2 DEF Remaining
  <2>6. TimeDecayPreviousValue(breaker.config, breaker.last_window, now) = 0
    <3>1. breaker.last_window.last_aggregated_value
            * Remaining(breaker.config, breaker.last_window, now) = 0
      BY <2>2, <2>5
    <3>2. 0 \div w = 0
      BY <2>2
    <3> QED BY <3>1, <3>2 DEF TimeDecayPreviousValue
  <2>7. NewAggregate(breaker.config, breaker.last_window, amount, now) = amount
    BY <2>3, <2>6, U64MaxAssumption DEF NewAggregate, U64
  <2> QED BY <2>3, <2>4, <2>7, U64MaxAssumption DEF Enforceable, U64
<1> QED BY <1>1, Invariance, PTL

\* A Percent threshold of nothing is nothing, so that a guarded mint without supply
\* gets none.
THEOREM EmptyStaysEmpty == Spec => EmptyPercentMintStaysEmpty
<1> DEFINE StaysEmpty ==
      /\ breaker # None
      /\ breaker.config.threshold_type = "Percent"
      /\ supply = 0
      => supply' = 0
<1>1. IInv /\ [Next]_vars => [StaysEmpty]_vars
  <2> SUFFICES ASSUME IInv, Next, breaker # None, supply = 0,
                      breaker.config.threshold_type = "Percent"
               PROVE  supply' = 0
    OBVIOUS
  <2>1. ASSUME NEW s \in Principals, NEW n \in Amounts, MintV0(s, n)
        PROVE  supply' = 0
    <3>1. /\ breaker.config \in ConfigType /\ breaker.last_window \in WindowType
          /\ now \in Nat /\ supply \in U64 /\ n \in U64
          /\ Enforceable(breaker.config, breaker.last_window, n, supply, now)
      BY <2>1, AmountsAssumption DEF MintV0, IInv, TypeOK, BreakerType
    <3>2. GetThreshold(breaker.config, supply) = 0
      <4>1. supply * breaker.config.threshold = 0 /\ 0 \div U64Max = 0
        BY <3>1, U64MaxAssumption DEF ConfigType, U64
      <4> QED BY <4>1 DEF GetThreshold
    <3>3. n <= 0
      <4> DEFINE new == EnforcedWindow(breaker.config, breaker.last_window, n, now)
      <4>1. /\ new \in WindowType
            /\ n <= new.last_aggregated_value /\ new.last_aggregated_value <= 0
        BY <3>1, <3>2, Enforcement
      <4>2. new.last_aggregated_value \in Nat /\ n \in Nat
        BY <3>1, <4>1, U64MaxAssumption DEF WindowType, U64
      <4> HIDE DEF new
      <4> QED BY <4>1, <4>2
    <3> QED BY <2>1, <3>1, <3>3, U64MaxAssumption DEF MintV0, U64
  <2>2. ASSUME NEW s \in Principals, NEW n \in Amounts, MintToDirectly(s, n)
        PROVE  supply' = 0
    BY <2>2, PdaAssumption DEF MintToDirectly, IInv, Custody
  <2>3. ASSUME NEW n \in Amounts, Burn(n)
        PROVE  supply' = 0
    BY <2>3, U64MaxAssumption, AmountsAssumption DEF Burn, U64
  <2> QED
    BY <2>1, <2>2, <2>3
    DEF Next, InitializeMintWindowedBreakerV0, UpdateMintWindowedBreakerV0,
        DeleteMintWindowedCircuitBreakerV0, Tick, Observe
<1> QED BY <1>1, Invariance, PTL DEF Spec, EmptyPercentMintStaysEmpty
=============================================================================
