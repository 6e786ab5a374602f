------------------------------- MODULE Window -------------------------------
(***************************************************************************)
(* The window arithmetic of the circuit-breaker program (window.rs): a     *)
(* breaker remembers one aggregated value and the time it was last         *)
(* enforced, lets the value decay linearly to zero over the configured     *)
(* window, and refuses an amount that would lift it over the threshold.    *)
(*                                                                         *)
(* The code's Option and Result values are guards here: DecayDefined is    *)
(* "time_decay_previous_value returns Some", Enforceable is "enforce_window *)
(* returns Ok", and the other operators are the values returned then.      *)
(* The intermediate products are u128 in the code and cannot overflow, so  *)
(* only the u64 sum keeps its width.                                       *)
(***************************************************************************)
EXTENDS Integers

CONSTANT U64Max  \* the largest u64, also the denominator of a Percent threshold

ASSUME U64MaxAssumption == U64Max \in Nat \ {0}

U64 == 0 .. U64Max

ThresholdType == {"Percent", "Absolute"}

ConfigType ==
  [window_size_seconds: Nat, threshold_type: ThresholdType, threshold: U64]

WindowType == [last_aggregated_value: U64, last_unix_timestamp: Nat]

IsValid(config) == config.window_size_seconds > 0

\* Both initializers start from this window: time 0 is the Unix epoch.
FreshWindow == [last_aggregated_value |-> 0, last_unix_timestamp |-> 0]

\* A plausible slip: without std::cmp::min the checked_sub of a longer wait fails.
DecayDefinedInsideWindow(config, window, now) ==
  /\ now >= window.last_unix_timestamp
  /\ config.window_size_seconds # 0
  /\ now - window.last_unix_timestamp <= config.window_size_seconds

\* checked_sub and try_from refuse a clock that ran backwards, checked_div a
\* window of zero seconds.
DecayDefined(config, window, now) ==
  /\ now >= window.last_unix_timestamp
  /\ config.window_size_seconds # 0

\* The part of the window that is still ahead of the last enforcement.
Remaining(config, window, now) ==
  LET elapsed == now - window.last_unix_timestamp
  IN IF elapsed < config.window_size_seconds
     THEN config.window_size_seconds - elapsed
     ELSE 0

TimeDecayPreviousValue(config, window, now) ==
  (window.last_aggregated_value * Remaining(config, window, now))
    \div config.window_size_seconds

\* A plausible slip: the type of the threshold is not looked at.
GetThresholdUntyped(config, curr_value) == config.threshold

GetThreshold(config, curr_value) ==
  IF config.threshold_type = "Percent"
  THEN (curr_value * config.threshold) \div U64Max
  ELSE config.threshold

NewAggregate(config, window, amount, now) ==
  amount + TimeDecayPreviousValue(config, window, now)

Enforceable(config, window, amount, account_value, now) ==
  /\ DecayDefined(config, window, now)
  /\ NewAggregate(config, window, amount, now) <= U64Max
  /\ NewAggregate(config, window, amount, now) <= GetThreshold(config, account_value)

\* A plausible slip: the window keeps the time of its first enforcement.
EnforcedWindowKeepingTime(config, window, amount, now) ==
  [window EXCEPT !.last_aggregated_value = NewAggregate(config, window, amount, now)]

EnforcedWindow(config, window, amount, now) ==
  [last_aggregated_value |-> NewAggregate(config, window, amount, now),
   last_unix_timestamp   |-> now]

-----------------------------------------------------------------------------
(***************************************************************************)
(* An observer of a breaker, a history variable of the models that use     *)
(* this module: it may start afresh at any moment, and then adds up what   *)
(* the breaker lets through, from the first enforcement it sees, and the   *)
(* largest threshold in force meanwhile.  What holds of it in every state  *)
(* holds of every span of time.                                            *)
(***************************************************************************)
ObservationType == [since: Nat, passed: Nat, cap: U64]

NothingSeen == [since |-> 0, passed |-> 0, cap |-> 0]

Seeing(obs, amount, threshold, now) ==
  IF amount = 0 THEN obs
  ELSE [since  |-> IF obs.passed = 0 THEN now ELSE obs.since,
        passed |-> obs.passed + amount,
        cap    |-> IF threshold > obs.cap THEN threshold ELSE obs.cap]

\* The budget of a span of `span' seconds: the threshold once, what decays of it
\* meanwhile, and what the division rounds away, less than one token for every
\* second.  All of it is multiplied by the window's size w.
Budget(w, cap, span) == w * cap + (cap + w - 1) * span

\* What makes the budget hold from one enforcement to the next: what the observer
\* saw is still in the aggregate, or decayed at the budgeted pace.
SpanAccounting(config, window, obs) ==
  obs.passed > 0 =>
    LET w == config.window_size_seconds
    IN /\ w # 0
       /\ obs.since <= window.last_unix_timestamp
       /\ window.last_aggregated_value <= obs.cap
       /\ w * obs.passed
            <= w * window.last_aggregated_value
                 + (obs.cap + w - 1) * (window.last_unix_timestamp - obs.since)
=============================================================================
