------------------------ MODULE EmissionDistribution ------------------------
(***************************************************************************)
(* The distribution of RNDR emissions: the emission-schedule program, the  *)
(* emission-distributor program, the Clockwork thread that calls it and    *)
(* the mint breaker it mints through (MintBreaker, instantiated as         *)
(* Breaker).  The thread is kicked off by a cron trigger and then runs one *)
(* pass: one instruction for every rewards account, each tried again until *)
(* it succeeds or Clockwork's workers have had enough of it.               *)
(*                                                                         *)
(* An instruction pays the token account that was associated with a        *)
(* rewards account when the thread was made, and is named after that       *)
(* account here; whose percentage it pays is looked up by whoever owns the *)
(* token account by then.                                                  *)
(*                                                                         *)
(* update_emission_distributor_v0 is no action: its seeds name the         *)
(* distributor's mint and authority, the initializer's only the mint, so   *)
(* no account the program creates can be passed to it.                     *)
(***************************************************************************)
EXTENDS SequencesExt, Window

CONSTANTS
  Keys,         \* keys that can sign a transaction
  Distributor,  \* the distributor's program-derived address
  Pda,          \* the mint breaker's program-derived address
  None,         \* no account
  Owners,       \* the owners of rewards accounts
  RewardsArgs,  \* the rewards accounts an initializer may pass: <<[account, percent], ...>>
  Schedules,    \* the emission schedules an initializer or an update may pass
  Thresholds,   \* the thresholds an update of the breaker may pass
  EpochLength,  \* EPOCH_LENGTH, the window of the mint's breaker
  CronTimes,    \* the moments the thread's cron schedule names
  MaxFailures,  \* MAX_THREAD_SIMULATION_FAILURES: a worker gives up after one more
  Horizon,      \* bound of the model: only the thread and the clock go on after it
  MaxTime       \* bound of the model: the last second of the clock

ItemType == [start_unix_time: Nat, emissions_per_epoch: U64, emitted: BOOLEAN]

ASSUME AddressAssumption ==
  /\ Pda \notin Keys \cup {Distributor}
  /\ Distributor \notin Keys
  /\ None \notin Keys \cup {Pda, Distributor}
ASSUME TimeAssumption ==
  EpochLength \in Nat \ {0} /\ CronTimes \subseteq Nat /\ Horizon \in Nat /\ MaxTime \in Nat
  /\ MaxFailures \in Nat
ASSUME ScheduleAssumption ==
  /\ \A items \in Schedules : items \in Seq(ItemType)
  /\ \E items \in Schedules : items # <<>>
  /\ Thresholds \subseteq U64
\* A percentage is a u8; the same account may be named twice.
ASSUME RewardsAssumption ==
  None \notin RewardsArgs /\ RewardsArgs \subseteq Seq([account: Owners, percent: 0 .. 255])

VARIABLES
  now, supply, mint_authority, breaker, obs,  \* of MintBreaker
  schedule,     \* the EmissionSchedule account, or None
  distributor,  \* the rewards_escrows of the EmissionDistributor account, or None
  thread,       \* the Clockwork thread, or None
  tries,        \* how often the workers have simulated the thread in vain
  owner,        \* who owns each token account there is
  received,     \* what was ever minted into the token account of each
  pass          \* history: the state the pass started from, the emissions it drew on, the
                \* recipients whose token account was another's when it was paid, in this
                \* pass and whether there was any in any pass

breakerVars == <<now, supply, mint_authority, breaker, obs>>
recipientVars == <<owner, received>>
vars == <<breakerVars, schedule, distributor, thread, tries, recipientVars, pass>>

EpochConfig(threshold) ==
  [window_size_seconds |-> EpochLength, threshold_type |-> "Absolute",
   threshold |-> threshold]

\* Every emission a schedule may name, every percentage of a rewards account.
Emissions ==
  UNION {{items[i].emissions_per_epoch : i \in DOMAIN items} : items \in Schedules}
Percentages == UNION {{r[i].percent : i \in DOMAIN r} : r \in RewardsArgs}

Share(percent, total) == (percent * total) \div 100

Breaker == INSTANCE MintBreaker WITH
  Principals <- Keys \cup {Distributor},
  Configs    <- {EpochConfig(t) : t \in Emissions \cup Thresholds},
  Amounts    <- {Share(p, e) : p \in Percentages, e \in Emissions} \cap U64

ScheduleType == [authority: Keys, items: Schedules, capacity: Nat]

\* next is the number of next_instruction, 0 when it is none; started_at is the
\* exec context's reference for the cron schedule.
ThreadType == [next: Nat, started_at: Nat]

ASSUME AbsentAssumption ==
  None \notin ScheduleType \cup ThreadType \cup ConfigType \cup Breaker!BreakerType

TypeOK ==
  /\ Breaker!TypeOK
  /\ schedule # None => schedule \in ScheduleType
  /\ distributor # None => distributor \in RewardsArgs
  /\ thread # None => thread \in ThreadType /\ distributor # None
                      /\ thread.next <= Len(distributor) /\ thread.started_at <= now
  /\ tries \in 0 .. MaxFailures + 1
  /\ DOMAIN owner \subseteq Owners /\ \A a \in DOMAIN owner : owner[a] \in Owners
  /\ received \in [Owners -> U64]
  /\ pass.low \in U64 /\ pass.high \in U64 /\ pass.supply \in U64
  /\ pass.strayed \subseteq Owners /\ pass.ever \in BOOLEAN

NothingReceived == [a \in Owners |-> 0]

Init ==
  /\ Breaker!Init
  /\ mint_authority \in Keys
  /\ schedule = None
  /\ distributor = None
  /\ thread = None
  /\ tries = 0
  /\ owner = [a \in {} |-> a]
  /\ received = NothingReceived
  /\ pass = [received |-> NothingReceived, supply |-> 0, low |-> 0, high |-> 0,
             strayed |-> {}, ever |-> FALSE]

-----------------------------------------------------------------------------
(* The emission-schedule program *)

\* The account gets 132 + 32n bytes for n items; k items serialize to 45 + 25k.
Fits(k, n) == 45 + 25 * k <= 132 + 32 * n

\* init_if_needed: an account that exists is written over, as long as the new
\* schedule asks for the same space.
InitializeEmissionScheduleV0(authority, items) ==
  /\ schedule # None => schedule.capacity = Len(items)
  /\ schedule' = [authority |-> authority, items |-> items, capacity |-> Len(items)]
  /\ UNCHANGED <<breakerVars, distributor, thread, tries, recipientVars, pass>>

UpdateEmissionScheduleV0(signer, items) ==
  /\ schedule # None
  /\ signer = schedule.authority
  /\ Fits(Len(items), schedule.capacity)
  /\ schedule' = [schedule EXCEPT !.items = items]
  /\ UNCHANGED <<breakerVars, distributor, thread, tries, recipientVars, pass>>

-----------------------------------------------------------------------------
(* The emission-distributor program *)

TotalPercent(rewards) == SumFunction([i \in DOMAIN rewards |-> rewards[i].percent])

\* A plausible slip: the percentages are not checked.
PercentagesUnchecked(rewards) == rewards # <<>>

PercentagesAddUp(rewards) == TotalPercent(rewards) = 100

\* The breaker lets the distributor mint what the first item of the schedule
\* emits; indexing an empty schedule panics.
InitializeEmissionDistributorV0(signer, authority, rewards) ==
  /\ distributor = None
  /\ schedule # None /\ schedule.items # <<>>
  /\ PercentagesAddUp(rewards)
  /\ Breaker!InitializeMintWindowedBreakerV0(signer, authority, Distributor,
       EpochConfig(schedule.items[1].emissions_per_epoch))
  /\ distributor' = rewards
  /\ thread' = [next |-> 0, started_at |-> now]
  /\ UNCHANGED <<schedule, tries, recipientVars, pass>>

\* The items distribute_emission_v0 may draw on: due and not emitted.
Due == {i \in DOMAIN schedule.items :
          /\ schedule.items[i].start_unix_time <= now
          /\ ~schedule.items[i].emitted}

TotalEmissions == schedule.items[Min(Due)].emissions_per_epoch

\* A plausible slip: the percentage of the first escrow, whoever `to' belongs to.
EscrowUnmatched(o) == distributor[1]

Escrows(o) == {i \in DOMAIN distributor : distributor[i].account = o}

\* The first escrow of the one who owns `to' now.
Escrow(o) == distributor[Min(Escrows(o))]

\* A plausible slip: mint_to of the token program instead of mint_v0.
DistributeAroundBreaker(to) ==
  /\ Due # {}
  /\ to \in DOMAIN owner /\ Escrows(owner[to]) # {}
  /\ LET emissions == Share(Escrow(owner[to]).percent, TotalEmissions)
     IN /\ supply + emissions <= U64Max
        /\ supply' = supply + emissions
        /\ received' = [received EXCEPT ![to] = @ + emissions]
  /\ UNCHANGED <<now, mint_authority, breaker, obs, schedule, distributor, owner>>

\* `schedule.emitted = true' is lost: the schedule belongs to another program, and
\* Anchor stores only the accounts of the program that runs.
DistributeEmissionV0(to) ==
  /\ Due # {}
  /\ to \in DOMAIN owner /\ Escrows(owner[to]) # {}
  /\ Escrow(owner[to]).percent * TotalEmissions <= U64Max
  /\ LET emissions == Share(Escrow(owner[to]).percent, TotalEmissions)
     IN /\ Breaker!MintV0(Distributor, emissions)
        /\ received' = [received EXCEPT ![to] = @ + emissions]
  /\ UNCHANGED <<schedule, distributor, owner>>

-----------------------------------------------------------------------------
(* The Clockwork thread *)

CronTimeIn(after, until) == \E t \in CronTimes : after < t /\ t <= until

\* The instruction after the i-th, 0 when there is none; the first comes after 0.
NextInstruction(i) == IF i < Len(distributor) THEN i + 1 ELSE 0

\* A plausible slip: the exec context keeps the time the thread started from.
KickedOffUnmarked(t) == [t EXCEPT !.next = NextInstruction(0)]

\* The schedule is skippable: the moments gone by meanwhile are not made up for.
KickedOff(t) == [next |-> NextInstruction(0), started_at |-> now]

\* The workers see the thread's account change, and count from nought.
ThreadKickoff ==
  /\ thread # None
  /\ now <= Horizon
  /\ thread.next = 0
  /\ CronTimeIn(thread.started_at, now)
  /\ thread' = KickedOff(thread)
  /\ tries' = 0
  /\ pass' = [received |-> received, supply |-> supply, low |-> 0, high |-> 0,
              strayed |-> {}, ever |-> pass.ever]
  /\ UNCHANGED <<breakerVars, schedule, distributor, recipientVars>>

\* Several instructions may share a transaction: these are then steps that follow at once.
ThreadExec ==
  /\ thread # None
  /\ thread.next # 0
  /\ tries <= MaxFailures
  /\ tries' = 0
  /\ LET to == distributor[thread.next].account
     IN /\ DistributeEmissionV0(to)
        /\ pass' = [pass EXCEPT
             !.low     = IF thread.next = 1 THEN TotalEmissions ELSE Min({@, TotalEmissions}),
             !.high    = Max({@, TotalEmissions}),
             !.strayed = IF owner[to] = to THEN @ ELSE @ \cup {to},
             !.ever    = @ \/ owner[to] # to]
  /\ thread' = [thread EXCEPT !.next = NextInstruction(@)]

\* The next instruction would be refused, or the worker's node gives no good answer: a
\* worker with too many such failures forgets the thread.  It forgets it at once when what
\* it submitted fails on the chain.
SimulationFails ==
  /\ thread # None
  /\ thread.next # 0
  /\ tries <= MaxFailures
  /\ tries' \in {tries + 1, MaxFailures + 1}
  /\ UNCHANGED <<breakerVars, schedule, distributor, thread, recipientVars, pass>>

\* The thread's account changes (a deposit of lamports is enough), a worker is started
\* again, or finds that what it submitted was lost: the thread is executable anew.
TakeUp ==
  /\ thread # None
  /\ thread.next # 0
  /\ tries # 0
  /\ tries' = 0
  /\ UNCHANGED <<breakerVars, schedule, distributor, thread, recipientVars, pass>>

-----------------------------------------------------------------------------
(* What happens around the programs *)

\* A rewards account gets its associated token account.
CreateTokenAccount(a) ==
  /\ a \notin DOMAIN owner
  /\ owner' = [b \in DOMAIN owner \cup {a} |-> IF b = a THEN a ELSE owner[b]]
  /\ UNCHANGED <<breakerVars, schedule, distributor, thread, tries, received, pass>>

\* A token account is handed to another owner.
SetOwner(a, o) ==
  /\ a \in DOMAIN owner
  /\ owner' = [owner EXCEPT ![a] = o]
  /\ UNCHANGED <<breakerVars, schedule, distributor, thread, tries, received, pass>>

\* Its owner moves what is in it elsewhere, and closes it.
CloseTokenAccount(a) ==
  /\ a \in DOMAIN owner
  /\ owner' = [b \in DOMAIN owner \ {a} |-> owner[b]]
  /\ UNCHANGED <<breakerVars, schedule, distributor, thread, tries, received, pass>>

\* The breaker's authority adjusts its threshold.
UpdateThreshold(signer, threshold) ==
  /\ Breaker!UpdateMintWindowedBreakerV0(signer, None, None, EpochConfig(threshold))
  /\ UNCHANGED <<schedule, distributor, thread, tries, recipientVars, pass>>

\* The breaker's authority deletes it.
DeleteBreaker(signer) ==
  /\ Breaker!DeleteMintWindowedCircuitBreakerV0(signer)
  /\ UNCHANGED <<schedule, distributor, thread, tries, recipientVars, pass>>

Tick ==
  /\ Breaker!Tick
  /\ UNCHANGED <<schedule, distributor, thread, tries, recipientVars, pass>>

Administration ==
  /\ now <= Horizon
  /\ \/ \E k \in Keys, items \in Schedules :
          InitializeEmissionScheduleV0(k, items) \/ UpdateEmissionScheduleV0(k, items)
     \/ \E s, a \in Keys, rewards \in RewardsArgs :
          InitializeEmissionDistributorV0(s, a, rewards)
     \/ \E a \in Owners : CreateTokenAccount(a) \/ CloseTokenAccount(a)
     \/ \E a, o \in Owners : SetOwner(a, o)
     \/ \E s \in Keys, t \in Thresholds : UpdateThreshold(s, t)
     \/ \E s \in Keys : DeleteBreaker(s)

Next == Administration \/ ThreadKickoff \/ ThreadExec \/ SimulationFails \/ TakeUp \/ Tick

\* A worker comes back to an executable thread every few slots, and its node does not
\* refuse for ever what the cluster would accept; but the thread is executable only
\* while the worker has not given it up.  The cluster's clock goes on.  Nobody has to take
\* the thread up again.
Fairness == SF_vars(ThreadExec) /\ WF_vars(Tick)

Spec == Init /\ [][Next]_vars /\ Fairness

-----------------------------------------------------------------------------
(* Properties *)

LargestPercent == Max({distributor[i].percent : i \in DOMAIN distributor})

\* The instructions that pay a recipient, of those the pass has executed.
Turns(a) ==
  Cardinality({i \in Escrows(a) : thread.next = 0 \/ i < thread.next})

\* A recipient gets its (first) percentage in every pass once for each time it is named, of an
\* emission that was in force during the pass, and nothing before its turn: none is
\* skipped or paid twice when an instruction fails and is tried again.  Where the token
\* account was another's when it was paid, the percentage is that owner's: the largest
\* at most (thread_exec, distribute_emission_v0).
FairShares ==
  distributor # None =>
    \A i \in DOMAIN distributor :
      LET a   == distributor[i].account
          own == distributor[Min(Escrows(a))].percent
          got == received[a] - pass.received[a]
      IN /\ got <= Turns(a) * Share(LargestPercent, pass.high)
         /\ a \notin pass.strayed =>
              /\ Turns(a) * Share(own, pass.low) <= got
              /\ got <= Turns(a) * Share(own, pass.high)

\* No account is named twice: the initializer does not ask for it.
Distinct ==
  \A i, j \in DOMAIN distributor :
    i # j => distributor[i].account # distributor[j].account

\* A pass mints no more than one epoch's emissions, the shares rounded down and the
\* schedule changing under it included, as long as no rewards account is named twice and
\* none is paid into an account that is another's; the largest share for every
\* instruction, whatever is done (PercentagesDontAddUp, distribute_emission_v0).
PassWithinEpoch ==
  distributor # None =>
    /\ supply - pass.supply <= Len(distributor) * Share(LargestPercent, pass.high)
    /\ Distinct /\ pass.strayed = {} => supply - pass.supply <= pass.high

\* The moments the cron schedule has named until now.
Moments(t) == Cardinality({c \in CronTimes : c <= t})

\* However late, often or overlapping the workers call, the supply is at most one pass's
\* emissions, as above, for every moment the cron schedule has named so far
\* (thread_kickoff).
EmissionsFollowTheCron ==
  distributor # None =>
    /\ supply <= Len(distributor) * Share(LargestPercent, Max(Emissions)) * Moments(now)
    /\ Distinct /\ ~pass.ever => supply <= Max(Emissions) * Moments(now)

\* What MintBreaker promises of a mint is promised of the RNDR mint: the programs
\* and the thread touch it only as MintBreaker's steps.
MintIsGuarded == Breaker!Spec

Running == thread # None /\ thread.next # 0

\* The running pass can be paid by waiting: every token account is there and somebody's
\* with an escrow, whose share can be computed and, once the breaker's window has passed
\* (which the model's bounded clock must leave time for), is within its threshold.
Payable ==
  /\ Running
  /\ breaker # None
  /\ Due # {}
  /\ \A i \in DOMAIN distributor :
       LET to == distributor[i].account
       IN /\ to \in DOMAIN owner /\ Escrows(owner[to]) # {}
          /\ Escrow(owner[to]).percent * TotalEmissions <= U64Max
          /\ Share(Escrow(owner[to]).percent, TotalEmissions) <= breaker.config.threshold
  /\ supply + Len(distributor) * Share(LargestPercent, TotalEmissions) <= U64Max
  /\ breaker.last_window.last_unix_timestamp + EpochLength <= MaxTime

\* A pass the breaker holds up is only late, as long as it stays payable and the workers
\* are made to take the thread up again whenever they have given it up; left to
\* themselves they forget it, and the pass stays where it is (distribute_emission_v0,
\* enforce_window, execute_txs).
PassCompletes == []((Running /\ [](Running => Payable) /\ []<>(tries = 0)) => <>(~Running))
=============================================================================
