--------------------- MODULE EmissionDistributionProofs ---------------------
(***************************************************************************)
(* EmissionDistribution for every schedule, every split of the rewards,    *)
(* every cron schedule and every clock.  The refinement of MintBreaker     *)
(* needs an invariant of its own: what a mint is computed from was handed  *)
(* in by somebody, and shares of that are amounts a breaker's model knows. *)
(***************************************************************************)
EXTENDS EmissionDistribution, SequenceTheorems, ArithmeticProofs

-----------------------------------------------------------------------------
(* The refinement *)

\* Schedules and rewards were handed in; the thread runs the distributor's rewards, of
\* which there are some.
HandedIn ==
  /\ schedule # None => schedule \in ScheduleType
  /\ distributor # None => distributor \in RewardsArgs /\ distributor # <<>>
  /\ thread # None => /\ thread \in ThreadType
                      /\ schedule # None /\ distributor # None
                      /\ thread.next <= Len(distributor)

Numbers == now \in Nat /\ supply \in U64

IInv == Numbers /\ HandedIn

LEMMA LenIsNat ==
  /\ \A items \in Schedules : Len(items) \in Nat /\ DOMAIN items = 1 .. Len(items)
  /\ \A rewards \in RewardsArgs : Len(rewards) \in Nat /\ DOMAIN rewards = 1 .. Len(rewards)
  BY ScheduleAssumption, RewardsAssumption

\* Rewards have a percentage and an owner each.
LEMMA RewardsType ==
  ASSUME NEW rewards \in RewardsArgs
  PROVE  /\ DOMAIN rewards = 1 .. Len(rewards) /\ Len(rewards) \in Nat
         /\ \A i \in DOMAIN rewards :
              rewards[i].percent \in Nat /\ rewards[i].account \in Owners
<1>1. rewards \in Seq([account: Owners, percent: 0 .. 255])
  BY RewardsAssumption
<1>2. DOMAIN rewards = 1 .. Len(rewards) /\ Len(rewards) \in Nat
  BY LenIsNat
<1>3. ASSUME NEW i \in 1 .. Len(rewards)
      PROVE  rewards[i].percent \in Nat /\ rewards[i].account \in Owners
  <2>1. rewards[i] \in [account: Owners, percent: 0 .. 255]
    BY <1>1, <1>3, ElementOfSeq
  <2>2. rewards[i].percent \in 0 .. 255 /\ rewards[i].account \in Owners
    BY <2>1
  <2>3. 0 .. 255 \subseteq Nat
    OBVIOUS
  <2> QED BY <2>2, <2>3
<1> QED BY <1>2, <1>3

LEMMA PercentsSumUp ==
  ASSUME NEW rewards \in RewardsArgs
  PROVE  TotalPercent(rewards)
           = Total([i \in DOMAIN rewards |-> rewards[i].percent], 1 .. Len(rewards))
<1> DEFINE f == [i \in DOMAIN rewards |-> rewards[i].percent]
<1>1. /\ DOMAIN f = 1 .. Len(rewards) /\ IsFiniteSet(1 .. Len(rewards))
      /\ \A i \in 1 .. Len(rewards) : f[i] \in Nat
  <2>1. DOMAIN rewards = 1 .. Len(rewards) /\ Len(rewards) \in Nat
    BY RewardsType
  <2> QED BY <2>1, RewardsType, UpToIsFinite
<1>2. SumFunctionOnSet(f, 1 .. Len(rewards)) = Total(f, 1 .. Len(rewards))
  <2> HIDE DEF f
  <2> QED BY <1>1, SumIsTotal
<1> QED BY <1>1, <1>2 DEF TotalPercent, SumFunction

\* No rewards at all do not add up.
LEMMA SomeRewards ==
  ASSUME NEW rewards \in RewardsArgs, PercentagesAddUp(rewards)
  PROVE  rewards # <<>>
<1> SUFFICES ASSUME rewards = <<>> PROVE FALSE
  OBVIOUS
<1>1. 1 .. Len(rewards) = {}
  OBVIOUS
<1>2. TotalPercent(rewards) = 0
  BY <1>1, PercentsSumUp, TotalEmpty
<1> QED BY <1>2 DEF PercentagesAddUp

LEMMA InitIInv == Init => IInv
  BY U64MaxAssumption DEF Init, Breaker!Init, IInv, Numbers, HandedIn, U64

\* Each kind of step hands on what was handed in.
LEMMA HandedInPreserved == IInv /\ [Next]_vars => HandedIn'
<1> SUFFICES ASSUME HandedIn, now \in Nat, [Next]_vars PROVE HandedIn'
  BY DEF IInv, Numbers
<1> USE DEF HandedIn, ScheduleType, ThreadType
<1>1. ASSUME NEW k \in Keys, NEW items \in Schedules, InitializeEmissionScheduleV0(k, items)
      PROVE  HandedIn'
  BY <1>1, LenIsNat, AbsentAssumption DEF InitializeEmissionScheduleV0
<1>2. ASSUME NEW k \in Keys, NEW items \in Schedules, UpdateEmissionScheduleV0(k, items)
      PROVE  HandedIn'
  BY <1>2, LenIsNat, AbsentAssumption DEF UpdateEmissionScheduleV0
<1>3. ASSUME NEW s \in Keys, NEW a \in Keys, NEW rewards \in RewardsArgs,
             InitializeEmissionDistributorV0(s, a, rewards)
      PROVE  HandedIn'
  <2>1. /\ distributor' = rewards
        /\ thread' = [next |-> 0, started_at |-> now]
        /\ UNCHANGED schedule /\ schedule # None
    BY <1>3 DEF InitializeEmissionDistributorV0
  <2>2. rewards # None /\ rewards # <<>>
    BY <1>3, RewardsAssumption, SomeRewards DEF InitializeEmissionDistributorV0
  <2> QED BY <2>1, <2>2, LenIsNat
<1>4. CASE ThreadKickoff
  BY <1>4, LenIsNat DEF ThreadKickoff, KickedOff, NextInstruction, breakerVars
<1>5. CASE ThreadExec
  <2>1. /\ thread # None /\ UNCHANGED <<schedule, distributor>>
        /\ thread' = [thread EXCEPT !.next = NextInstruction(@)]
    BY <1>5 DEF ThreadExec, DistributeEmissionV0
  <2> QED BY <2>1, LenIsNat DEF NextInstruction
<1>6. CASE UNCHANGED <<schedule, distributor, thread>>
  BY <1>6
<1> QED
  BY <1>1, <1>2, <1>3, <1>4, <1>5, <1>6
  DEF Next, Administration, CreateTokenAccount, CloseTokenAccount, SetOwner, SimulationFails,
      TakeUp, UpdateThreshold, DeleteBreaker, Tick, vars

\* What a distribution draws on is an item of the schedule.
LEMMA EmissionHandedIn ==
  ASSUME IInv, schedule # None, Due # {}
  PROVE  TotalEmissions \in Emissions /\ TotalEmissions \in U64
<1>1. schedule.items \in Schedules /\ schedule.items \in Seq(ItemType)
  BY ScheduleAssumption DEF IInv, HandedIn, ScheduleType
<1>2. Min(Due) \in DOMAIN schedule.items
  <2>1. Due \subseteq DOMAIN schedule.items /\ DOMAIN schedule.items \subseteq Nat
    BY <1>1 DEF Due
  <2> QED BY <2>1, MinIsLeast
<1>3. TotalEmissions \in {schedule.items[i].emissions_per_epoch : i \in DOMAIN schedule.items}
  BY <1>2 DEF TotalEmissions
<1>4. TotalEmissions \in Emissions
  BY <1>1, <1>3 DEF Emissions
<1>5. TotalEmissions \in U64
  <2>1. schedule.items[Min(Due)] \in ItemType
    BY <1>1, <1>2
  <2> QED BY <2>1 DEF TotalEmissions, ItemType
<1> QED BY <1>4, <1>5

\* A percentage that is paid is one that was handed in.
LEMMA EscrowHandedIn ==
  ASSUME distributor \in RewardsArgs, NEW o, Escrows(o) # {}
  PROVE  /\ Min(Escrows(o)) \in DOMAIN distributor
         /\ Min(Escrows(o)) \in Escrows(o)
         /\ Escrow(o).percent \in Percentages /\ Escrow(o).percent \in Nat
<1>1. Escrows(o) \subseteq DOMAIN distributor /\ DOMAIN distributor \subseteq Nat
  BY RewardsType DEF Escrows
<1>2. Min(Escrows(o)) \in Escrows(o)
  BY <1>1, MinIsLeast
<1>3. Escrow(o).percent \in {distributor[i].percent : i \in DOMAIN distributor}
  BY <1>1, <1>2 DEF Escrow
<1>4. Escrow(o).percent \in Percentages
  BY <1>3 DEF Percentages
<1>5. Escrow(o).percent \in Nat
  BY <1>1, <1>2, RewardsType DEF Escrow
<1> QED BY <1>1, <1>2, <1>4, <1>5

\* Every step is a step of the mint's breaker, or leaves it and the mint alone.
LEMMA Simulation == IInv /\ [Next]_vars => [Breaker!Next]_(Breaker!vars)
<1> SUFFICES ASSUME IInv, [Next]_vars PROVE [Breaker!Next]_(Breaker!vars)
  OBVIOUS
<1>1. ASSUME NEW s \in Keys, NEW a \in Keys, NEW rewards \in RewardsArgs,
             InitializeEmissionDistributorV0(s, a, rewards)
      PROVE  Breaker!Next
  <2> DEFINE first == schedule.items[1].emissions_per_epoch
  <2>1. schedule.items \in Schedules /\ schedule.items \in Seq(ItemType)
    BY <1>1, ScheduleAssumption
    DEF InitializeEmissionDistributorV0, IInv, HandedIn, ScheduleType
  <2>2. 1 \in DOMAIN schedule.items
    BY <1>1, <2>1 DEF InitializeEmissionDistributorV0
  <2>3. first \in Emissions
    BY <2>1, <2>2 DEF Emissions
  <2>4. Breaker!InitializeMintWindowedBreakerV0(s, a, Distributor, EpochConfig(first))
    BY <1>1 DEF InitializeEmissionDistributorV0
  <2> QED BY <2>3, <2>4 DEF Breaker!Next
<1>2. CASE ThreadExec
  <2> DEFINE o == owner[distributor[thread.next].account]
             n == Share(Escrow(o).percent, TotalEmissions)
  <2>1. /\ thread # None /\ Due # {} /\ Escrows(o) # {}
        /\ Escrow(o).percent * TotalEmissions <= U64Max
        /\ Breaker!MintV0(Distributor, n)
    BY <1>2 DEF ThreadExec, DistributeEmissionV0
  <2>2. schedule # None /\ distributor \in RewardsArgs
    BY <2>1 DEF IInv, HandedIn
  <2>3. /\ TotalEmissions \in Emissions /\ TotalEmissions \in Nat
        /\ Escrow(o).percent \in Percentages /\ Escrow(o).percent \in Nat
    BY <2>1, <2>2, EmissionHandedIn, EscrowHandedIn, U64MaxAssumption DEF U64
  <2>4. n \in U64
    <3> HIDE DEF o
    <3>1. Escrow(o).percent * TotalEmissions \in U64
      BY <2>1, <2>3, U64MaxAssumption DEF U64
    <3>2. \A x \in U64 : x \div 100 \in U64
      BY U64MaxAssumption DEF U64
    <3> QED BY <3>1, <3>2 DEF Share
  <2>5. n \in {Share(p, e) : p \in Percentages, e \in Emissions} \cap U64
    BY <2>3, <2>4
  <2> QED BY <2>1, <2>5 DEF Breaker!Next
<1>3. ASSUME NEW s \in Keys, NEW t \in Thresholds, UpdateThreshold(s, t)
      PROVE  Breaker!Next
  BY <1>3 DEF UpdateThreshold, Breaker!Next
<1>4. ASSUME NEW s \in Keys, DeleteBreaker(s)
      PROVE  Breaker!Next
  BY <1>4 DEF DeleteBreaker, Breaker!Next
<1>5. CASE Tick
  BY <1>5 DEF Tick, Breaker!Next
<1>6. CASE UNCHANGED breakerVars
  BY <1>6 DEF breakerVars, Breaker!vars
<1> QED
  BY <1>1, <1>2, <1>3, <1>4, <1>5, <1>6
  DEF Next, Administration, InitializeEmissionScheduleV0, UpdateEmissionScheduleV0,
      CreateTokenAccount, CloseTokenAccount, SetOwner, SimulationFails, TakeUp, ThreadKickoff,
      vars, breakerVars

LEMMA NumbersPreserved == Numbers /\ [Breaker!Next]_(Breaker!vars) => Numbers'
<1> SUFFICES ASSUME Numbers, [Breaker!Next]_(Breaker!vars) PROVE Numbers'
  OBVIOUS
<1> USE DEF Numbers, U64
<1>1. ASSUME NEW s, NEW n \in U64,
             Breaker!MintV0(s, n) \/ Breaker!MintToDirectly(s, n) \/ Breaker!Burn(n)
      PROVE  Numbers'
  BY <1>1, U64MaxAssumption DEF Breaker!MintV0, Breaker!MintToDirectly, Breaker!Burn
<1>2. CASE Breaker!Tick
  BY <1>2 DEF Breaker!Tick
<1>3. CASE UNCHANGED <<now, supply>>
  BY <1>3
<1>4. ASSUME NEW s, NEW a, NEW m, NEW c,
             Breaker!InitializeMintWindowedBreakerV0(s, a, m, c)
             \/ Breaker!UpdateMintWindowedBreakerV0(s, a, m, c)
             \/ Breaker!DeleteMintWindowedCircuitBreakerV0(s)
             \/ Breaker!Observe
      PROVE  UNCHANGED <<now, supply>>
  BY <1>4 DEF Breaker!InitializeMintWindowedBreakerV0, Breaker!UpdateMintWindowedBreakerV0,
              Breaker!DeleteMintWindowedCircuitBreakerV0, Breaker!Observe
<1>5. CASE UNCHANGED Breaker!vars
  BY <1>3, <1>5 DEF Breaker!vars
<1>6. CASE Breaker!Next
  <2> HIDE DEF Numbers, U64
  <2> QED BY <1>1, <1>2, <1>3, <1>4, <1>6 DEF Breaker!Next
<1> QED BY <1>5, <1>6

LEMMA Invariance == Spec => []IInv
<1>1. IInv /\ [Next]_vars => IInv'
  BY HandedInPreserved, Simulation, NumbersPreserved DEF IInv
<1> QED BY <1>1, InitIInv, PTL DEF Spec

\* What MintBreaker promises of a mint (SpanBound, NoMintAroundBreaker,
\* DeletionIsFinal, proved there) is promised of the RNDR mint.
THEOREM EmissionsImplementMintBreaker == Spec => MintIsGuarded
<1>1. Init => Breaker!Init
  BY DEF Init
<1> QED BY <1>1, Invariance, Simulation, PTL DEF Spec, MintIsGuarded, Breaker!Spec

-----------------------------------------------------------------------------
(* What every recipient gets of a pass *)

\* Nothing is forgotten, and before there is a distributor there is nothing to tell.
Books ==
  /\ received \in [Owners -> Nat]
  /\ pass \in [received: [Owners -> Nat], supply: U64, low: U64, high: U64,
               strayed: SUBSET Owners, ever: BOOLEAN]

Fresh ==
  distributor = None =>
    /\ \A a \in Owners : received[a] = 0 /\ pass.received[a] = 0
    /\ pass.low = 0 /\ pass.high = 0

\* What was minted for the recipient since the pass started, and its own percentage.
Got(a) == received[a] - pass.received[a]
Own(a) == distributor[Min(Escrows(a))].percent

FairTo(a) ==
  /\ Got(a) <= Turns(a) * Share(LargestPercent, pass.high)
  /\ Escrows(a) # {} /\ a \notin pass.strayed =>
       /\ Turns(a) * Share(Own(a), pass.low) <= Got(a)
       /\ Got(a) <= Turns(a) * Share(Own(a), pass.high)

FairToAll == \A a \in Owners : FairTo(a)

Fair == distributor # None => thread # None /\ FairToAll

SharesInv == Books /\ Fresh /\ Fair

LEMMA FairIsFairShares ==
  ASSUME Fair, distributor # None => distributor \in RewardsArgs
  PROVE  FairShares
<1> SUFFICES ASSUME distributor # None, NEW i \in DOMAIN distributor
             PROVE  LET a   == distributor[i].account
                        own == distributor[Min(Escrows(a))].percent
                        got == received[a] - pass.received[a]
                    IN /\ got <= Turns(a) * Share(LargestPercent, pass.high)
                       /\ a \notin pass.strayed =>
                            /\ Turns(a) * Share(own, pass.low) <= got
                            /\ got <= Turns(a) * Share(own, pass.high)
  BY DEF FairShares
<1>1. PICK a \in Owners : a = distributor[i].account
  BY RewardsType
<1>2. i \in Escrows(a)
  BY <1>1 DEF Escrows
<1>3. FairTo(a) /\ Escrows(a) # {}
  BY <1>2 DEF Fair, FairToAll
<1>4. /\ received[a] - pass.received[a] <= Turns(a) * Share(LargestPercent, pass.high)
      /\ a \notin pass.strayed =>
           /\ Turns(a) * Share(distributor[Min(Escrows(a))].percent, pass.low)
                <= received[a] - pass.received[a]
           /\ received[a] - pass.received[a]
                <= Turns(a) * Share(distributor[Min(Escrows(a))].percent, pass.high)
  BY <1>3 DEF FairTo, Own, Got
<1> QED BY <1>1, <1>4

\* A product grows with its second factor.
LEMMA TimesGrows ==
  ASSUME NEW m \in Nat, NEW x \in Nat, NEW y \in Nat, x <= y
  PROVE  m * x \in Nat /\ m * y \in Nat /\ m * x <= m * y
<1>1. PICK d \in Nat : y = x + d
  BY y - x \in Nat, y = x + (y - x)
<1>2. m * d \in Nat /\ m * x \in Nat /\ m * y = m * x + m * d
  BY <1>1
<1> QED BY <1>2

LEMMA ShareIsNat ==
  ASSUME NEW p \in Nat, NEW x \in Nat
  PROVE  Share(p, x) \in Nat
<1>1. p * x \in Nat
  OBVIOUS
<1>2. \A y \in Nat : y \div 100 \in Nat
  OBVIOUS
<1> QED BY <1>1, <1>2 DEF Share

\* A larger percentage of a larger emission is a larger share.
LEMMA ShareGrows ==
  ASSUME NEW p \in Nat, NEW q \in Nat, p <= q, NEW x \in Nat, NEW y \in Nat, x <= y
  PROVE  /\ Share(p, x) \in Nat /\ Share(q, y) \in Nat
         /\ Share(p, x) <= Share(q, y)
<1> DEFINE u == p * x
           v == q * y
<1>1. u \in Nat /\ v \in Nat
  OBVIOUS
<1>2. u <= v
  <2>1. p * x <= p * y
    BY TimesGrows
  <2>2. y * p <= y * q
    BY TimesGrows
  <2>3. y * p = p * y /\ y * q = q * y /\ p * x \in Nat /\ p * y \in Nat /\ q * y \in Nat
    OBVIOUS
  <2> QED BY <2>1, <2>2, <2>3
<1> HIDE DEF u, v
<1>3. u \div 100 \in Nat /\ v \div 100 \in Nat /\ u \div 100 <= v \div 100
  BY <1>1, <1>2
<1> QED BY <1>3 DEF u, v, Share

LEMMA NothingHasNoShare ==
  ASSUME NEW p \in Nat
  PROVE  Share(p, 0) = 0
<1>1. p * 0 = 0 /\ 0 \div 100 = 0
  OBVIOUS
<1> QED BY <1>1 DEF Share

\* After t instructions a recipient has at least t of the least shares, and then so after
\* one more, or when another is paid: the least may have become less.
LEMMA AtLeast ==
  ASSUME NEW t \in Nat, NEW g \in Int, NEW p \in Nat, NEW e \in Nat,
         NEW l \in Nat, NEW m \in Nat, m <= e, t = 0 \/ m <= l, t * Share(p, l) <= g
  PROVE  t * Share(p, m) <= g /\ (t + 1) * Share(p, m) <= g + Share(p, e)
<1>1. PICK x \in Nat : x = Share(p, l)
  BY ShareIsNat
<1>2. PICK y \in Nat : y = Share(p, m)
  BY ShareIsNat
<1>3. PICK z \in Nat : z = Share(p, e)
  BY ShareIsNat
<1>4. y <= z /\ (t = 0 \/ y <= x)
  <2>1. p <= p
    OBVIOUS
  <2>2. Share(p, m) <= Share(p, e) /\ (m <= l => Share(p, m) <= Share(p, l))
    BY <2>1, ShareGrows
  <2> QED BY <1>1, <1>2, <1>3, <2>2
<1>5. t * y <= t * x /\ t * y \in Nat /\ t * x \in Nat
  <2>1. CASE t = 0
    BY <2>1
  <2>2. CASE y <= x
    BY <2>2, TimesGrows
  <2> QED BY <1>4, <2>1, <2>2
<1>6. (t + 1) * y = t * y + y
  OBVIOUS
<1>7. t * x <= g
  BY <1>1
<1>8. t * y <= g /\ (t + 1) * y <= g + z
  BY ONLY <1>4, <1>5, <1>6, <1>7, g \in Int, y \in Nat, z \in Nat
<1> QED BY <1>2, <1>3, <1>8

\* And it has at most t of the largest.
LEMMA AtMost ==
  ASSUME NEW t \in Nat, NEW g \in Int, NEW p \in Nat, NEW q \in Nat, NEW e \in Nat,
         NEW h \in Nat, NEW m \in Nat, p <= q, e <= m, h <= m, g <= t * Share(q, h)
  PROVE  g <= t * Share(q, m) /\ g + Share(p, e) <= (t + 1) * Share(q, m)
<1>1. PICK x \in Nat : x = Share(q, h)
  BY ShareIsNat
<1>2. PICK y \in Nat : y = Share(q, m)
  BY ShareIsNat
<1>3. PICK z \in Nat : z = Share(p, e)
  BY ShareIsNat
<1>3a. x <= y /\ z <= y
  <2>1. q <= q
    OBVIOUS
  <2>2. Share(q, h) <= Share(q, m) /\ Share(p, e) <= Share(q, m)
    BY <2>1, ShareGrows
  <2> QED BY <1>1, <1>2, <1>3, <2>2
<1>4. t * x <= t * y /\ t * y \in Nat /\ t * x \in Nat
  BY <1>3a, TimesGrows
<1>5. (t + 1) * y = t * y + y
  OBVIOUS
<1>6. g <= t * x
  BY <1>1
<1>7. g <= t * y /\ g + z <= (t + 1) * y
  BY ONLY <1>3a, <1>4, <1>5, <1>6, g \in Int, y \in Nat, z \in Nat
<1> QED BY <1>2, <1>3, <1>7

LEMMA LargestOfThem ==
  ASSUME distributor \in RewardsArgs, distributor # <<>>
  PROVE  /\ LargestPercent \in Nat
         /\ \A i \in DOMAIN distributor : distributor[i].percent <= LargestPercent
<1> DEFINE P == {distributor[i].percent : i \in DOMAIN distributor}
<1>1. \A i \in DOMAIN distributor : distributor[i].percent \in 0 .. 255
  <2>1. /\ distributor \in Seq([account: Owners, percent: 0 .. 255])
        /\ DOMAIN distributor = 1 .. Len(distributor)
    BY RewardsAssumption, LenIsNat
  <2>2. ASSUME NEW i \in 1 .. Len(distributor)
        PROVE  distributor[i] \in [account: Owners, percent: 0 .. 255]
    BY <2>1, ElementOfSeq
  <2> QED BY <2>1, <2>2
<1>2. P \subseteq Nat /\ 255 \in Nat /\ \A y \in P : y <= 255
  <2>1. \A y \in 0 .. 255 : y \in Nat /\ y <= 255
    OBVIOUS
  <2>2. P \subseteq 0 .. 255
    BY <1>1
  <2> HIDE DEF P
  <2> QED BY <2>1, <2>2
<1>3. P # {}
  <2>1. 1 \in DOMAIN distributor
    BY RewardsAssumption
  <2> QED BY <2>1
<1>4. Max(P) \in P /\ \A y \in P : y <= Max(P)
  <2> HIDE DEF P
  <2> QED BY <1>2, <1>3, MaxIsGreatest
<1> QED BY <1>2, <1>4 DEF LargestPercent

\* There are finitely many instructions; one more is done by each of them, for the
\* recipient that is paid.
LEMMA TurnsType ==
  ASSUME distributor \in RewardsArgs, NEW a
  PROVE  /\ IsFiniteSet({i \in Escrows(a) : thread.next = 0 \/ i < thread.next})
         /\ Turns(a) \in Nat
<1>1. IsFiniteSet(DOMAIN distributor)
  BY RewardsType, UpToIsFinite
<1>2. {i \in Escrows(a) : thread.next = 0 \/ i < thread.next} \in SUBSET DOMAIN distributor
  BY DEF Escrows
<1> QED BY <1>1, <1>2, FS_Subset, FS_CardinalityType DEF Turns

LEMMA ExecTurns ==
  ASSUME distributor \in RewardsArgs, UNCHANGED distributor,
         thread.next \in 1 .. Len(distributor), thread'.next = NextInstruction(thread.next),
         NEW a
  PROVE  /\ Turns(a)' = IF distributor[thread.next].account = a
                        THEN Turns(a) + 1 ELSE Turns(a)
         /\ thread.next = 1 => Turns(a) = 0
<1> DEFINE k     == thread.next
           Done  == {i \in Escrows(a) : thread.next = 0 \/ i < thread.next}
<1>1. /\ DOMAIN distributor = 1 .. Len(distributor) /\ Len(distributor) \in Nat
      /\ k \in Nat /\ k >= 1 /\ k <= Len(distributor)
  BY RewardsType
<1>2. IsFiniteSet(Done) /\ Turns(a) = Cardinality(Done)
  BY TurnsType DEF Turns
<1>3. Escrows(a)' = Escrows(a) /\ Escrows(a) \subseteq 1 .. Len(distributor)
  BY <1>1 DEF Escrows
<1>4. Done' = {i \in Escrows(a) : i <= k}
  BY <1>1, <1>3 DEF NextInstruction
<1>5. Done = {i \in Escrows(a) : i < k}
  BY <1>1
<1>6. Turns(a)' = Cardinality(Done')
  BY DEF Turns
<1>7. distributor[k].account = a => Turns(a)' = Turns(a) + 1
  <2> SUFFICES ASSUME distributor[k].account = a PROVE Turns(a)' = Turns(a) + 1
    OBVIOUS
  <2>1. k \in Escrows(a)
    BY <1>1 DEF Escrows
  <2>2. Done' = Done \cup {k} /\ k \notin Done
    BY <1>1, <1>3, <1>4, <1>5, <2>1
  <2>3. Cardinality(Done \cup {k}) = Cardinality(Done) + 1
    <3> HIDE DEF Done
    <3> QED BY <1>2, <2>2, FS_AddElement
  <2> QED BY <1>2, <1>6, <2>2, <2>3
<1>8. distributor[k].account # a => Turns(a)' = Turns(a)
  <2> SUFFICES ASSUME distributor[k].account # a PROVE Turns(a)' = Turns(a)
    OBVIOUS
  <2>1. k \notin Escrows(a)
    BY DEF Escrows
  <2>2. Done' = Done
    BY <1>1, <1>3, <1>4, <1>5, <2>1
  <2> QED BY <1>2, <1>6, <2>2
<1>9. k = 1 => Done = {}
  BY <1>3, <1>5
<1> QED BY <1>2, <1>7, <1>8, <1>9, FS_EmptySet

LEMMA InitShares == Init => SharesInv
<1> SUFFICES ASSUME Init PROVE SharesInv
  OBVIOUS
<1>1. NothingReceived \in [Owners -> Nat]
  BY DEF NothingReceived
<1>2. /\ received = NothingReceived /\ distributor = None
      /\ pass = [received |-> NothingReceived, supply |-> 0, low |-> 0, high |-> 0,
                 strayed |-> {}, ever |-> FALSE]
  BY DEF Init
<1>3. Books
  <2>1. 0 \in U64
    BY U64MaxAssumption DEF U64
  <2> QED BY <1>1, <1>2, <2>1 DEF Books
<1> QED BY <1>2, <1>3 DEF SharesInv, Fresh, Fair, NothingReceived

\* Nobody has got anything, of nothing: any split is fair.
Nothing ==
  /\ distributor \in RewardsArgs /\ distributor # <<>>
  /\ pass.low = 0 /\ pass.high = 0
  /\ \A a \in Owners : Got(a) = 0

LEMMA NothingIsFair == Nothing => FairToAll
<1> SUFFICES ASSUME Nothing, NEW a \in Owners PROVE FairTo(a)
  BY DEF FairToAll
<1>1. LargestPercent \in Nat /\ Turns(a) \in Nat
  BY LargestOfThem, TurnsType DEF Nothing
<1>2. Escrows(a) # {} => Own(a) \in Nat
  BY EscrowHandedIn DEF Own, Escrow, Nothing
<1>3. Share(LargestPercent, 0) = 0 /\ (Escrows(a) # {} => Share(Own(a), 0) = 0)
  BY <1>1, <1>2, NothingHasNoShare
<1>4. Turns(a) * 0 = 0
  BY <1>1
<1> QED BY <1>3, <1>4 DEF FairTo, Nothing

\* A new distributor: nobody has got anything, and no pass has drawn on anything.
LEMMA InitializeShares ==
  ASSUME IInv, IInv', SharesInv, NEW s \in Keys, NEW a \in Keys, NEW rewards \in RewardsArgs,
         InitializeEmissionDistributorV0(s, a, rewards)
  PROVE  SharesInv'
<1>1. /\ distributor = None /\ distributor' = rewards /\ rewards # None
      /\ thread' # None /\ UNCHANGED <<received, pass>>
  <2>1. [next |-> 0, started_at |-> now] \in ThreadType
    BY DEF IInv, Numbers, ThreadType
  <2> QED
    BY <2>1, AbsentAssumption, RewardsAssumption
    DEF InitializeEmissionDistributorV0, recipientVars
<1>2. Books' /\ Fresh'
  BY <1>1 DEF SharesInv, Books, Fresh
<1>3. FairToAll'
  <2>1. Nothing'
    BY <1>1 DEF SharesInv, Fresh, Got, IInv, HandedIn, Nothing
  <2> QED BY <2>1, NothingIsFair, PTL
<1> QED BY <1>1, <1>2, <1>3 DEF SharesInv, Fair

\* A kickoff starts the pass from what everybody has.
LEMMA KickoffShares ==
  ASSUME IInv, IInv', SharesInv, ThreadKickoff
  PROVE  SharesInv'
<1>1. /\ distributor \in RewardsArgs /\ distributor # None /\ distributor # <<>>
      /\ thread' # None
      /\ pass' = [received |-> received, supply |-> supply, low |-> 0, high |-> 0,
                  strayed |-> {}, ever |-> pass.ever]
      /\ UNCHANGED <<received, distributor>>
      /\ supply \in U64 /\ 0 \in U64
  <2>1. Len(distributor) \in Nat /\ thread # None /\ distributor \in RewardsArgs
    BY LenIsNat DEF ThreadKickoff, IInv, HandedIn
  <2>2. thread' \in ThreadType
    BY <2>1 DEF ThreadKickoff, KickedOff, NextInstruction, IInv, Numbers, ThreadType
  <2> QED
    BY <2>1, <2>2, AbsentAssumption, U64MaxAssumption
    DEF ThreadKickoff, KickedOff, IInv, Numbers, HandedIn, U64, recipientVars
<1>2. Books' /\ Fresh'
  BY <1>1 DEF SharesInv, Books, Fresh
<1>3. FairToAll'
  <2>1. Nothing'
    BY <1>1 DEF SharesInv, Books, Got, Nothing
  <2> QED BY <2>1, NothingIsFair, PTL
<1> QED BY <1>1, <1>2, <1>3 DEF SharesInv, Fair

\* Two naturals have a smaller and a larger one.
LEMMA OfTwo ==
  ASSUME NEW x \in Nat, NEW y \in Nat
  PROVE  /\ Min({x, y}) \in {x, y} /\ Max({x, y}) \in {x, y}
         /\ Min({x, y}) \in Nat /\ Min({x, y}) <= x /\ Min({x, y}) <= y
         /\ Max({x, y}) \in Nat /\ Max({x, y}) >= x /\ Max({x, y}) >= y
<1>1. Min({x, y}) \in {x, y} /\ \A z \in {x, y} : Min({x, y}) <= z
  BY MinIsLeast
<1>2. Max({x, y}) \in {x, y} /\ \A z \in {x, y} : Max({x, y}) >= z
  <2>1. \E m \in {x, y} : \A z \in {x, y} : m >= z
    BY x >= y \/ y >= x
  <2> QED BY <2>1 DEF Max
<1> QED BY <1>1, <1>2

\* The token account the thread's instruction pays into, and how much it pays.
To == distributor[thread.next].account
Paying == Share(Escrow(owner[To]).percent, TotalEmissions)

\* One instruction of the thread, seen from the mint ...
LEMMA ExecMints ==
  ASSUME IInv, ThreadExec
  PROVE  /\ distributor \in RewardsArgs /\ distributor # None /\ distributor # <<>>
         /\ thread.next \in 1 .. Len(distributor) /\ To \in Owners
         /\ Escrow(owner[To]).percent \in Nat
         /\ Escrow(owner[To]).percent <= LargestPercent
         /\ TotalEmissions \in U64 /\ TotalEmissions \in Nat /\ TotalEmissions \in Emissions
         /\ Paying \in Nat
         /\ supply' = supply + Paying
         /\ received' = [received EXCEPT ![To] = @ + Paying]
         /\ thread' \in ThreadType /\ thread' # None
         /\ thread'.next = NextInstruction(thread.next)
         /\ thread'.started_at = thread.started_at
         /\ UNCHANGED <<distributor, now, owner>>
<1>1. /\ distributor \in RewardsArgs /\ distributor # None /\ distributor # <<>>
      /\ schedule # None /\ Due # {} /\ thread \in ThreadType
      /\ thread.next \in 1 .. Len(distributor) /\ Escrows(owner[To]) # {}
  BY LenIsNat DEF ThreadExec, DistributeEmissionV0, IInv, HandedIn, ThreadType, To
<1>2. TotalEmissions \in U64 /\ TotalEmissions \in Nat /\ TotalEmissions \in Emissions
  BY <1>1, EmissionHandedIn, U64MaxAssumption DEF U64
<1>3. To \in Owners
  BY <1>1, RewardsType DEF To
<1>4. Escrow(owner[To]).percent \in Nat /\ Escrow(owner[To]).percent <= LargestPercent
  <2>1. /\ Min(Escrows(owner[To])) \in DOMAIN distributor
        /\ Escrow(owner[To]).percent \in Nat
    BY <1>1, EscrowHandedIn
  <2> QED BY <1>1, <2>1, LargestOfThem DEF Escrow
<1>5. Paying \in Nat
  BY <1>2, <1>4, ShareIsNat DEF Paying
<1>6. /\ supply' = supply + Paying
      /\ received' = [received EXCEPT ![To] = @ + Paying]
      /\ UNCHANGED <<distributor, now, owner>>
      /\ thread' = [thread EXCEPT !.next = NextInstruction(@)]
  BY DEF ThreadExec, DistributeEmissionV0, Breaker!MintV0, To, Paying
<1>7. /\ thread' \in ThreadType /\ thread'.next = NextInstruction(thread.next)
      /\ thread'.started_at = thread.started_at
  BY <1>1, <1>6, LenIsNat DEF NextInstruction, ThreadType
<1>8. thread' # None
  BY <1>7, AbsentAssumption
<1> QED BY <1>1, <1>2, <1>3, <1>4, <1>5, <1>6, <1>7, <1>8

\* ... and from the history of the pass.
LEMMA ExecDraws ==
  ASSUME IInv, Books, ThreadExec
  PROVE  /\ pass'.received = pass.received /\ pass'.supply = pass.supply
         /\ pass.low \in Nat /\ pass'.low \in Nat /\ pass'.low <= TotalEmissions
         /\ thread.next # 1 => pass'.low <= pass.low
         /\ pass.high \in Nat /\ pass'.high \in Nat /\ pass'.high \in {pass.high, TotalEmissions}
         /\ pass.high <= pass'.high /\ TotalEmissions <= pass'.high
         /\ pass.strayed \subseteq pass'.strayed /\ (pass.ever => pass'.ever)
         /\ owner[To] # To => To \in pass'.strayed /\ pass'.ever
         /\ pass'.strayed # pass.strayed => pass'.ever
         /\ pass' \in [received: [Owners -> Nat], supply: U64, low: U64, high: U64,
                       strayed: SUBSET Owners, ever: BOOLEAN]
<1>1. PICK e : e = TotalEmissions
  OBVIOUS
<1>2. e \in U64 /\ e \in Nat /\ To \in Owners
  BY <1>1, ExecMints
<1>3. /\ pass.low \in Nat /\ pass.high \in Nat /\ pass.low \in U64 /\ pass.high \in U64
      /\ pass \in [received: [Owners -> Nat], supply: U64, low: U64, high: U64,
                   strayed: SUBSET Owners, ever: BOOLEAN]
  BY U64MaxAssumption DEF Books, U64
<1>4. pass' = [pass EXCEPT !.low     = IF thread.next = 1 THEN e ELSE Min({@, e}),
                           !.high    = Max({@, e}),
                           !.strayed = IF owner[To] = To THEN @ ELSE @ \cup {To},
                           !.ever    = @ \/ owner[To] # To]
  BY <1>1 DEF ThreadExec, To
<1>5. /\ pass'.received = pass.received /\ pass'.supply = pass.supply
      /\ pass'.low = IF thread.next = 1 THEN e ELSE Min({pass.low, e})
      /\ pass'.high = Max({pass.high, e})
      /\ pass'.strayed = IF owner[To] = To THEN pass.strayed ELSE pass.strayed \cup {To}
      /\ pass'.ever = (pass.ever \/ owner[To] # To)
  BY <1>3, <1>4
<1>6. /\ Min({pass.low, e}) \in {pass.low, e}
      /\ Min({pass.low, e}) \in Nat
      /\ Min({pass.low, e}) <= pass.low /\ Min({pass.low, e}) <= e
      /\ Max({pass.high, e}) \in {pass.high, e} /\ Max({pass.high, e}) \in Nat
      /\ Max({pass.high, e}) >= pass.high /\ Max({pass.high, e}) >= e
  BY <1>2, <1>3, OfTwo
<1>7. /\ pass'.low \in Nat /\ pass'.low <= e
      /\ thread.next # 1 => pass'.low <= pass.low
      /\ pass'.high \in Nat /\ pass'.high \in {pass.high, e}
      /\ pass.high <= pass'.high /\ e <= pass'.high
  BY ONLY <1>2, <1>3, <1>5, <1>6
<1>8. pass'.low \in U64 /\ pass'.high \in U64
  BY ONLY <1>2, <1>3, <1>5, <1>6
<1>9. /\ pass'.strayed \in SUBSET Owners
      /\ pass.strayed \subseteq pass'.strayed
      /\ owner[To] # To => To \in pass'.strayed
      /\ pass'.strayed # pass.strayed => owner[To] # To
  BY ONLY <1>2, <1>3, <1>5
<1>10. /\ pass'.ever \in BOOLEAN /\ (pass.ever => pass'.ever)
       /\ owner[To] # To => pass'.ever
  BY ONLY <1>3, <1>5
<1>11. pass' \in [received: [Owners -> Nat], supply: U64, low: U64, high: U64,
                  strayed: SUBSET Owners, ever: BOOLEAN]
  BY ONLY <1>3, <1>4, <1>5, <1>8, <1>9, <1>10
<1> QED BY <1>1, <1>3, <1>5, <1>7, <1>9, <1>10, <1>11

\* One recipient gets what is paid, and nobody else anything.
LEMMA ExecGot ==
  ASSUME IInv, Books, ThreadExec, NEW a \in Owners
  PROVE  /\ Got(a) \in Int
         /\ Got(a)' = IF To = a THEN Got(a) + Paying ELSE Got(a)
<1>1. /\ received \in [Owners -> Nat] /\ pass.received \in [Owners -> Nat]
  BY DEF Books
<1>2. /\ received' = [received EXCEPT ![To] = @ + Paying] /\ Paying \in Nat /\ To \in Owners
      /\ pass'.received = pass.received
  BY ExecMints, ExecDraws
<1>3. received'[a] = IF To = a THEN received[a] + Paying ELSE received[a]
  BY <1>1, <1>2
<1>4. received[a] \in Nat /\ pass.received[a] \in Nat
  BY <1>1
<1>5. Got(a)' = received'[a] - pass.received[a]
  BY <1>2 DEF Got
<1> QED BY <1>2, <1>3, <1>4, <1>5 DEF Got

\* An instruction is fair to everybody: to the one it pays, whose turn it is, and to the
\* others, for whom the emissions drawn on are only more widely spread.
LEMMA ExecFair ==
  ASSUME IInv, SharesInv, ThreadExec
  PROVE  FairToAll'
<1> SUFFICES ASSUME NEW a \in Owners PROVE FairTo(a)'
  BY DEF FairToAll
<1>1. PICK t \in Nat : t = Turns(a)
  BY ExecMints, TurnsType
<1>2. PICK g \in Int : g = Got(a)
  BY ExecGot DEF SharesInv
<1>3. PICK e \in Nat : e = TotalEmissions
  BY ExecMints
<1>4. PICK p \in Nat : p = Escrow(owner[To]).percent
  BY ExecMints
<1>5. PICK q \in Nat : q = LargestPercent /\ p <= q
  BY <1>4, ExecMints, LargestOfThem
<1>6. PICK l \in Nat, h \in Nat : l = pass.low /\ h = pass.high
  BY ExecDraws DEF SharesInv
<1>7. PICK m \in Nat, n \in Nat : m = pass'.low /\ n = pass'.high
  BY ExecDraws DEF SharesInv
<1>8. /\ m <= e /\ e <= n /\ h <= n
      /\ thread.next # 1 => m <= l
  BY <1>3, <1>6, <1>7, ExecDraws DEF SharesInv
<1>9. /\ Turns(a)' = (IF To = a THEN t + 1 ELSE t)
      /\ thread.next = 1 => t = 0
  BY <1>1, ExecMints, ExecTurns DEF To
<1>10. Got(a)' = IF To = a THEN g + Share(p, e) ELSE g
  BY <1>2, <1>3, <1>4, ExecGot DEF SharesInv, Paying
<1>11. LargestPercent' = q
  BY <1>5, ExecMints DEF LargestPercent
<1>12. FairTo(a)
  BY ExecMints DEF SharesInv, Fair, FairToAll
<1>13. Got(a)' <= Turns(a)' * Share(LargestPercent, pass.high)'
  <2>1. g <= t * Share(q, h)
    BY <1>1, <1>2, <1>5, <1>6, <1>12 DEF FairTo
  <2>2. g <= t * Share(q, n) /\ g + Share(p, e) <= (t + 1) * Share(q, n)
    BY <1>5, <1>8, <2>1, AtMost
  <2>3. Share(LargestPercent, pass.high)' = Share(q, n)
    BY <1>7, <1>11 DEF Share
  <2> QED BY <1>9, <1>10, <2>2, <2>3
<1>14. ASSUME Escrows(a) # {}, a \notin pass'.strayed
       PROVE  /\ Turns(a)' * Share(Own(a), pass.low)' <= Got(a)'
              /\ Got(a)' <= Turns(a)' * Share(Own(a), pass.high)'
  <2>1. PICK o \in Nat : o = Own(a)
    BY <1>14, ExecMints, EscrowHandedIn DEF Own, Escrow
  <2>2. a \notin pass.strayed /\ (To = a => p = o)
    BY <1>4, <1>14, <2>1, ExecDraws DEF SharesInv, Own, Escrow
  <2>3. Own(a)' = o
    BY <2>1, ExecMints DEF Own, Escrows
  <2>4. t * Share(o, l) <= g /\ g <= t * Share(o, h)
    BY <1>1, <1>2, <1>6, <1>12, <1>14, <2>1, <2>2 DEF FairTo
  <2>5. t * Share(o, m) <= g /\ (t + 1) * Share(o, m) <= g + Share(o, e)
    <3>1. t = 0 \/ m <= l
      BY <1>8, <1>9
    <3> QED BY <1>8, <2>4, <3>1, AtLeast
  <2>6. g <= t * Share(o, n) /\ g + Share(o, e) <= (t + 1) * Share(o, n)
    <3>1. o <= o
      OBVIOUS
    <3> QED BY <1>8, <2>4, <3>1, AtMost
  <2>7. Share(Own(a), pass.low)' = Share(o, m) /\ Share(Own(a), pass.high)' = Share(o, n)
    BY <1>7, <2>3 DEF Share
  <2>8. CASE To = a
    <3>1. Turns(a)' = t + 1 /\ Got(a)' = g + Share(o, e)
      BY <1>9, <1>10, <2>2, <2>8
    <3> QED BY <2>5, <2>6, <2>7, <3>1
  <2>9. CASE To # a
    <3>1. Turns(a)' = t /\ Got(a)' = g
      BY <1>9, <1>10, <2>9
    <3> QED BY <2>5, <2>6, <2>7, <3>1
  <2> QED BY <2>8, <2>9
<1>15. Escrows(a)' = Escrows(a)
  BY ExecMints DEF Escrows
<1> QED BY <1>13, <1>14, <1>15 DEF FairTo

LEMMA ExecShares ==
  ASSUME IInv, SharesInv, ThreadExec
  PROVE  SharesInv'
<1>1. Books'
  <2>1. received \in [Owners -> Nat] /\ To \in Owners /\ Paying \in Nat
        /\ received' = [received EXCEPT ![To] = @ + Paying]
    BY ExecMints DEF SharesInv, Books
  <2>2. received' \in [Owners -> Nat]
    BY ONLY <2>1
  <2> QED BY <2>2, ExecDraws DEF SharesInv, Books
<1>2. Fresh' /\ Fair'
  BY ExecMints, ExecFair DEF Fresh, Fair
<1> QED BY <1>1, <1>2 DEF SharesInv

LEMMA SharesPreserved == IInv /\ IInv' /\ SharesInv /\ [Next]_vars => SharesInv'
<1> SUFFICES ASSUME IInv, IInv', SharesInv, [Next]_vars PROVE SharesInv'
  OBVIOUS
<1>1. CASE UNCHANGED <<distributor, thread, received, pass>>
  BY <1>1 DEF SharesInv, Books, Fresh, Fair, FairToAll, FairTo, Got, Own, Turns, Escrows,
              LargestPercent
<1> QED
  BY <1>1, InitializeShares, KickoffShares, ExecShares
  DEF Next, Administration, InitializeEmissionScheduleV0, UpdateEmissionScheduleV0,
      CreateTokenAccount, CloseTokenAccount, SetOwner, SimulationFails, TakeUp,
      UpdateThreshold, DeleteBreaker, Tick, vars, recipientVars

\* Every recipient gets its percentage once in every pass for each time it is named, and
\* where its token account is another's, no more than the largest: any rewards, the ones
\* that name an account twice included, any schedule, whatever is updated, handed over,
\* closed, fails and is tried again meanwhile (thread_exec, distribute_emission_v0).
THEOREM SharesAreFair == Spec => []FairShares
<1>1. IInv /\ SharesInv => FairShares
  BY FairIsFairShares DEF IInv, HandedIn, SharesInv
<1> QED BY <1>1, InitShares, SharesPreserved, Invariance, PTL DEF Spec

-----------------------------------------------------------------------------
(* What a pass emits in all *)

\* The percentages of the first k rewards accounts.
PercentOf == [i \in DOMAIN distributor |-> distributor[i].percent]
PercentTo(k) == Total(PercentOf, 1 .. k)

\* How many accounts the pass has paid.
Paid == IF thread.next = 0 THEN Len(distributor) ELSE thread.next - 1

\* FairShares rounds every recipient's share down by itself.  What bounds their sum is
\* kept before the division: of every hundredth, the percentages paid so far.  That is
\* lost once an instruction has paid another escrow's percentage than its own; then there
\* is the largest one for each.
Drawn ==
  IF distributor = None
  THEN supply = 0 /\ pass.supply = 0 /\ pass.high = 0
  ELSE /\ PercentTo(Len(distributor)) = 100
       /\ pass.supply <= supply
       /\ supply - pass.supply <= Paid * Share(LargestPercent, pass.high)
       /\ Distinct /\ pass.strayed = {} =>
            100 * (supply - pass.supply) <= PercentTo(Paid) * pass.high

LEMMA PercentGrows ==
  ASSUME distributor \in RewardsArgs, NEW k \in 1 .. Len(distributor)
  PROVE  /\ PercentTo(k) \in Nat /\ PercentTo(k - 1) \in Nat
         /\ PercentTo(k) = distributor[k].percent + PercentTo(k - 1)
<1>1. /\ IsFiniteSet(1 .. k) /\ 1 .. k \subseteq DOMAIN distributor
      /\ k \in 1 .. k /\ (1 .. k) \ {k} = 1 .. (k - 1)
  <2>1. DOMAIN distributor = 1 .. Len(distributor) /\ Len(distributor) \in Nat /\ k \in Nat
    BY RewardsType
  <2> QED BY <2>1, UpToIsFinite
<1>2. \A i \in 1 .. k : PercentOf[i] \in Nat /\ PercentOf[i] = distributor[i].percent
  BY <1>1, RewardsType DEF PercentOf
<1>3. /\ Total(PercentOf, 1 .. k) \in Nat /\ Total(PercentOf, (1 .. k) \ {k}) \in Nat
      /\ Total(PercentOf, 1 .. k) = PercentOf[k] + Total(PercentOf, (1 .. k) \ {k})
  BY <1>1, <1>2, TotalStep
<1> QED BY <1>1, <1>2, <1>3 DEF PercentTo

LEMMA PercentAtMost ==
  ASSUME distributor \in RewardsArgs, NEW k \in 0 .. Len(distributor)
  PROVE  PercentTo(k) \in Nat /\ PercentTo(k) <= PercentTo(Len(distributor))
<1> DEFINE n == Len(distributor)
<1>1. /\ IsFiniteSet(1 .. n) /\ 1 .. k \subseteq 1 .. n
      /\ \A i \in 1 .. n : PercentOf[i] \in Nat
  <2>1. DOMAIN distributor = 1 .. n /\ n \in Nat
    BY RewardsType
  <2>2. \A i \in 1 .. n : PercentOf[i] \in Nat
    BY <2>1, RewardsType DEF PercentOf
  <2> QED BY <2>1, <2>2, UpToIsFinite
<1> HIDE DEF n
<1>2. \A i \in 1 .. n : PercentOf[i] <= PercentOf[i]
  BY <1>1
<1> QED BY <1>1, <1>2, TotalGrows DEF PercentTo, n

\* A share is at most its part of a larger emission.
LEMMA ShareAtMost ==
  ASSUME NEW p \in Nat, NEW e \in Nat, NEW h \in Nat, e <= h
  PROVE  Share(p, e) \in Nat /\ 100 * Share(p, e) <= p * h
<1>1. p * e \in Nat /\ p * h \in Nat /\ p * e <= p * h
  <2>1. PICK d \in Nat : h = e + d
    BY h - e \in Nat, h = e + (h - e)
  <2>2. p * d \in Nat /\ p * h = p * e + p * d
    BY <2>1
  <2> QED BY <2>2
<1>2. (p * e) \div 100 \in Nat /\ 100 * ((p * e) \div 100) <= p * e
  BY <1>1, DivisionFacts
<1> QED BY <1>1, <1>2 DEF Share

\* Where nobody is named twice and the token account is its recipient's, the escrow that
\* is looked up is the one of the thread's instruction.
LEMMA EscrowIsOwn ==
  ASSUME distributor \in RewardsArgs, Distinct, thread.next \in 1 .. Len(distributor),
         owner[To] = To
  PROVE  Escrow(owner[To]) = distributor[thread.next]
<1> DEFINE k == thread.next
<1>1. DOMAIN distributor \subseteq Nat /\ k \in DOMAIN distributor
  BY RewardsType
<1>2. Escrows(To) = {k}
  BY <1>1 DEF Distinct, Escrows, To
<1>3. Min(Escrows(To)) \in Escrows(To)
  BY <1>1, <1>2, MinIsLeast
<1>4. Min(Escrows(To)) = k
  BY <1>2, <1>3
<1> QED BY <1>4 DEF Escrow

LEMMA LargestIsNat ==
  distributor \in RewardsArgs /\ distributor # <<>> => LargestPercent \in Nat
  BY LargestOfThem

LEMMA InitDrawn == Init => Drawn
  BY DEF Init, Breaker!Init, Drawn

\* A new distributor's percentages add up, and nothing is drawn yet.
LEMMA InitializeDrawn ==
  ASSUME IInv, SharesInv, Drawn, NEW s \in Keys, NEW a \in Keys, NEW rewards \in RewardsArgs,
         InitializeEmissionDistributorV0(s, a, rewards)
  PROVE  Drawn'
<1>1. /\ distributor = None /\ distributor' = rewards /\ rewards # None
      /\ TotalPercent(rewards) = 100 /\ UNCHANGED <<supply, pass>>
      /\ thread' = [next |-> 0, started_at |-> now]
  BY RewardsAssumption
  DEF InitializeEmissionDistributorV0, PercentagesAddUp,
      Breaker!InitializeMintWindowedBreakerV0
<1>2. supply = 0 /\ pass.supply = 0 /\ pass.high = 0
  BY <1>1 DEF Drawn
<1>3. TotalPercent(rewards)
        = Total([i \in DOMAIN rewards |-> rewards[i].percent], 1 .. Len(rewards))
  BY PercentsSumUp
<1>4. PercentTo(Len(distributor))' = 100
  BY <1>1, <1>3 DEF PercentTo, PercentOf
<1>5. Paid' = Len(rewards)
  BY <1>1 DEF Paid
<1>6. /\ 100 * (supply - pass.supply)' <= 100 * pass'.high
      /\ (supply - pass.supply)' = 0
  BY <1>1, <1>2
<1>7. (supply - pass.supply)' <= Paid' * Share(LargestPercent, pass.high)'
  <2>1. distributor' \in RewardsArgs /\ distributor' # <<>> /\ Len(rewards) \in Nat
    BY <1>1, SomeRewards, RewardsType DEF InitializeEmissionDistributorV0
  <2>2. (LargestPercent \in Nat)'
    <3>1. (distributor \in RewardsArgs /\ distributor # <<>>)'
      BY <2>1
    <3> QED BY <3>1, LargestIsNat, PTL
  <2>3. Share(LargestPercent, pass.high)' = 0
    BY <1>1, <1>2, <2>2, NothingHasNoShare DEF Share
  <2>4. Len(rewards) * 0 = 0
    BY <2>1
  <2> QED BY <1>5, <1>6, <2>3, <2>4
<1> QED BY <1>1, <1>2, <1>4, <1>5, <1>6, <1>7 DEF Drawn

LEMMA KickoffDrawn ==
  ASSUME IInv, SharesInv, Drawn, ThreadKickoff
  PROVE  Drawn'
<1>1. /\ distributor # None /\ distributor \in RewardsArgs /\ distributor # <<>>
      /\ supply \in Nat
      /\ pass' = [received |-> received, supply |-> supply, low |-> 0, high |-> 0,
                  strayed |-> {}, ever |-> pass.ever]
      /\ UNCHANGED <<supply, distributor>>
  BY U64MaxAssumption DEF ThreadKickoff, IInv, HandedIn, Numbers, breakerVars, U64
<1>2. PercentTo(Paid)' \in Nat /\ Paid' \in Nat
  <2>1. Len(distributor) \in Nat /\ thread'.next = NextInstruction(0)
    BY <1>1, LenIsNat DEF ThreadKickoff, KickedOff
  <2>2. Paid' \in 0 .. Len(distributor)
    BY <1>1, <2>1 DEF Paid, NextInstruction
  <2>3. \A k \in 0 .. Len(distributor) : PercentTo(k) \in Nat
    BY <1>1, PercentAtMost
  <2> QED BY <1>1, <2>1, <2>2, <2>3 DEF PercentTo, PercentOf
<1>3. PercentTo(Len(distributor))' = PercentTo(Len(distributor))
  BY <1>1 DEF PercentTo, PercentOf
<1>4. Share(LargestPercent, pass.high)' = 0
  <2>1. LargestPercent' = LargestPercent /\ LargestPercent \in Nat
    BY <1>1, LargestOfThem DEF LargestPercent
  <2> QED BY <1>1, <2>1, NothingHasNoShare DEF Share
<1>5. Paid' * 0 = 0 /\ PercentTo(Paid)' * 0 = 0
  <2>1. \A x \in Nat : x * 0 = 0
    OBVIOUS
  <2> QED BY <1>2, <2>1
<1>6. supply' = supply /\ pass'.supply = supply /\ pass'.high = 0
  BY <1>1
<1>7. (supply - pass.supply)' = 0
  BY <1>1, <1>6
<1> QED BY <1>1, <1>3, <1>4, <1>5, <1>6, <1>7 DEF Drawn

\* The largest share for one instruction more.
LEMMA ExecDrawsAtMost ==
  ASSUME IInv, SharesInv, Drawn, ThreadExec
  PROVE  /\ pass'.supply <= supply' /\ Paid' = thread.next
         /\ supply' - pass'.supply <= Paid' * Share(LargestPercent, pass.high)'
<1>1. /\ distributor # None /\ thread.next \in 1 .. Len(distributor)
      /\ Len(distributor) \in Nat /\ UNCHANGED distributor
      /\ thread'.next = NextInstruction(thread.next)
  BY ExecMints, LenIsNat
<1>2. PICK t \in Nat : t = Paid /\ Paid' = t + 1 /\ thread.next = t + 1
  <2>1. Paid = thread.next - 1 /\ Paid \in Nat /\ Paid' = thread.next
    BY <1>1 DEF Paid, NextInstruction
  <2> QED BY <1>1, <2>1
<1>3. PICK g \in Nat : g = supply - pass.supply
  <2>1. supply \in Nat /\ pass.supply \in Nat /\ pass.supply <= supply
    BY <1>1, U64MaxAssumption DEF IInv, Numbers, SharesInv, Books, Drawn, U64
  <2> QED BY <2>1
<1>4. PICK e \in Nat, p \in Nat, q \in Nat, h \in Nat, n \in Nat :
        /\ e = TotalEmissions /\ p = Escrow(owner[To]).percent /\ q = LargestPercent
        /\ h = pass.high /\ n = pass'.high /\ p <= q /\ e <= n /\ h <= n
  <2>1. LargestPercent \in Nat
    BY ExecMints, LargestOfThem
  <2> QED BY <2>1, ExecMints, ExecDraws DEF SharesInv
<1>5. g <= t * Share(q, h)
  BY <1>1, <1>2, <1>3, <1>4 DEF Drawn
<1>6. g + Share(p, e) <= (t + 1) * Share(q, n)
  <2>1. g \in Int
    OBVIOUS
  <2> QED BY <1>4, <1>5, <2>1, AtMost
<1>7. Share(LargestPercent, pass.high)' = Share(q, n)
  BY <1>1, <1>4 DEF Share, LargestPercent
<1>8. supply' = supply + Share(p, e) /\ Share(p, e) \in Nat /\ pass'.supply = pass.supply
  BY <1>4, ExecMints, ExecDraws DEF SharesInv, Paying
<1>9. supply' - pass'.supply = g + Share(p, e) /\ pass'.supply <= supply'
  <2>1. supply \in Nat /\ pass.supply \in Nat
    BY U64MaxAssumption DEF IInv, Numbers, SharesInv, Books, U64
  <2> QED BY ONLY <1>3, <1>8, <2>1
<1> QED BY <1>2, <1>6, <1>7, <1>9

\* The instruction's own percentage, while every one has paid its own.
LEMMA ExecDrawsOwn ==
  ASSUME IInv, SharesInv, Drawn, ThreadExec, Distinct, pass'.strayed = {}
  PROVE  100 * (supply - pass.supply)' <= PercentTo(Paid)' * pass'.high
<1> DEFINE k == thread.next
           p == distributor[k].percent
           n == Share(p, TotalEmissions)
           h == pass'.high
           d == supply - pass.supply
           c == PercentTo(k - 1)
<1>1. /\ distributor \in RewardsArgs /\ distributor # None /\ k \in 1 .. Len(distributor)
      /\ p \in Nat /\ supply' = supply + n /\ thread'.next = NextInstruction(k)
      /\ pass'.supply = pass.supply /\ h \in Nat /\ pass.high \in Nat /\ pass.high <= h
      /\ TotalEmissions \in Nat /\ TotalEmissions <= h /\ pass.strayed = {}
      /\ UNCHANGED distributor
  <2>1. owner[To] = To /\ pass.strayed = {}
    BY ExecDraws DEF SharesInv
  <2>2. Escrow(owner[To]) = distributor[k]
    BY <2>1, ExecMints, EscrowIsOwn
  <2> QED BY <2>1, <2>2, ExecMints, ExecDraws DEF SharesInv, Paying
<1>2. n \in Nat /\ 100 * n <= p * h
  BY <1>1, ShareAtMost
<1>3. c \in Nat /\ PercentTo(k) = p + c /\ PercentTo(k) \in Nat
  BY <1>1, PercentGrows
<1>4. supply \in Nat /\ pass.supply \in Nat /\ Len(distributor) \in Nat
  BY <1>1, LenIsNat, U64MaxAssumption DEF IInv, Numbers, SharesInv, Books, U64
<1>5. pass.supply <= supply /\ 100 * d <= c * pass.high
  BY <1>1, <1>4 DEF Drawn, Paid
<1>6. PercentTo(Paid)' = PercentTo(k)
  <2>1. Paid' = k
    BY <1>1, <1>4 DEF Paid, NextInstruction
  <2> QED BY <1>1, <2>1 DEF PercentTo, PercentOf
<1>7. (supply - pass.supply)' = d + n /\ d \in Nat
  <2>1. supply' = supply + n /\ pass'.supply = pass.supply /\ pass.supply <= supply /\ n \in Nat
    BY <1>1, <1>2, <1>5
  <2> HIDE DEF n
  <2> QED BY ONLY <1>4, <2>1 DEF d
<1>8. p \in Nat /\ h \in Nat /\ pass.high \in Nat /\ c \in Nat /\ pass.high <= h
  BY <1>1, <1>3
<1> HIDE DEF p, n, h, d, c
<1>9. c * pass.high <= c * h
  BY <1>8, TimesGrows
<1>10. 100 * (d + n) <= (p + c) * h
  <2>1. /\ (p + c) * h = p * h + c * h
        /\ p * h \in Nat /\ c * h \in Nat /\ c * pass.high \in Nat
    BY <1>8
  <2> QED BY <1>2, <1>5, <1>7, <1>9, <2>1
<1> QED BY <1>3, <1>6, <1>7, <1>10 DEF h

LEMMA ExecDrawn ==
  ASSUME IInv, SharesInv, Drawn, ThreadExec
  PROVE  Drawn'
<1>1. distributor # None /\ UNCHANGED distributor
  BY ExecMints
<1>2. PercentTo(Len(distributor))' = 100
  BY <1>1 DEF Drawn, PercentTo, PercentOf
<1>3. Distinct' = Distinct
  BY <1>1 DEF Distinct
<1> QED BY <1>1, <1>2, <1>3, ExecDrawsAtMost, ExecDrawsOwn DEF Drawn

LEMMA DrawnPreserved == IInv /\ SharesInv /\ Drawn /\ [Next]_vars => Drawn'
<1> SUFFICES ASSUME IInv, SharesInv, Drawn, [Next]_vars PROVE Drawn'
  OBVIOUS
<1>1. CASE UNCHANGED <<supply, distributor, thread, pass>>
  BY <1>1 DEF Drawn, PercentTo, PercentOf, Paid, LargestPercent, Distinct
<1> QED
  BY <1>1, InitializeDrawn, KickoffDrawn, ExecDrawn
  DEF Next, Administration, InitializeEmissionScheduleV0, UpdateEmissionScheduleV0,
      CreateTokenAccount, CloseTokenAccount, SetOwner, SimulationFails, TakeUp,
      UpdateThreshold, Breaker!UpdateMintWindowedBreakerV0, DeleteBreaker,
      Breaker!DeleteMintWindowedCircuitBreakerV0, Tick, Breaker!Tick, vars, breakerVars

LEMMA DrawnWithinEpoch == IInv /\ SharesInv /\ Drawn => PassWithinEpoch
<1> SUFFICES ASSUME IInv, SharesInv, Drawn, distributor # None
             PROVE  /\ supply - pass.supply
                          <= Len(distributor) * Share(LargestPercent, pass.high)
                    /\ Distinct /\ pass.strayed = {} => supply - pass.supply <= pass.high
  BY DEF PassWithinEpoch
<1>1. supply \in Nat /\ pass.supply \in Nat /\ pass.high \in Nat
  BY U64MaxAssumption DEF IInv, Numbers, SharesInv, Books, U64
<1>2. distributor \in RewardsArgs /\ distributor # <<>> /\ thread # None
      /\ thread \in ThreadType /\ thread.next <= Len(distributor) /\ Len(distributor) \in Nat
  BY LenIsNat DEF IInv, HandedIn, SharesInv, Fair
<1>3. Paid \in 0 .. Len(distributor)
  BY <1>2 DEF Paid, ThreadType
<1>4. supply - pass.supply <= Len(distributor) * Share(LargestPercent, pass.high)
  <2>1. PICK x \in Nat : x = Share(LargestPercent, pass.high)
    BY <1>1, <1>2, LargestOfThem, ShareIsNat
  <2>2. PICK c \in Nat, l \in Nat : c = Paid /\ l = Len(distributor) /\ c <= l
    BY <1>2, <1>3
  <2>3. x * c <= x * l /\ x * c = c * x /\ x * l = l * x /\ x * c \in Nat /\ x * l \in Nat
    BY <2>2, TimesGrows
  <2>4. supply - pass.supply <= c * x
    BY <2>1, <2>2 DEF Drawn
  <2>5. supply - pass.supply <= l * x
    BY ONLY <1>1, <2>3, <2>4
  <2> QED BY <2>1, <2>2, <2>5
<1>5. ASSUME Distinct, pass.strayed = {}
      PROVE  supply - pass.supply <= pass.high
  <2>1. PICK c \in Nat : c = PercentTo(Paid) /\ c <= 100
    BY <1>2, <1>3, PercentAtMost DEF Drawn
  <2>2. pass.high * c <= pass.high * 100 /\ pass.high * c = c * pass.high
        /\ pass.high * c \in Nat /\ pass.high * 100 = 100 * pass.high
    BY <1>1, <2>1, TimesGrows
  <2>3. 100 * (supply - pass.supply) <= c * pass.high
    BY <1>5, <2>1 DEF Drawn
  <2> QED BY ONLY <1>1, <2>2, <2>3
<1> QED BY <1>4, <1>5

\* For any rewards and any rounding, updating, handing over and repeating: a pass emits no
\* more than the largest emission it drew on, as long as it paid nobody another's
\* percentage and nobody is named twice, and the largest share for every instruction
\* otherwise (thread_exec, distribute_emission_v0).
THEOREM PassesAreWithinEpoch == Spec => []PassWithinEpoch
  BY DrawnWithinEpoch, InitDrawn, InitShares, SharesPreserved, DrawnPreserved, Invariance, PTL DEF Spec

-----------------------------------------------------------------------------
(* What is proved of MintBreaker, of the RNDR mint: Rndr is the breaker's    *)
(* module with its theorems, at the same substitutions as Breaker.           *)

Rndr == INSTANCE MintBreakerProofs WITH
  Principals <- Keys \cup {Distributor},
  Configs    <- {EpochConfig(t) : t \in Emissions \cup Thresholds},
  Amounts    <- {Share(p, e) : p \in Percentages, e \in Emissions} \cap U64

LEMMA RndrAssumptions ==
  /\ Rndr!U64MaxAssumption /\ Rndr!PdaAssumption /\ Rndr!ConfigsAssumption
  /\ Rndr!AmountsAssumption /\ Rndr!MaxTimeAssumption /\ Rndr!NoneAssumption
<1>1. Rndr!U64MaxAssumption /\ Rndr!MaxTimeAssumption
  BY U64MaxAssumption, TimeAssumption DEF Rndr!U64MaxAssumption, Rndr!MaxTimeAssumption
<1>2. Rndr!PdaAssumption
  BY AddressAssumption DEF Rndr!PdaAssumption
<1>3. Rndr!AmountsAssumption
  BY DEF Rndr!AmountsAssumption, U64, Rndr!U64
<1>4. Rndr!NoneAssumption
  BY AbsentAssumption
  DEF Rndr!NoneAssumption, Breaker!BreakerType, Rndr!BreakerType, Breaker!ConfigType,
      Rndr!ConfigType, Breaker!WindowType, Rndr!WindowType, Breaker!ThresholdType,
      Rndr!ThresholdType, Breaker!U64, Rndr!U64
<1>5. Rndr!ConfigsAssumption
  <2>1. Emissions \subseteq U64
    <3>1. ASSUME NEW items \in Schedules, NEW i \in DOMAIN items
          PROVE  items[i].emissions_per_epoch \in U64
      <4>1. items \in Seq(ItemType) /\ i \in 1 .. Len(items)
        BY ScheduleAssumption, LenIsNat
      <4>2. items[i] \in ItemType
        BY <4>1, ElementOfSeq
      <4> QED BY <4>2 DEF ItemType
    <3> QED BY <3>1 DEF Emissions
  <2>2. ASSUME NEW t \in Emissions \cup Thresholds
        PROVE  EpochConfig(t) \in Rndr!ConfigType /\ EpochConfig(t) # None
    <3>1. t \in U64 /\ EpochLength \in Nat
      BY <2>1, ScheduleAssumption, TimeAssumption
    <3>2. EpochConfig(t) \in Rndr!ConfigType
      BY <3>1 DEF EpochConfig, Rndr!ConfigType, Rndr!ThresholdType, U64, Rndr!U64
    <3>3. EpochConfig(t) \in ConfigType
      BY <3>1 DEF EpochConfig, ConfigType, ThresholdType
    <3> QED BY <3>2, <3>3, AbsentAssumption
  <2> QED BY <2>2 DEF Rndr!ConfigsAssumption
<1> QED BY <1>1, <1>2, <1>3, <1>4, <1>5

\* Breaker and Rndr are the same definitions.
LEMMA SameMint ==
  ASSUME NEW s, NEW n
  PROVE  Breaker!MintV0(s, n) <=> Rndr!MintV0(s, n)
  BY DEF Breaker!MintV0, Rndr!MintV0, Breaker!Enforceable, Rndr!Enforceable,
         Breaker!EnforcedWindow, Rndr!EnforcedWindow, Breaker!Seeing, Rndr!Seeing,
         Breaker!GetThreshold, Rndr!GetThreshold, Breaker!NewAggregate, Rndr!NewAggregate,
         Breaker!DecayDefined, Rndr!DecayDefined, Breaker!Remaining, Rndr!Remaining,
         Breaker!TimeDecayPreviousValue, Rndr!TimeDecayPreviousValue

LEMMA SameAdministration ==
  ASSUME NEW s, NEW a, NEW m, NEW c
  PROVE  /\ Breaker!InitializeMintWindowedBreakerV0(s, a, m, c)
              <=> Rndr!InitializeMintWindowedBreakerV0(s, a, m, c)
         /\ Breaker!UpdateMintWindowedBreakerV0(s, a, m, c)
              <=> Rndr!UpdateMintWindowedBreakerV0(s, a, m, c)
         /\ Breaker!DeleteMintWindowedCircuitBreakerV0(s)
              <=> Rndr!DeleteMintWindowedCircuitBreakerV0(s)
<1>1. Breaker!NothingSeen = Rndr!NothingSeen /\ Breaker!FreshWindow = Rndr!FreshWindow
  BY DEF Breaker!NothingSeen, Rndr!NothingSeen, Breaker!FreshWindow, Rndr!FreshWindow
<1>2. Breaker!InitializeMintWindowedBreakerV0(s, a, m, c)
        <=> Rndr!InitializeMintWindowedBreakerV0(s, a, m, c)
  BY <1>1
  DEF Breaker!InitializeMintWindowedBreakerV0, Rndr!InitializeMintWindowedBreakerV0,
      Breaker!IsValid, Rndr!IsValid, Breaker!HandOver, Rndr!HandOver
<1>3. Breaker!UpdateMintWindowedBreakerV0(s, a, m, c)
        <=> Rndr!UpdateMintWindowedBreakerV0(s, a, m, c)
  BY <1>1
  DEF Breaker!UpdateMintWindowedBreakerV0, Rndr!UpdateMintWindowedBreakerV0,
      Breaker!Given, Rndr!Given
<1>4. Breaker!DeleteMintWindowedCircuitBreakerV0(s)
        <=> Rndr!DeleteMintWindowedCircuitBreakerV0(s)
  BY <1>1
  DEF Breaker!DeleteMintWindowedCircuitBreakerV0, Rndr!DeleteMintWindowedCircuitBreakerV0
<1> QED BY <1>2, <1>3, <1>4

LEMMA SameSurroundings ==
  ASSUME NEW s, NEW n
  PROVE  /\ Breaker!MintToDirectly(s, n) <=> Rndr!MintToDirectly(s, n)
         /\ Breaker!Burn(n) <=> Rndr!Burn(n)
         /\ Breaker!Tick <=> Rndr!Tick
         /\ Breaker!Observe <=> Rndr!Observe
  BY DEF Breaker!MintToDirectly, Rndr!MintToDirectly, Breaker!Burn, Rndr!Burn,
         Breaker!Tick, Rndr!Tick, Breaker!Observe, Rndr!Observe,
         Breaker!NothingSeen, Rndr!NothingSeen

LEMMA SameNext == Breaker!Next => Rndr!Next
<1> DEFINE P == Keys \cup {Distributor}
           C == {EpochConfig(t) : t \in Emissions \cup Thresholds}
           N == {Share(p, e) : p \in Percentages, e \in Emissions} \cap U64
<1>1. ASSUME NEW s \in P, NEW a \in P, NEW m \in P, NEW c \in C,
             Breaker!InitializeMintWindowedBreakerV0(s, a, m, c)
      PROVE  Rndr!Next
  BY <1>1, SameAdministration DEF Rndr!Next
<1>2. ASSUME NEW s \in P, NEW a \in P \cup {None}, NEW m \in P \cup {None},
             NEW c \in C \cup {None}, Breaker!UpdateMintWindowedBreakerV0(s, a, m, c)
      PROVE  Rndr!Next
  BY <1>2, SameAdministration DEF Rndr!Next
<1>3. ASSUME NEW s \in P, Breaker!DeleteMintWindowedCircuitBreakerV0(s)
      PROVE  Rndr!Next
  BY <1>3, SameAdministration DEF Rndr!Next
<1>4. ASSUME NEW s \in P, NEW n \in N, Breaker!MintV0(s, n)
      PROVE  Rndr!Next
  BY <1>4, SameMint DEF Rndr!Next
<1>5. ASSUME NEW s \in P, NEW n \in N, Breaker!MintToDirectly(s, n)
      PROVE  Rndr!Next
  BY <1>5, SameSurroundings DEF Rndr!Next
<1>6. ASSUME NEW n \in N, Breaker!Burn(n)
      PROVE  Rndr!Next
  BY <1>6, SameSurroundings DEF Rndr!Next
<1>7. CASE Breaker!Tick \/ Breaker!Observe
  BY <1>7, SameSurroundings DEF Rndr!Next
<1> QED BY <1>1, <1>2, <1>3, <1>4, <1>5, <1>6, <1>7 DEF Breaker!Next

LEMMA RndrIsMintBreaker == Breaker!Spec => Rndr!Spec
<1>1. Breaker!Init <=> Rndr!Init
  BY DEF Breaker!Init, Rndr!Init, Breaker!NothingSeen, Rndr!NothingSeen
<1>2. [Breaker!Next]_(Breaker!vars) => [Rndr!Next]_(Rndr!vars)
  BY SameNext DEF Breaker!vars, Rndr!vars
<1> QED BY <1>1, <1>2, PTL DEF Breaker!Spec, Rndr!Spec

\* However the schedule, the thread, its kickoffs and repetitions play together, what
\* is emitted over a span of time is within the breaker's budget.
THEOREM EmissionsAreBounded == Spec => []Breaker!SpanBound
<1>1. Rndr!Spec => []Rndr!SpanBound
  BY RndrAssumptions, Rndr!SpanIsBounded, PTL
<1>2. Rndr!SpanBound => Breaker!SpanBound
  BY DEF Rndr!SpanBound, Breaker!SpanBound, Rndr!Budget, Breaker!Budget
<1> QED BY <1>1, <1>2, RndrIsMintBreaker, EmissionsImplementMintBreaker, PTL DEF MintIsGuarded

-----------------------------------------------------------------------------
(* Type correctness *)

\* Nobody was minted more than there is, the thread is never ahead of the clock, and what
\* surrounds the programs is what it is.
Bounded ==
  /\ \A a \in Owners : received[a] <= supply
  /\ thread # None => thread.started_at <= now

Around ==
  /\ tries \in 0 .. MaxFailures + 1
  /\ DOMAIN owner \subseteq Owners /\ \A a \in DOMAIN owner : owner[a] \in Owners

LEMMA BoundedPreserved == IInv /\ SharesInv /\ Bounded /\ [Next]_vars => Bounded'
<1> SUFFICES ASSUME IInv, SharesInv, Bounded, [Next]_vars PROVE Bounded'
  OBVIOUS
<1>1. /\ now \in Nat /\ supply \in Nat /\ received \in [Owners -> Nat]
      /\ \A a \in Owners : received[a] <= supply
      /\ thread # None => thread \in ThreadType /\ thread.started_at <= now
  BY U64MaxAssumption DEF IInv, Numbers, HandedIn, U64, Bounded, SharesInv, Books
<1>2. ASSUME NEW s \in Keys, NEW a \in Keys, NEW rewards \in RewardsArgs,
             InitializeEmissionDistributorV0(s, a, rewards)
      PROVE  Bounded'
  BY <1>1, <1>2
  DEF InitializeEmissionDistributorV0, Breaker!InitializeMintWindowedBreakerV0, Bounded,
      recipientVars
<1>3. CASE ThreadKickoff
  BY <1>1, <1>3 DEF ThreadKickoff, KickedOff, Bounded, breakerVars, recipientVars
<1>4. CASE ThreadExec
  <2>1. /\ To \in Owners /\ received' = [received EXCEPT ![To] = @ + Paying]
        /\ supply' = supply + Paying /\ now' = now /\ Paying \in Nat
        /\ thread # None /\ thread'.started_at = thread.started_at
    BY <1>4, ExecMints DEF ThreadExec
  <2>2. \A a \in Owners : received'[a] <= supply'
    BY ONLY <1>1, <2>1
  <2> QED BY <1>1, <2>1, <2>2 DEF Bounded
<1>5. CASE Tick
  <2>1. now' = now + 1 /\ supply' = supply /\ received' = received /\ thread' = thread
    BY <1>5 DEF Tick, Breaker!Tick, recipientVars
  <2>2. thread # None => thread.started_at \in Nat
    BY <1>1 DEF ThreadType
  <2> QED BY <1>1, <2>1, <2>2 DEF Bounded
<1>6. CASE UNCHANGED <<now, supply, received, thread>>
  BY <1>6 DEF Bounded
<1> QED
  BY <1>2, <1>3, <1>4, <1>5, <1>6
  DEF Next, Administration, InitializeEmissionScheduleV0, UpdateEmissionScheduleV0,
      CreateTokenAccount, CloseTokenAccount, SetOwner, SimulationFails, TakeUp,
      UpdateThreshold, Breaker!UpdateMintWindowedBreakerV0, DeleteBreaker,
      Breaker!DeleteMintWindowedCircuitBreakerV0, vars, breakerVars, recipientVars

LEMMA AroundPreserved == Around /\ [Next]_vars => Around'
<1> SUFFICES ASSUME Around, [Next]_vars PROVE Around'
  OBVIOUS
<1> USE DEF Around
<1>1. ASSUME NEW a \in Owners, CreateTokenAccount(a)
      PROVE  Around'
  BY <1>1 DEF CreateTokenAccount
<1>2. ASSUME NEW a \in Owners, CloseTokenAccount(a)
      PROVE  Around'
  BY <1>2 DEF CloseTokenAccount
<1>3. ASSUME NEW a \in Owners, NEW o \in Owners, SetOwner(a, o)
      PROVE  Around'
  BY <1>3 DEF SetOwner
<1>4. CASE SimulationFails
  BY <1>4, TimeAssumption DEF SimulationFails, recipientVars
<1>5. CASE tries' = 0 /\ UNCHANGED owner
  BY <1>5, TimeAssumption
<1>6. CASE UNCHANGED <<tries, owner>>
  BY <1>6
<1> QED
  BY <1>1, <1>2, <1>3, <1>4, <1>5, <1>6
  DEF Next, Administration, InitializeEmissionScheduleV0, UpdateEmissionScheduleV0,
      InitializeEmissionDistributorV0, ThreadKickoff, ThreadExec, DistributeEmissionV0,
      TakeUp, UpdateThreshold, DeleteBreaker, Tick, vars, recipientVars

\* Everything keeps its type, of the accounts, the thread and the mint.
THEOREM TypeCorrect == Spec => []TypeOK
<1>1. Rndr!Spec => []Rndr!TypeOK
  BY RndrAssumptions, Rndr!TypeCorrect, PTL
<1>2. Rndr!TypeOK => Breaker!TypeOK
  BY DEF Rndr!TypeOK, Breaker!TypeOK, Rndr!BreakerType, Breaker!BreakerType,
         Rndr!ConfigType, Breaker!ConfigType, Rndr!WindowType, Breaker!WindowType,
         Rndr!ObservationType, Breaker!ObservationType, Rndr!ThresholdType,
         Breaker!ThresholdType, Rndr!U64, Breaker!U64
<1>3. Init => Bounded /\ Around
  BY TimeAssumption DEF Init, NothingReceived, Bounded, Around, Breaker!Init
<1>4. Breaker!TypeOK /\ IInv /\ SharesInv /\ Bounded /\ Around => TypeOK
  <2> SUFFICES ASSUME Breaker!TypeOK, IInv, SharesInv, Bounded, Around PROVE TypeOK
    OBVIOUS
  <2>1. received \in [Owners -> Nat] /\ \A a \in Owners : received[a] <= supply
    BY DEF SharesInv, Books, Bounded
  <2>2. \A n \in Nat : n <= supply => n \in U64
    BY U64MaxAssumption DEF IInv, Numbers, U64
  <2>3. received \in [Owners -> U64]
    BY ONLY <2>1, <2>2
  <2>4. pass.low \in U64 /\ pass.high \in U64 /\ pass.supply \in U64
        /\ pass.strayed \subseteq Owners /\ pass.ever \in BOOLEAN
    BY DEF SharesInv, Books
  <2> QED BY <2>3, <2>4 DEF TypeOK, IInv, HandedIn, Bounded, Around
<1> QED
  BY <1>1, <1>2, <1>3, <1>4, RndrIsMintBreaker, EmissionsImplementMintBreaker, InitShares,
     SharesPreserved, BoundedPreserved, AroundPreserved, Invariance, PTL
  DEF Spec, MintIsGuarded

-----------------------------------------------------------------------------
(* How the emissions follow the cron schedule *)

Largest == Max(Emissions)

\* What a pass emits at most, whatever is done.
Most == Len(distributor) * Share(LargestPercent, Largest)

\* Between two passes the supply is covered by the moments up to the last kickoff;
\* during a pass what it started from is covered by one moment less, the one the pass
\* itself stands for.
CoveredBy(f) ==
  IF thread.next = 0
  THEN supply <= f * Moments(thread.started_at)
  ELSE /\ 1 <= Moments(thread.started_at)
       /\ pass.supply <= f * (Moments(thread.started_at) - 1)

Followed ==
  /\ pass.high <= Largest
  /\ pass.strayed # {} => pass.ever
  /\ distributor # None =>
       CoveredBy(Most) /\ (Distinct /\ ~pass.ever => CoveredBy(Largest))

LEMMA LargestIsLargest == Largest \in Nat /\ \A e \in Emissions : e \in Nat /\ e <= Largest
<1>1. \A e \in Emissions : e \in Nat /\ e <= U64Max
  <2>1. ASSUME NEW items \in Schedules, NEW i \in DOMAIN items
        PROVE  items[i].emissions_per_epoch \in U64
    <3>1. items \in Seq(ItemType) /\ i \in 1 .. Len(items)
      BY ScheduleAssumption, LenIsNat
    <3>2. items[i] \in ItemType
      BY <3>1, ElementOfSeq
    <3> QED BY <3>2 DEF ItemType
  <2> QED BY <2>1, U64MaxAssumption DEF Emissions, U64
<1>2. Emissions # {}
  <2>1. PICK items \in Schedules : items # <<>>
    BY ScheduleAssumption
  <2>2. 1 \in DOMAIN items
    BY <2>1, ScheduleAssumption
  <2> QED BY <2>2 DEF Emissions
<1> QED BY <1>1, <1>2, U64MaxAssumption, MaxIsGreatest DEF Largest

\* There are finitely many moments, no fewer at a later time, and more once one has come.
LEMMA MomentsGrow ==
  ASSUME NEW s \in Nat, NEW t \in Nat, s <= t
  PROVE  /\ Moments(s) \in Nat /\ Moments(t) \in Nat /\ Moments(s) <= Moments(t)
         /\ CronTimeIn(s, t) => Moments(s) + 1 <= Moments(t)
<1> DEFINE S == {c \in CronTimes : c <= s}
           T == {c \in CronTimes : c <= t}
<1>1. IsFiniteSet(T) /\ S \subseteq T
  <2>1. T \subseteq 0 .. t /\ S \subseteq T
    <3>1. \A c \in CronTimes : c \in Nat
      BY TimeAssumption
    <3> QED BY <3>1
  <2>2. IsFiniteSet(0 .. t)
    BY 0 \in Int, t \in Int, FS_Interval
  <2> QED BY <2>1, <2>2, FS_Subset
<1>2. IsFiniteSet(S) /\ Cardinality(S) \in Nat /\ Cardinality(T) \in Nat
      /\ Cardinality(S) <= Cardinality(T) /\ (Cardinality(S) = Cardinality(T) => S = T)
  <2> HIDE DEF S, T
  <2> QED BY <1>1, FS_Subset, FS_CardinalityType
<1>3. CronTimeIn(s, t) => S # T
  BY TimeAssumption DEF CronTimeIn
<1> QED BY <1>2, <1>3 DEF Moments

\* The parts of the invariant this argument adds to.
Emitting == IInv /\ SharesInv /\ Drawn /\ Bounded

LEMMA EmittingNumbers ==
  ASSUME Emitting
  PROVE  /\ now \in Nat /\ supply \in Nat /\ pass.supply \in Nat /\ pass.high \in Nat
         /\ Largest \in Nat
         /\ distributor = None => supply = 0
         /\ distributor # None =>
              /\ distributor \in RewardsArgs /\ distributor # <<>> /\ thread # None
              /\ thread.started_at \in Nat /\ thread.started_at <= now
              /\ thread.next \in Nat /\ Moments(thread.started_at) \in Nat
              /\ LargestPercent \in Nat /\ Len(distributor) \in Nat /\ Most \in Nat
<1>1. /\ now \in Nat /\ supply \in Nat /\ pass.supply \in Nat /\ pass.high \in Nat
      /\ Largest \in Nat
  BY LargestIsLargest, U64MaxAssumption DEF Emitting, IInv, Numbers, SharesInv, Books, U64
<1>2. distributor = None => supply = 0
  BY DEF Emitting, Drawn
<1>3. ASSUME distributor # None
      PROVE  /\ distributor \in RewardsArgs /\ distributor # <<>> /\ thread # None
             /\ thread.started_at \in Nat /\ thread.started_at <= now /\ thread.next \in Nat
  BY <1>3 DEF Emitting, IInv, HandedIn, SharesInv, Fair, Bounded, ThreadType
<1>4. distributor # None => Moments(thread.started_at) \in Nat
  BY <1>1, <1>3, MomentsGrow
<1>5. ASSUME distributor # None
      PROVE  LargestPercent \in Nat /\ Len(distributor) \in Nat /\ Most \in Nat
  <2>1. LargestPercent \in Nat /\ Len(distributor) \in Nat
    BY <1>3, <1>5, LargestOfThem, LenIsNat
  <2>2. Share(LargestPercent, Largest) \in Nat
    BY <1>1, <2>1, ShareIsNat
  <2>3. \A x, y \in Nat : x * y \in Nat
    OBVIOUS
  <2> QED BY <2>1, <2>2, <2>3 DEF Most
<1> QED BY <1>1, <1>2, <1>3, <1>4, <1>5

\* A pass emits no more than what covers it.
LEMMA PassIsCovered ==
  Emitting /\ pass.high <= Largest /\ distributor # None =>
    /\ supply - pass.supply <= Most
    /\ Distinct /\ pass.strayed = {} => supply - pass.supply <= Largest
<1> SUFFICES ASSUME Emitting, pass.high <= Largest, distributor # None
             PROVE  /\ supply - pass.supply <= Most
                    /\ Distinct /\ pass.strayed = {} => supply - pass.supply <= Largest
  OBVIOUS
<1>1. /\ supply - pass.supply <= Len(distributor) * Share(LargestPercent, pass.high)
      /\ Distinct /\ pass.strayed = {} => supply - pass.supply <= pass.high
  BY DrawnWithinEpoch DEF Emitting, PassWithinEpoch
<1>2. PICK l \in Nat, q \in Nat, h \in Nat, m \in Nat :
        /\ l = Len(distributor) /\ q = LargestPercent /\ h = pass.high /\ m = Largest
        /\ h <= m
  BY EmittingNumbers
<1>3. PICK x \in Nat, y \in Nat : x = Share(q, h) /\ y = Share(q, m)
  BY ShareIsNat
<1>4. l * x <= l * y /\ l * x \in Nat /\ l * y \in Nat
  <2>1. q <= q
    OBVIOUS
  <2>2. x <= y
    BY <1>2, <1>3, <2>1, ShareGrows
  <2> QED BY <2>2, TimesGrows
<1>5. supply \in Nat /\ pass.supply \in Nat
  BY EmittingNumbers
<1>6. supply - pass.supply <= l * x /\ Most = l * y
  BY <1>1, <1>2, <1>3 DEF Most
<1> QED BY <1>1, <1>2, <1>4, <1>5, <1>6

LEMMA InitFollowed == Init => Followed
  BY LargestIsLargest DEF Init, Followed

LEMMA MostIsNat == Emitting => (distributor # None => Most \in Nat)
  BY EmittingNumbers

LEMMA InitializeFollowed ==
  ASSUME Emitting, Emitting', Followed,
         NEW s \in Keys, NEW a \in Keys, NEW rewards \in RewardsArgs,
         InitializeEmissionDistributorV0(s, a, rewards)
  PROVE  Followed'
<1>1. /\ distributor = None /\ distributor' # None
      /\ thread' = [next |-> 0, started_at |-> now]
      /\ UNCHANGED <<supply, pass>>
  BY RewardsAssumption
  DEF InitializeEmissionDistributorV0, Breaker!InitializeMintWindowedBreakerV0
<1>2. supply' = 0 /\ thread'.next = 0 /\ Largest \in Nat
  BY <1>1, EmittingNumbers
<1>3. Moments(thread.started_at)' \in Nat
  <2>1. now \in Nat /\ now <= now
    BY EmittingNumbers
  <2>2. Moments(now) \in Nat
    BY <2>1, MomentsGrow
  <2> QED BY <1>1, <2>2 DEF Moments
<1>4. Most' \in Nat
  <2>1. (distributor # None => Most \in Nat)'
    BY MostIsNat, PTL
  <2> QED BY <1>1, <2>1
<1>5. \A x, y \in Nat : 0 <= x * y
  BY \A x, y \in Nat : x * y \in Nat
<1>6. supply' <= Most' * Moments(thread.started_at)'
      /\ supply' <= Largest * Moments(thread.started_at)'
  BY <1>2, <1>3, <1>4, <1>5
<1> QED BY <1>1, <1>2, <1>6 DEF Followed, CoveredBy

\* The kickoff needs a moment the supply has not been covered by yet.
LEMMA KickoffCovers ==
  ASSUME Emitting, ThreadKickoff, NEW f \in Nat, CoveredBy(f)
  PROVE  CoveredBy(f)'
<1> DEFINE m == Moments(thread.started_at)
           n == Moments(now)
<1>1. /\ distributor # None /\ thread.next = 0 /\ CronTimeIn(thread.started_at, now)
      /\ thread' = [next |-> NextInstruction(0), started_at |-> now]
      /\ pass'.supply = supply /\ UNCHANGED supply
  BY DEF ThreadKickoff, KickedOff, Emitting, IInv, HandedIn, breakerVars
<1>2. /\ now \in Nat /\ supply \in Nat /\ m \in Nat /\ n \in Nat /\ m + 1 <= n
  BY <1>1, EmittingNumbers, MomentsGrow
<1>3. supply <= f * m
  BY <1>1 DEF CoveredBy
<1>4. Moments(thread.started_at)' = n
  BY <1>1 DEF Moments
<1> HIDE DEF m, n
<1>5. /\ f * m \in Nat /\ f * (n - 1) \in Nat /\ f * n \in Nat
      /\ f * m <= f * (n - 1) /\ f * m <= f * n
  BY <1>2, n - 1 \in Nat, TimesGrows
<1>6. supply <= f * (n - 1) /\ supply <= f * n /\ 1 <= n
  BY <1>2, <1>3, <1>5
<1> QED BY <1>1, <1>4, <1>6 DEF CoveredBy

LEMMA KickoffFollowed ==
  ASSUME Emitting, Followed, ThreadKickoff
  PROVE  Followed'
<1>1. /\ distributor # None /\ UNCHANGED distributor
      /\ pass'.high = 0 /\ pass'.strayed = {} /\ pass'.ever = pass.ever
  BY DEF ThreadKickoff, Emitting, IInv, HandedIn
<1>2. PICK f \in Nat : f = Most
  BY <1>1, EmittingNumbers
<1>3. Most' = f /\ Distinct' = Distinct
  BY <1>1, <1>2 DEF Most, LargestPercent, Distinct
<1>4. CoveredBy(f)' /\ (Distinct /\ ~pass.ever => CoveredBy(Largest)')
  BY <1>1, <1>2, KickoffCovers, EmittingNumbers DEF Followed
<1>5. CoveredBy(Most)'
  BY <1>3, <1>4 DEF CoveredBy
<1> QED BY <1>1, <1>3, <1>4, <1>5, LargestIsLargest DEF Followed

\* An instruction adds to the pass, which what covers a pass covers.
LEMMA ExecCovers ==
  ASSUME Emitting, ThreadExec, NEW f \in Nat, CoveredBy(f), supply' - pass'.supply <= f
  PROVE  CoveredBy(f)'
<1> DEFINE m == Moments(thread.started_at)
<1>1. /\ distributor # None /\ thread.next # 0
      /\ thread'.started_at = thread.started_at /\ pass'.supply = pass.supply
      /\ supply' = supply + Paying /\ Paying \in Nat
  BY ExecMints, ExecDraws DEF Emitting, SharesInv, ThreadExec
<1>2. supply \in Nat /\ supply' \in Nat /\ pass.supply \in Nat /\ m \in Nat
  <2>1. supply \in Nat /\ pass.supply \in Nat /\ m \in Nat
    BY <1>1, EmittingNumbers
  <2> QED BY ONLY <1>1, <2>1
<1>3. 1 <= m /\ pass.supply <= f * (m - 1)
  BY <1>1 DEF CoveredBy
<1>4. Moments(thread.started_at)' = m
  BY <1>1 DEF Moments
<1> HIDE DEF m
<1>5. f * (m - 1) + f = f * m /\ f * (m - 1) \in Int
  BY <1>2
<1>6. supply' <= f * m
  BY ONLY <1>1, <1>2, <1>3, <1>5, supply' - pass'.supply <= f, f \in Nat, f * m \in Int
<1> QED BY <1>1, <1>3, <1>4, <1>6 DEF CoveredBy

LEMMA ExecFollowed ==
  ASSUME Emitting, Emitting', Followed, ThreadExec
  PROVE  Followed'
<1>1. /\ distributor # None /\ UNCHANGED distributor /\ TotalEmissions \in Emissions
      /\ pass'.high \in {pass.high, TotalEmissions}
      /\ (pass.ever => pass'.ever)
      /\ pass'.strayed # pass.strayed => pass'.ever
  BY ExecMints, ExecDraws DEF Emitting, SharesInv
<1>2. pass'.high <= Largest /\ (pass'.strayed # {} => pass'.ever)
  BY <1>1, LargestIsLargest DEF Followed
<1>3. PICK f \in Nat : f = Most
  BY <1>1, EmittingNumbers
<1>4. Most' = f /\ Distinct' = Distinct
  BY <1>1, <1>3 DEF Most, LargestPercent, Distinct
<1>5. /\ supply' - pass'.supply <= f
      /\ Distinct /\ ~pass'.ever => supply' - pass'.supply <= Largest
  <2>1. /\ (supply - pass.supply <= Most)'
        /\ (Distinct /\ pass.strayed = {} => supply - pass.supply <= Largest)'
    <3>1. Emitting' /\ (pass.high <= Largest)' /\ (distributor # None)'
      BY <1>1, <1>2
    <3> QED BY <3>1, PassIsCovered, PTL
  <2> QED BY <1>2, <1>4, <2>1
<1>6. CoveredBy(f)' /\ (Distinct /\ ~pass'.ever => CoveredBy(Largest)')
  BY <1>1, <1>3, <1>5, ExecCovers, EmittingNumbers DEF Followed
<1>7. CoveredBy(Most)'
  BY <1>4, <1>6 DEF CoveredBy
<1> QED BY <1>1, <1>2, <1>4, <1>6, <1>7 DEF Followed

LEMMA FollowedPreserved == Emitting /\ Emitting' /\ Followed /\ [Next]_vars => Followed'
<1> SUFFICES ASSUME Emitting, Emitting', Followed, [Next]_vars PROVE Followed'
  OBVIOUS
<1>1. CASE UNCHANGED <<supply, distributor, thread, pass>>
  BY <1>1 DEF Followed, CoveredBy, Most, LargestPercent, Distinct
<1> QED
  BY <1>1, InitializeFollowed, KickoffFollowed, ExecFollowed
  DEF Next, Administration, InitializeEmissionScheduleV0, UpdateEmissionScheduleV0,
      CreateTokenAccount, CloseTokenAccount, SetOwner, SimulationFails, TakeUp,
      UpdateThreshold, Breaker!UpdateMintWindowedBreakerV0, DeleteBreaker,
      Breaker!DeleteMintWindowedCircuitBreakerV0, Tick, Breaker!Tick, vars, breakerVars

\* What covers the passes covers the supply.
LEMMA CoveredNow ==
  ASSUME Emitting, distributor # None, NEW f \in Nat, CoveredBy(f),
         supply - pass.supply <= f
  PROVE  supply <= f * Moments(now)
<1> DEFINE m == Moments(thread.started_at)
           n == Moments(now)
<1>1. supply \in Nat /\ pass.supply \in Nat /\ m \in Nat /\ n \in Nat /\ m <= n
  BY EmittingNumbers, MomentsGrow
<1>2. thread.next = 0 \/ (1 <= m /\ pass.supply <= f * (m - 1))
  BY DEF CoveredBy
<1>3. thread.next = 0 => supply <= f * m
  BY DEF CoveredBy
<1> HIDE DEF m, n
<1>4. f * m \in Nat /\ f * n \in Nat /\ f * m <= f * n
  BY <1>1, TimesGrows
<1>5. f * (m - 1) + f = f * m /\ f * (m - 1) \in Int
  BY <1>1
<1>6. supply <= f * m
  BY <1>1, <1>2, <1>3, <1>4, <1>5
<1> QED BY <1>1, <1>4, <1>6 DEF n

\* The supply is at most one pass's emissions for every moment the cron schedule has
\* named, the largest emission as long as nobody is named twice and none was paid
\* another's percentage: for any rewards and any cron schedule, however late, often or
\* overlapping the workers call (thread_kickoff).
THEOREM EmissionsFollow == Spec => []EmissionsFollowTheCron
<1>1. Emitting /\ Followed => EmissionsFollowTheCron
  <2> SUFFICES ASSUME Emitting, Followed, distributor # None
               PROVE  /\ supply <= Most * Moments(now)
                      /\ Distinct /\ ~pass.ever => supply <= Largest * Moments(now)
    BY DEF EmissionsFollowTheCron, Largest, Most
  <2>1. /\ supply - pass.supply <= Most
        /\ Distinct /\ pass.strayed = {} => supply - pass.supply <= Largest
    BY PassIsCovered DEF Followed
  <2>2. Most \in Nat /\ Largest \in Nat
    BY EmittingNumbers
  <2>3. supply <= Most * Moments(now)
    BY <2>1, <2>2, CoveredNow DEF Followed
  <2>4. Distinct /\ ~pass.ever => supply <= Largest * Moments(now)
    BY <2>1, <2>2, CoveredNow DEF Followed
  <2> QED BY <2>3, <2>4
<1>2. Init => Bounded
  BY DEF Init, Breaker!Init, NothingReceived, Bounded
<1> QED
  BY <1>1, <1>2, InitDrawn, InitShares, InitFollowed, SharesPreserved, DrawnPreserved,
     BoundedPreserved, FollowedPreserved, Invariance, PTL
  DEF Spec, Emitting
=============================================================================
